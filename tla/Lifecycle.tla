------------------------------- MODULE Lifecycle -------------------------------
(***************************************************************************)
(* The process from main() on (runtime/src/main.c): map the modules, check *)
(* the providers and the platform, relocate, patch, and, as far as the     *)
(* environment asks, run constructors, JNI start-up and the game; then the *)
(* two ways out of `done`: by _exit when guest code has run, by unmapping  *)
(* and returning when it has not.  Every stage can fail half way.          *)
(***************************************************************************)
EXTENDS Naturals

CONSTANTS Last,      (* MODULE_COUNT: images are 1..Last in link order     *)
          Patched,   (* images patched in memory: libfmodex and libapp     *)
          Inits,     (* Inits[i]: DT_INIT and DT_INIT_ARRAY entries of i   *)
          Finis      (* Finis[i]: DT_FINI_ARRAY and DT_FINI entries of i   *)

Images == 1..Last

ASSUME LifecycleAssumption ==
    /\ Last \in Nat \ {0}
    /\ Patched \subseteq Images
    /\ Inits \in [Images -> Nat]
    /\ Finis \in [Images -> Nat]

\* NFSMW_RUN_CONSTRUCTORS, NFSMW_RUN_JNI and NFSMW_RUN_GAME: each needs the
\* ones before it.
Modes == {"map", "constructors", "jni", "game"}

VARIABLES mode,       (* what the environment asks for                     *)
          stage,      (* where main() is                                   *)
          at,         (* the image the stage is at (index + 1)             *)
          mapped,     (* images that were mapped and not unmapped again    *)
          image,      (* image[i]: state of its memory                     *)
          patched,    (* images whose patch is written                     *)
          unresolved, (* strong relocations were left unresolved           *)
          hosts,      (* host libraries: "closed", "open", "retained"      *)
          started,    (* constructors_started                              *)
          completed,  (* constructors_completed                            *)
          obb,        (* the OBB index is open                             *)
          platform,   (* the persistent SDL runtime is started             *)
          inits,      (* inits[i]: initializers of i passed                *)
          finis,      (* finis[i]: finalizers of i passed                  *)
          result,     (* exit status                                       *)
          failed      (* history: a stage reported a failure               *)

memoryVars == <<mapped, image, patched, unresolved, hosts>>
guestVars == <<started, completed, inits, finis>>
hostVars == <<obb, platform>>
vars == <<mode, stage, at, memoryVars, guestVars, hostVars, result, failed>>

TypeOK ==
    /\ mode \in Modes
    /\ stage \in {"map", "census", "preflight", "relocate", "retain", "patch", "choose",
                  "construct", "jni-open", "jni-start", "jni-load", "game", "leave",
                  "shutdown", "destroy", "finalize", "unmap", "release", "exit"}
    /\ at \in Images
    /\ mapped \in 0..Last
    /\ image \in [Images -> {"none", "mapped", "partial", "linked"}]
    /\ patched \subseteq Patched
    /\ unresolved \in BOOLEAN
    /\ hosts \in {"closed", "open", "retained"}
    /\ started \in BOOLEAN /\ completed \in BOOLEAN
    /\ obb \in BOOLEAN /\ platform \in BOOLEAN
    /\ inits \in [Images -> Nat] /\ finis \in [Images -> Nat]
    /\ result \in {0, 1} /\ failed \in BOOLEAN

Init ==
    /\ mode \in Modes
    /\ stage = "map" /\ at = 1
    /\ mapped = 0 /\ image = [i \in Images |-> "none"]
    /\ patched = {} /\ unresolved = FALSE /\ hosts = "closed"
    /\ started = FALSE /\ completed = FALSE
    /\ obb = FALSE /\ platform = FALSE
    /\ inits = [i \in Images |-> 0] /\ finis = [i \in Images |-> 0]
    /\ result = 1 /\ failed = FALSE

\* goto done
Done == stage' = IF started THEN "shutdown" ELSE "unmap"

Fail == Done /\ failed' = TRUE /\ UNCHANGED <<mode, at, result>>

\* On with the next image, or with the next stage when this was the last.
Advance(next) ==
    IF at < Last THEN at' = at + 1 /\ UNCHANGED stage
                 ELSE at' = 1 /\ stage' = next

Goto(next) == stage' = next /\ UNCHANGED at
-----------------------------------------------------------------------------
(* Mapping and the checks before relocation.                               *)

\* elf32_map and elf32_describe succeed.
MapImage ==
    /\ stage = "map"
    /\ image' = [image EXCEPT ![at] = "mapped"]
    /\ mapped' = mapped + 1
    /\ Advance("census")
    /\ UNCHANGED <<mode, patched, unresolved, hosts, guestVars, hostVars, result, failed>>

\* elf32_map fails and leaves nothing mapped.
MapFails ==
    /\ stage = "map"
    /\ Fail
    /\ UNCHANGED <<memoryVars, guestVars, hostVars>>

\* elf32_describe fails after its image was counted as mapped.
DescribeFails ==
    /\ stage = "map"
    /\ image' = [image EXCEPT ![at] = "mapped"]
    /\ mapped' = mapped + 1
    /\ Fail
    /\ UNCHANGED <<patched, unresolved, hosts, guestVars, hostVars>>

\* nfsmw_probe_symbols and nfsmw_platform_probe close what they open.
Check ==
    /\ \/ stage = "census" /\ Goto("preflight")
       \/ stage = "preflight" /\ Goto("relocate")
    /\ UNCHANGED <<mode, memoryVars, guestVars, hostVars, result, failed>>

CheckFails ==
    /\ stage \in {"census", "preflight"}
    /\ Fail
    /\ UNCHANGED <<memoryVars, guestVars, hostVars>>
-----------------------------------------------------------------------------
(* nfsmw_relocation_probe and the patches.                                 *)

\* One image is relocated; some of its strong symbols may have no provider,
\* which is counted and is no failure.  The host libraries are open.
RelocateImage ==
    /\ stage = "relocate"
    /\ image' = [image EXCEPT ![at] = "linked"]
    /\ unresolved' \in {unresolved, TRUE}
    /\ hosts' = "open"
    /\ Advance("retain")
    /\ UNCHANGED <<mode, mapped, patched, guestVars, hostVars, result, failed>>

\* A relocation in the middle of the image is refused: what is before it is
\* written already, and the host libraries are closed.
RelocateFails ==
    /\ stage = "relocate"
    /\ image' = [image EXCEPT ![at] = "partial"]
    /\ hosts' = "closed"
    /\ Fail
    /\ UNCHANGED <<mapped, patched, unresolved, guestVars, hostVars>>

\* retain_host_libraries
Retain ==
    /\ stage = "retain"
    /\ hosts' = "retained"
    /\ Goto("patch")
    /\ UNCHANGED <<mode, mapped, image, patched, unresolved, guestVars, hostVars, result, failed>>

\* nfsmw_apply_fmod_patches and nfsmw_apply_app_patches.
Patch ==
    /\ stage = "patch"
    /\ IF at \in Patched THEN patched' = patched \cup {at} ELSE UNCHANGED patched
    /\ Advance("choose")
    /\ UNCHANGED <<mode, mapped, image, unresolved, hosts, guestVars, hostVars, result, failed>>

\* An unknown library is refused before the write, a failure to restore the
\* protection comes after it.
PatchFails ==
    /\ stage = "patch" /\ at \in Patched
    /\ patched' \in {patched, patched \cup {at}}
    /\ Fail
    /\ UNCHANGED <<mapped, image, unresolved, hosts, guestVars, hostVars>>

\* "COMBINED PASS": nothing more was asked for.
Finish ==
    /\ Done
    /\ result' = 0
    /\ UNCHANGED <<mode, at, failed>>

Mapping ==
    /\ stage = "choose" /\ mode = "map"
    /\ Finish
    /\ UNCHANGED <<memoryVars, guestVars, hostVars>>

\* Mutant of StartConstructors: unresolved relocations are not looked at.
StartUnresolved ==
    /\ stage = "choose" /\ mode # "map"
    /\ started' = TRUE
    /\ Goto("construct")
    /\ UNCHANGED <<mode, memoryVars, completed, inits, finis, hostVars, result, failed>>

\* Guest code runs only when everything it imports was resolved and the
\* signal self-test passed.
StartConstructors ==
    /\ stage = "choose" /\ mode # "map"
    /\ ~unresolved
    /\ started' = TRUE
    /\ Goto("construct")
    /\ UNCHANGED <<mode, memoryVars, completed, inits, finis, hostVars, result, failed>>

RefuseConstructors ==
    /\ stage = "choose" /\ mode # "map"
    /\ Fail
    /\ UNCHANGED <<memoryVars, guestVars, hostVars>>
-----------------------------------------------------------------------------
(* Guest code.                                                             *)

\* nfsmw_run_initializers, one entry after the other.
RunInitializer ==
    /\ stage = "construct" /\ inits[at] < Inits[at]
    /\ inits' = [inits EXCEPT ![at] = @ + 1]
    /\ UNCHANGED <<mode, stage, at, memoryVars, started, completed, finis, hostVars, result, failed>>

\* An entry outside its image, or an array that is.
InitializerFails ==
    /\ stage = "construct" /\ inits[at] < Inits[at]
    /\ Fail
    /\ UNCHANGED <<memoryVars, guestVars, hostVars>>

InitializersDone ==
    /\ stage = "construct" /\ inits[at] = Inits[at]
    /\ completed' = (at = Last)
    /\ IF at = Last /\ mode = "constructors"
       THEN Finish
       ELSE Advance("jni-open") /\ UNCHANGED <<mode, result, failed>>
    /\ UNCHANGED <<memoryVars, started, inits, finis, hostVars>>

\* nfsmw_jni_startup: nfsmw_obb_open, ...
OpenObb ==
    /\ stage = "jni-open"
    /\ obb' = TRUE
    /\ Goto("jni-start")
    /\ UNCHANGED <<mode, memoryVars, guestVars, platform, result, failed>>

\* ... nfsmw_platform_runtime_start, ...
StartPlatform ==
    /\ stage = "jni-start"
    /\ platform' = TRUE
    /\ Goto("jni-load")
    /\ UNCHANGED <<mode, memoryVars, guestVars, obb, result, failed>>

\* ... JNI_OnLoad of libNimble and libapp and nativeOnCreate.
LoadJni ==
    /\ stage = "jni-load"
    /\ IF mode = "jni" THEN Finish ELSE (Goto("game") /\ UNCHANGED <<mode, result, failed>>)
    /\ UNCHANGED <<memoryVars, guestVars, hostVars>>

\* Each of its steps can fail, and so can nfsmw_jni_run, on the way into the
\* loop or in it.
JniFails ==
    /\ stage \in {"jni-open", "jni-start", "jni-load", "game"}
    /\ Fail
    /\ UNCHANGED <<memoryVars, guestVars, hostVars>>

\* nfsmw_jni_run returns 0: the exit chord or the frame limit.
PlayGame ==
    /\ stage = "game"
    /\ Goto("leave")
    /\ UNCHANGED <<mode, memoryVars, guestVars, hostVars, result, failed>>

\* nfsmw_jni_shutdown and _exit(0): no guest code runs any more.
LeaveGame ==
    /\ stage = "leave"
    /\ obb' = FALSE /\ platform' = FALSE
    /\ result' = 0
    /\ Goto("exit")
    /\ UNCHANGED <<mode, memoryVars, guestVars, failed>>
-----------------------------------------------------------------------------
(* done: after guest code ran.                                             *)

\* nfsmw_jni_shutdown
Shutdown ==
    /\ stage = "shutdown"
    /\ obb' = FALSE /\ platform' = FALSE
    /\ Goto("destroy")
    /\ UNCHANGED <<mode, memoryVars, guestVars, result, failed>>

\* Mutant of Destroy: finalizers run although constructors did not finish.
DestroyAlways ==
    /\ stage = "destroy"
    /\ at' = Last /\ stage' = "finalize"
    /\ UNCHANGED <<mode, memoryVars, guestVars, hostVars, result, failed>>

\* nfsmw_compat_finalize (module AtExit).  ELF finalizers follow only when
\* every constructor has run.
Destroy ==
    /\ stage = "destroy"
    /\ IF completed THEN at' = Last /\ stage' = "finalize" ELSE Goto("exit")
    /\ UNCHANGED <<mode, memoryVars, guestVars, hostVars, result, failed>>

\* nfsmw_run_finalizers, from the last image down.
RunFinalizer ==
    /\ stage = "finalize" /\ finis[at] < Finis[at]
    /\ finis' = [finis EXCEPT ![at] = @ + 1]
    /\ UNCHANGED <<mode, stage, at, memoryVars, started, completed, inits, hostVars, result, failed>>

\* Mutant of FinalizerFails: the status of the run is kept.
FinalizerFailsQuietly ==
    /\ stage = "finalize" /\ finis[at] < Finis[at]
    /\ failed' = TRUE
    /\ Goto("exit")
    /\ UNCHANGED <<mode, memoryVars, guestVars, hostVars, result>>

\* A refused finalizer ends the pass: the images before it are left out.
FinalizerFails ==
    /\ stage = "finalize" /\ finis[at] < Finis[at]
    /\ failed' = TRUE
    /\ result' = 1
    /\ Goto("exit")
    /\ UNCHANGED <<mode, memoryVars, guestVars, hostVars>>

FinalizersDone ==
    /\ stage = "finalize" /\ finis[at] = Finis[at]
    /\ IF at > 1 THEN at' = at - 1 /\ UNCHANGED stage ELSE Goto("exit")
    /\ UNCHANGED <<mode, memoryVars, guestVars, hostVars, result, failed>>
-----------------------------------------------------------------------------
(* done: no guest code has run.                                            *)

\* Mutant of Unmap: the image mapped last is left.
UnmapFromIndex ==
    /\ stage = "unmap"
    /\ IF mapped > 1
       THEN /\ mapped' = mapped - 1
            /\ image' = [image EXCEPT ![mapped - 1] = "none"]
            /\ UNCHANGED stage
       ELSE stage' = "release" /\ UNCHANGED <<mapped, image>>
    /\ UNCHANGED <<mode, at, patched, unresolved, hosts, guestVars, hostVars, result, failed>>

Unmap ==
    /\ stage = "unmap"
    /\ IF mapped > 0
       THEN /\ mapped' = mapped - 1
            /\ image' = [image EXCEPT ![mapped] = "none"]
            /\ UNCHANGED stage
       ELSE stage' = "release" /\ UNCHANGED <<mapped, image>>
    /\ UNCHANGED <<mode, at, patched, unresolved, hosts, guestVars, hostVars, result, failed>>

\* nfsmw_relocation_release_hosts closes what was retained.
Release ==
    /\ stage = "release"
    /\ hosts' = IF hosts = "retained" THEN "closed" ELSE hosts
    /\ Goto("exit")
    /\ UNCHANGED <<mode, mapped, image, patched, unresolved, guestVars, hostVars, result, failed>>

Next ==
    \/ MapImage \/ MapFails \/ DescribeFails \/ Check \/ CheckFails
    \/ RelocateImage \/ RelocateFails \/ Retain \/ Patch \/ PatchFails
    \/ Mapping \/ StartConstructors \/ RefuseConstructors
    \/ RunInitializer \/ InitializerFails \/ InitializersDone
    \/ OpenObb \/ StartPlatform \/ LoadJni \/ JniFails \/ PlayGame \/ LeaveGame
    \/ Shutdown \/ Destroy \/ RunFinalizer \/ FinalizerFails \/ FinalizersDone
    \/ Unmap \/ Release

Spec == Init /\ [][Next]_vars
-----------------------------------------------------------------------------
\* Stages in which guest code runs.
GuestRuns == stage \in {"construct", "jni-load", "game", "leave", "destroy", "finalize"}

\* Guest code runs only in a fully linked process: every image relocated,
\* nothing unresolved, the patches in place, and the host libraries its
\* relocations point into still open.
GuestCodeLinked ==
    GuestRuns =>
        /\ \A i \in Images : image[i] = "linked"
        /\ patched = Patched
        /\ ~unresolved
        /\ hosts = "retained"

\* main() returns with nothing left: images and host libraries whose stages
\* succeeded are released whichever later stage failed; and the platform and
\* the OBB are closed on every way out.
ReleasedAtExit ==
    stage = "exit" =>
        /\ ~obb /\ ~platform
        /\ ~started => ((\A i \in Images : image[i] = "none") /\ hosts = "closed")

\* Initializers run in link order and finalizers in reverse, an image's
\* only after all of the image before it; and no finalizer of an image runs
\* unless all initializers of all images have.
FinalizersMirror ==
    \A i \in Images :
        /\ inits[i] > 0 => \A j \in 1..i - 1 : inits[j] = Inits[j]
        /\ finis[i] > 0 =>
              /\ \A j \in i + 1..Last : finis[j] = Finis[j]
              /\ \A j \in Images : inits[j] = Inits[j]

\* The exit status tells whether a stage failed.
HonestStatus == stage = "exit" => (result = 0 <=> ~failed)
=============================================================================
