-------------------------------- MODULE Session --------------------------------
(***************************************************************************)
(* The process with its platform and its sound: main() (Lifecycle) probes, *)
(* starts and stops the platform (PlatformRuntime), runs the frame loop    *)
(* and shares the sound device with guest threads (AudioOutput), which go  *)
(* on running until the process has ended, while it stops the platform and *)
(* runs destructors and finalizers included.                               *)
(***************************************************************************)
EXTENDS Lifecycle, AudioOutput

sessionVars == <<vars, platformVars, audioVars>>

SessionInit == Init /\ PlatformInit /\ AudioInit

\* Mutant: the platform is not stopped on a way out after a failure.
MainStepUnstopped ==
    /\ Next
    /\ stage = "preflight" => plat = "probed" /\ (stage' = "relocate" <=> passed = Tests)
    /\ stage = "jni-start" => plat = IF platform' THEN "running" ELSE "stopped"
    /\ stage = "game" => loop \in IF stage' = "leave" THEN {"quit"} ELSE {"enter", "failed"}
    /\ stage = "leave" => Stopped
    /\ UNCHANGED <<platformVars, audioVars>>

\* main() goes on when what it called has returned, the way that came out.
MainStep ==
    /\ Next
    /\ stage = "preflight" => plat = "probed" /\ (stage' = "relocate" <=> passed = Tests)
    /\ stage = "jni-start" => plat = IF platform' THEN "running" ELSE "stopped"
    /\ stage = "game" => loop \in IF stage' = "leave" THEN {"quit"} ELSE {"enter", "failed"}
    /\ stage \in {"leave", "shutdown"} => Stopped
    /\ UNCHANGED <<platformVars, audioVars>>

\* nfsmw_platform_probe; nfsmw_platform_runtime_start, which stops again what
\* it could not start; nfsmw_platform_runtime_stop.  A device that is closed
\* drops what is queued on it.
PlatformStep ==
    /\ \/ stage = "preflight" /\ Probe
       \/ stage = "jni-start" /\ (Start \/ (plat # "running" /\ Stop))
       \/ stage \in {"leave", "shutdown"} /\ Stop
    /\ level' = [d \in Devices |-> IF d \in open' THEN level[d] ELSE 0]
    /\ UNCHANGED <<vars, callback, context, size, loop, fmod, do, pump, player, registered,
                   primed, crash>>

\* The guest makes its threads from nativeOnCreate on; only the end of the
\* process ends them.
SoundStep ==
    /\ \/ stage = "game" /\ FrameLoop
       \/ stage \in {"jni-load", "game", "leave", "shutdown", "destroy", "finalize"} /\ GuestSound
       \/ Drain
    /\ UNCHANGED vars

SessionNext == crash = "no" /\ (MainStep \/ PlatformStep \/ SoundStep)

SessionSpec == SessionInit /\ [][SessionNext]_sessionVars
-----------------------------------------------------------------------------
\* Of the platform nothing is left when the process ends, whichever stage
\* failed and whatever the guest threads, which still run, had begun
\* (main.c:164, main.c:177, platform_probe.c:930-954).
AllReleased ==
    /\ PlatformReleased
    /\ stage = "exit" => plat = "idle" \/ Stopped
=============================================================================
