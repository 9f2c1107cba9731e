----------------------------- MODULE EapxInstall -----------------------------
(***************************************************************************)
(* The install command of tools/eapx.py, which setup.sh runs before every  *)
(* launch: recovery of an interrupted transaction, the marker's fast path, *)
(* adoption, staged extraction and the journalled publication of the       *)
(* recipe's roots by rename.  The device may be switched off between any   *)
(* two steps, and a step of the transaction may raise.                     *)
(*                                                                         *)
(* A root (a file or a tree) is its content; two roots have the same       *)
(* digest when they have the same content.  File operations take effect    *)
(* in order, as with a working directory fsync; renames and the journal's  *)
(* and marker's replacement are atomic, deleting a tree is not.  The       *)
(* journal's state names are written and never read, and are left out.     *)
(* The lock lets one installer run at a time.                              *)
(***************************************************************************)
EXTENDS Naturals

CONSTANTS NRoots,         (* the roots are committed in order 1..NRoots    *)
          Plans,          (* payloads: plan[r] is the content for root r   *)
          Absent,         (* no file or directory                          *)
          Damaged,        (* a root that was damaged from outside          *)
          Partial,        (* a tree that is written or deleted in part     *)
          None,           (* no journal, no marker                         *)
          DamageSets,     (* sets of roots that are damaged together       *)
          RaisesLate,     (* exceptions also strike after the marker       *)
          MaxFaults       (* power failures, exceptions, damaged roots     *)

Roots == 1..NRoots
Contents == UNION {{p[r] : r \in Roots} : p \in Plans}

ASSUME EapxAssumption ==
    /\ NRoots \in Nat \ {0}
    /\ Plans \subseteq [Roots -> Contents]
    /\ Plans # {}
    /\ Absent \notin Contents
    /\ Damaged \notin Contents \cup {Absent}
    /\ Partial \notin Contents \cup {Absent, Damaged}
    /\ \A p \in Plans, mine \in BOOLEAN : [plan |-> p, mine |-> mine] # None
    /\ \A p \in Plans, o \in [Roots -> Contents \cup {Absent, Damaged, Partial}] :
          [old |-> o, new |-> p] # None
    /\ DamageSets \subseteq SUBSET Roots
    /\ RaisesLate \in BOOLEAN
    /\ MaxFaults \in Nat

VARIABLES live,     (* live[r]: root r in the game directory               *)
          staged,   (* staged[r]: root r under the workspace's stage       *)
          saved,    (* saved[r]: root r under the workspace's backup       *)
          stageOf,  (* stage-state: the plan the stage was made for        *)
          journal,  (* None, or the digests before and after               *)
          marker,   (* None, or the plan it certifies and whether it is    *)
                    (* the journal's transaction that wrote it             *)
          plan,     (* the payload of the recipe and the packages          *)
          foreign,  (* roots in which the game made files of its own       *)
          pc,       (* where the installer is, "off" when it does not run  *)
          at,       (* the root the commit or the rollback is at           *)
          after,    (* where the installer goes on after a rollback        *)
          result,   (* of the last launch: "none", "ready", "failed"       *)
          faults,   (* power failures, exceptions and damages so far       *)
          late      (* history: a step raised after its marker was written *)

disk == <<live, staged, saved, stageOf, journal, marker>>
run  == <<at, after, result>>
env  == <<plan, foreign, faults, late>>
vars == <<disk, run, env, pc>>

Nothing == [r \in Roots |-> Absent]

TypeOK ==
    /\ live \in [Roots -> Contents \cup {Absent, Damaged, Partial}]
    /\ staged \in [Roots -> Contents \cup {Absent, Partial}]
    /\ saved \in [Roots -> Contents \cup {Absent, Damaged}]
    /\ stageOf \in Plans \cup {None}
    /\ journal = None \/ journal.new \in Plans
    /\ marker = None \/ marker.plan \in Plans
    /\ plan \in Plans
    /\ foreign \subseteq Roots
    /\ at \in 0..NRoots + 1
    /\ after \in {"check", "off"}
    /\ result \in {"none", "ready", "failed"}
    /\ faults \in 0..MaxFaults
    /\ late \in BOOLEAN

\* A new port, or one whose data were copied in by hand.
Init ==
    /\ live \in Plans \cup {Nothing}
    /\ staged = Nothing
    /\ saved = Nothing
    /\ stageOf = None
    /\ journal = None
    /\ marker = None
    /\ plan \in Plans
    /\ foreign = {}
    /\ pc = "off"
    /\ at = 0
    /\ after = "check"
    /\ result = "none"
    /\ faults = 0
    /\ late = FALSE

Published == marker # None /\ marker.mine

\* The launcher runs the installer.
Launch ==
    /\ pc = "off"
    /\ pc' = "recover"
    /\ result' = "none"
    /\ after' = "check"
    /\ UNCHANGED <<disk, env, at>>

Ends(outcome) == pc' = "off" /\ result' = outcome
-----------------------------------------------------------------------------
(* recover and rollback.                                                   *)

\* No journal; or one whose transaction was published and only the cleanup
\* is missing; or one to undo, from the last root to the first.
Recover ==
    /\ pc = "recover"
    /\ \/ journal = None /\ pc' = "check" /\ at' = at
       \/ journal # None /\ Published /\ pc' = "tidy" /\ at' = at
       \/ journal # None /\ ~Published /\ pc' = "undo" /\ at' = NRoots
    /\ UNCHANGED <<disk, env, after, result>>

\* Backup and stage of a published transaction are deleted root by root,
\* then the journal.
Tidied ==
    /\ pc = "tidy"
    /\ saved = Nothing
    /\ staged = Nothing
    /\ journal' = None
    /\ pc' = "check"
    /\ UNCHANGED <<live, staged, saved, stageOf, marker, run, env>>

Undoing(r) == pc = "undo" /\ at = r

\* The new payload is in place and goes back to the stage.
Unpublish(r) ==
    /\ Undoing(r)
    /\ live[r] = journal.new[r]
    /\ staged[r] # journal.new[r]
    /\ staged' = [staged EXCEPT ![r] = live[r]]
    /\ live' = [live EXCEPT ![r] = Absent]
    /\ pc' = "restore"
    /\ UNCHANGED <<saved, stageOf, journal, marker, run, env>>

\* The stage has the payload too: the one in place is deleted.
DeleteStep(r) ==
    /\ \/ Undoing(r) /\ live[r] = journal.new[r] /\ staged[r] = journal.new[r]
          /\ live' = [live EXCEPT ![r] = Partial]
          /\ pc' = "delete"
       \/ pc = "delete" /\ at = r
          /\ live' = [live EXCEPT ![r] = Absent]
          /\ pc' = "restore"
    /\ UNCHANGED <<staged, saved, stageOf, journal, marker, run, env>>

\* Mutant: the backup is taken as it is found, whatever the live root is.
RestoreBlindly(r) ==
    /\ \/ Undoing(r) /\ live[r] # journal.new[r]
       \/ pc = "restore" /\ at = r
    /\ live' = [live EXCEPT ![r] = saved[r]]
    /\ saved' = [saved EXCEPT ![r] = Absent]
    /\ at' = r - 1
    /\ pc' = "undo"
    /\ UNCHANGED <<staged, stageOf, journal, marker, after, result, env>>

\* With nothing in place the original comes back from the backup, if it is
\* there.  A root that still is the original is left.
Restore(r) ==
    /\ \/ Undoing(r) /\ live[r] \in {Absent, journal.old[r]} \ {journal.new[r]}
       \/ pc = "restore" /\ at = r
    /\ IF live[r] = Absent /\ saved[r] = journal.old[r]
       THEN /\ live' = [live EXCEPT ![r] = saved[r]]
            /\ saved' = [saved EXCEPT ![r] = Absent]
       ELSE UNCHANGED <<live, saved>>
    /\ at' = r - 1
    /\ pc' = "undo"
    /\ UNCHANGED <<staged, stageOf, journal, marker, after, result, env>>

\* A root with neither its old nor its new content ...
Strange(r) == live[r] \notin {Absent, journal.old[r], journal.new[r]}

\* ... stops the rollback: it and the roots before it stay as they are.
Refuse(r) ==
    /\ Undoing(r)
    /\ Strange(r)
    /\ Ends("failed")
    /\ UNCHANGED <<disk, env, at, after>>

\* The journal goes before the backup.
Undone ==
    /\ pc = "undo"
    /\ at = 0
    /\ journal' = None
    /\ pc' = "undone"
    /\ UNCHANGED <<live, staged, saved, stageOf, marker, run, env>>

\* A rollback of this run's commit ends in its exception.
RolledBack ==
    /\ pc = "undone"
    /\ saved = Nothing
    /\ IF after = "check" THEN pc' = "check" /\ UNCHANGED result ELSE Ends("failed")
    /\ UNCHANGED <<disk, env, at, after>>
-----------------------------------------------------------------------------
(* From the fast path to the stage.                                        *)

\* marker_fast_path: a marker of this recipe whose files are there with the
\* recorded sizes, which whole files of another plan may have as well.
MarkerAccepted ==
    marker # None /\ marker.plan = plan /\ \A r \in Roots : live[r] \in Contents

FastPath ==
    /\ pc = "check"
    /\ MarkerAccepted
    /\ Ends("ready")
    /\ UNCHANGED <<disk, env, at, after>>

\* Mutant: any tree is adopted that has all roots.
AdoptAnything ==
    /\ pc = "check"
    /\ ~MarkerAccepted
    /\ \A r \in Roots : live[r] # Absent
    /\ marker' = [plan |-> plan, mine |-> FALSE]
    /\ Ends("ready")
    /\ UNCHANGED <<live, staged, saved, stageOf, journal, env, at, after>>

\* adopt_existing: the data pass the recipe's checks, which name the digest
\* of every file, and get a marker.
Adopt ==
    /\ pc = "check"
    /\ ~MarkerAccepted
    /\ live = plan
    /\ marker' = [plan |-> plan, mine |-> FALSE]
    /\ Ends("ready")
    /\ UNCHANGED <<live, staged, saved, stageOf, journal, env, at, after>>

\* Mutant: files of the game's own are refused before the data are looked at.
RefuseForeignFirst ==
    /\ pc = "check"
    /\ foreign # {}
    /\ Ends("failed")
    /\ UNCHANGED <<disk, env, at, after>>

\* Files that the plan does not produce would be lost with their root.
RefuseForeign ==
    /\ pc = "check"
    /\ ~MarkerAccepted
    /\ live # plan
    /\ foreign # {}
    /\ Ends("failed")
    /\ UNCHANGED <<disk, env, at, after>>

\* prepare_stage: a stage of another plan is deleted.
PrepareStage ==
    /\ pc = "check"
    /\ ~MarkerAccepted
    /\ live # plan
    /\ foreign = {}
    /\ staged' = IF stageOf = plan THEN staged ELSE Nothing
    /\ stageOf' = plan
    /\ pc' = "extract"
    /\ UNCHANGED <<live, saved, journal, marker, run, env>>

\* A staged root whose content is right is kept, else it is written anew.
ExtractRoot(r) ==
    /\ pc = "extract"
    /\ staged[r] # plan[r]
    /\ staged' = [staged EXCEPT ![r] = IF @ = Partial THEN plan[r] ELSE Partial]
    /\ UNCHANGED <<live, saved, stageOf, journal, marker, pc, run, env>>

\* validate_tree(full): every staged file has its digest.
Validate ==
    /\ pc = "extract"
    /\ staged = plan
    /\ pc' = "clear"
    /\ UNCHANGED <<disk, run, env>>
-----------------------------------------------------------------------------
(* commit.                                                                 *)

\* remove_path of the backup, or of backup and stage, one root at a time.
DropSaved(r) ==
    /\ pc \in {"tidy", "undone", "clear", "finish"}
    /\ saved[r] # Absent
    /\ saved' = [saved EXCEPT ![r] = Absent]
    /\ UNCHANGED <<live, staged, stageOf, journal, marker, pc, run, env>>

DropStaged(r) ==
    /\ pc \in {"tidy", "finish"}
    /\ saved = Nothing
    /\ staged[r] # Absent
    /\ staged' = [staged EXCEPT ![r] = Absent]
    /\ UNCHANGED <<live, saved, stageOf, journal, marker, pc, run, env>>

\* Mutant: the journal is written without the old digests.
BeginForgetting ==
    /\ pc = "clear"
    /\ saved = Nothing
    /\ journal' = [old |-> Nothing, new |-> staged]
    /\ marker' = IF marker = None THEN None ELSE [marker EXCEPT !.mine = FALSE]
    /\ at' = 1
    /\ pc' = "backup"
    /\ UNCHANGED <<live, staged, saved, stageOf, after, result, env>>

\* Transaction.begin: a new transaction id, the digests of both sides.
Begin ==
    /\ pc = "clear"
    /\ saved = Nothing
    /\ journal' = [old |-> live, new |-> staged]
    /\ marker' = IF marker = None THEN None ELSE [marker EXCEPT !.mine = FALSE]
    /\ at' = 1
    /\ pc' = "backup"
    /\ UNCHANGED <<live, staged, saved, stageOf, after, result, env>>

\* The original root, if there is one, moves to the backup.
BackUp(r) ==
    /\ pc = "backup"
    /\ at = r
    /\ saved' = [saved EXCEPT ![r] = live[r]]
    /\ live' = [live EXCEPT ![r] = Absent]
    /\ pc' = "install"
    /\ UNCHANGED <<staged, stageOf, journal, marker, run, env>>

InstallRoot(r) ==
    /\ pc = "install"
    /\ at = r
    /\ live' = [live EXCEPT ![r] = staged[r]]
    /\ staged' = [staged EXCEPT ![r] = Absent]
    /\ at' = r + 1
    /\ pc' = IF r = NRoots THEN "publish" ELSE "backup"
    /\ UNCHANGED <<saved, stageOf, journal, marker, after, result, env>>

\* The marker is written once everything it certifies is in place.
WriteMarker ==
    /\ pc = "publish"
    /\ marker' = [plan |-> plan, mine |-> TRUE]
    /\ pc' = "discard"
    /\ UNCHANGED <<live, staged, saved, stageOf, journal, run, env>>

Discard ==
    /\ pc = "discard"
    /\ journal' = None
    /\ pc' = "finish"
    /\ UNCHANGED <<live, staged, saved, stageOf, marker, run, env>>

Finish ==
    /\ pc = "finish"
    /\ saved = Nothing
    /\ staged = Nothing
    /\ Ends("ready")
    /\ UNCHANGED <<disk, env, at, after>>
-----------------------------------------------------------------------------
(* The environment.                                                        *)

Fault == faults < MaxFaults /\ faults' = faults + 1

PowerOff ==
    /\ pc # "off"
    /\ Fault
    /\ Ends("failed")
    /\ UNCHANGED <<disk, plan, foreign, late, at, after>>

\* Inside the transaction an exception is followed by the rollback, and is
\* raised again after it; elsewhere it ends the run.
Raise ==
    /\ \/ /\ pc \in {"backup", "install", "publish"} \cup
                   (IF RaisesLate THEN {"discard"} ELSE {})
          /\ pc' = "undo"
          /\ at' = NRoots
          /\ after' = "off"
          /\ UNCHANGED result
       \/ /\ pc \in {"extract", "clear", "undo", "restore"}
          /\ Ends("failed")
          /\ UNCHANGED <<at, after>>
    /\ Fault
    /\ late' = (late \/ pc = "discard")
    /\ UNCHANGED <<disk, plan, foreign>>

ChangePlan(p) ==
    /\ pc = "off"
    /\ p # plan
    /\ plan' = p
    /\ result' = "none"
    /\ UNCHANGED <<disk, foreign, faults, late, pc, at, after>>

\* Files of installed roots are deleted or cut short.
Damage(broken) ==
    /\ pc = "off"
    /\ journal = None
    /\ \A r \in broken : live[r] \in Contents
    /\ Fault
    /\ live' = [r \in Roots |-> IF r \in broken THEN Damaged ELSE live[r]]
    /\ result' = "none"
    /\ UNCHANGED <<staged, saved, stageOf, journal, marker, plan, foreign, late, pc, at, after>>

\* The game, or prepare_audio.py, makes files of its own beside the payload.
GameWrites(r) ==
    /\ pc = "off"
    /\ result = "ready"
    /\ r \notin foreign
    /\ foreign' = foreign \cup {r}
    /\ UNCHANGED <<disk, run, plan, faults, late, pc>>

Installer ==
    \/ Recover \/ Tidied \/ Undone \/ RolledBack
    \/ FastPath \/ Adopt \/ RefuseForeign \/ PrepareStage \/ Validate
    \/ Begin \/ WriteMarker \/ Discard \/ Finish
    \/ \E r \in Roots :
          \/ Unpublish(r) \/ DeleteStep(r) \/ Restore(r) \/ Refuse(r)
          \/ ExtractRoot(r) \/ DropSaved(r) \/ DropStaged(r)
          \/ BackUp(r) \/ InstallRoot(r)

Next ==
    \/ Launch
    \/ Installer
    \/ PowerOff
    \/ Raise
    \/ \E p \in Plans : ChangePlan(p)
    \/ \E broken \in DamageSets : Damage(broken)
    \/ \E r \in Roots : GameWrites(r)

Spec == Init /\ [][Next]_vars

\* The installer runs while the device is on, and the user keeps launching.
FairSpec == Spec /\ WF_vars(Installer) /\ WF_vars(Launch)
-----------------------------------------------------------------------------
\* The game starts only over the whole payload of its recipe: no mixture of
\* an old and a new install is ever taken for ready, although the fast path
\* looks at sizes only (eapx.py:2704-2731, 2655-2667).  An exception after
\* the marker is rolled back under the marker, which then certifies the old
\* content as long as the sizes agree.
ReadyIsInstalled == result = "ready" /\ ~late => live = plan

\* While a transaction is open nothing the user had is lost: the payload is
\* in place whole, or the original of each root is in place or in the backup
\* (eapx.py:2461-2469, 2533-2571).
Kept(r) == journal.old[r] \in {live[r], saved[r]}

OriginalKept ==
    journal # None => \/ live = journal.new
                      \/ \A r \in Roots : journal.old[r] # Absent => Kept(r)

\* The data as the rollback or the cleanup of the next run leaves them, should
\* the device be switched off now.
data ==
    IF journal = None \/ Published THEN live
    ELSE [r \in Roots |->
             IF live[r] \notin {Absent, journal.new[r]} \/ \E s \in r..NRoots : Strange(s)
             THEN live[r]
             ELSE IF saved[r] = journal.old[r] THEN saved[r] ELSE Absent]

GivenBack(r) ==
    \/ live'[r] = journal.old[r]
    \/ live'[r] = Absent /\ journal.old[r] = journal.new[r]

\* A rollback that comes to its end has given every root back, through any
\* number of crashes and of exceptions inside it, but for a root that had
\* the same content before and after: that one may be gone from the game
\* directory (eapx.py:2554-2571).
RollbackGivesBack ==
    [][journal # None /\ journal' = None /\ ~Published /\ ~late'
          => \A r \in Roots : GivenBack(r)]_vars

InStage(r) == journal.old[r] = journal.new[r] /\ staged[r] = journal.old[r]

\* No content is gone while a transaction is open: the payload is in place
\* whole, or what each root was is in place, in the backup, or, for a root
\* that both sides share, in the stage; and a root the rollback stops at is
\* one of these, cut short by its own deletion (eapx.py:2554-2573).
NothingGone ==
    journal # None /\ ~late =>
        \/ live = journal.new
        \/ /\ ~Published
           /\ \A r \in Roots :
                 /\ journal.old[r] # Absent => Kept(r) \/ InStage(r)
                 /\ Strange(r) => live[r] = Partial /\ InStage(r)

\* Publication is atomic across crashes and exceptions.
Atomic == INSTANCE AtomicInstall
ImplementsAtomicInstall == Atomic!Spec

\* The deletion of a root that both sides share was cut short: the rollback of
\* every later launch stops at it, although nothing else modified it
\* (eapx.py:2562, 2569-2573).
Stuck ==
    /\ pc = "off" /\ journal # None /\ ~Published
    /\ \E r \in Roots : live[r] = Partial /\ InStage(r)

\* Once the faults stop, launching makes the game ready again and again,
\* with two exceptions: files of the game's own stand in the way of a repair
\* or an update, or the card is stuck (eapx.py:2437, 2569).
ReadyAgain == []<>(\/ result = "ready"
                   \/ foreign # {} /\ live # plan
                   \/ Stuck)
=============================================================================
