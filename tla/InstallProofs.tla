----------------------------- MODULE InstallProofs -----------------------------
(***************************************************************************)
(* Proofs about what is installed before the game starts: EapxInstall for  *)
(* any number of roots, any plans and any number of power failures,        *)
(* exceptions and damages, and AudioImport for every set of files, of      *)
(* required files and of OBBs and any number of faults.                    *)
(***************************************************************************)
EXTENDS EapxInstall, AudioImport, FiniteSetTheorems, TLAPS

-----------------------------------------------------------------------------
(* EapxInstall.                                                            *)

Trees == [Roots -> Contents \cup {Absent, Damaged, Partial}]

\* Places of the installer at which there is no journal, one to be undone
\* and one whose transaction was published.
Closed == {"check", "extract", "clear", "finish", "undone"}
Commit == {"backup", "install", "publish"}
Undo == {"undo", "delete", "restore"}
Places == {"off", "recover", "tidy", "discard"} \cup Closed \cup Commit \cup Undo

\* Types, and that the journal is begun over a valid stage.
Types ==
    /\ live \in Trees /\ staged \in Trees /\ saved \in Trees
    /\ journal = None \/ journal \in [old : Trees, new : Plans]
    /\ marker = None \/ marker \in [plan : Plans, mine : BOOLEAN]
    /\ plan \in Plans
    /\ pc \in Places /\ at \in 0..NRoots + 1
    /\ late \in BOOLEAN
    /\ pc = "clear" => staged = plan

\* The journal and the marker tell what the installer is doing.
PlaceInv ==
    /\ pc \in Closed => journal = None
    /\ pc \in {"tidy", "discard"} => journal # None /\ Published
    /\ pc \in Commit \cup Undo => journal # None /\ ~Published
    /\ result = "ready" => pc = "off"

\* What has been published is in place.
PublishedInv == journal # None /\ Published => live = journal.new

\* A tree deleted in part is no original: its transaction stays open.
WholeInv ==
    \A r \in Roots : IF journal = None THEN live[r] # Partial ELSE journal.old[r] # Partial

\* Each root of an open transaction: as it was, on its way, or in place; the
\* original of a root that changes is in place or in the backup.
RootsInv ==
    journal # None /\ ~Published =>
        \A r \in Roots :
            LET old == journal.old[r] new == journal.new[r] IN
            /\ old \notin {Absent, new} =>
                  \/ live[r] = old
                  \/ live[r] \in {Absent, new, Partial} /\ saved[r] = old
            /\ old = Absent => live[r] \in {Absent, new, Partial}
            /\ old = new => live[r] \in {Absent, new, Partial}

\* How far the commit is.
CommitInv ==
    /\ pc \in Commit \cup {"discard"} => journal.new = plan
    /\ pc = "backup" =>
          /\ at \in Roots
          /\ \A r \in Roots : IF r < at THEN live[r] = plan[r]
                              ELSE live[r] = journal.old[r] /\ staged[r] = plan[r]
    /\ pc = "install" =>
          /\ at \in Roots
          /\ \A r \in Roots :
                /\ r < at => live[r] = plan[r]
                /\ r = at => live[r] = Absent /\ staged[r] = plan[r]
                /\ r > at => live[r] = journal.old[r] /\ staged[r] = plan[r]
    /\ pc \in {"publish", "finish"} => live = plan

\* How far the rollback is: a root behind it is as it was, or was lost with
\* its backup because the installer took it for the new one.
UndoInv ==
    /\ pc \in Undo => \A r \in Roots : r > at =>
          \/ live[r] = journal.old[r]
          \/ live[r] = Absent /\ journal.old[r] = journal.new[r]
    /\ pc \in {"delete", "restore"} => at \in Roots
    /\ pc = "delete" => live[at] = Partial
    /\ pc = "restore" => live[at] = Absent

\* The data as an undisturbed run means to leave them.
Meant == IF journal = None THEN live
         ELSE IF Published THEN journal.new ELSE journal.old

\* Whole roots are the ones of the plan that the marker certifies.
MarkerInv ==
    marker # None =>
        \A r \in Roots : Meant[r] \in Contents => Meant[r] = marker.plan[r]

ReadyInv == result = "ready" => live = plan

SoundInv ==
    /\ PlaceInv /\ PublishedInv /\ WholeInv /\ RootsInv /\ CommitInv /\ UndoInv
    /\ MarkerInv /\ ReadyInv

\* Where the content of a shared root is; and a root that changes is never in
\* place and in the stage, so that the rollback moves it and deletes nothing.
StageInv ==
    journal # None /\ ~Published =>
        \A r \in Roots :
            LET old == journal.old[r] new == journal.new[r] IN
            /\ old = new => /\ old \in {live[r], saved[r], staged[r]}
                            /\ live[r] = Partial => staged[r] = old
            /\ old # new => /\ live[r] # Partial
                            /\ live[r] = new => staged[r] # new

IInv == Types /\ (~late => SoundInv /\ StageInv)
-----------------------------------------------------------------------------
LEMMA Kinds ==
    /\ \A p \in Plans, r \in Roots : p[r] \in Contents
    /\ Absent \notin Contents /\ Damaged \notin Contents /\ Partial \notin Contents
    /\ Absent # Damaged /\ Absent # Partial /\ Damaged # Partial
    /\ \A p \in Plans, mine \in BOOLEAN : [plan |-> p, mine |-> mine] # None
    /\ \A p \in Plans, o \in Trees : [old |-> o, new |-> p] # None
    /\ Plans \subseteq Trees /\ Nothing \in Trees
    /\ NRoots \in Nat \ {0} /\ Roots = 1..NRoots
  BY EapxAssumption DEF Trees, Nothing, Roots

LEMMA TypeSteps ==
    ASSUME Types, Next
    PROVE  Types'
<1> USE Kinds DEF Types, Places, Closed, Commit, Undo, disk, run, env, Ends, Fault
<1>1. CASE Launch
  BY <1>1 DEF Launch
<1>2. CASE Recover
  BY <1>2 DEF Recover
<1>3. CASE Tidied
  BY <1>3 DEF Tidied
<1>4. CASE Undone
  BY <1>4 DEF Undone
<1>5. CASE RolledBack
  BY <1>5 DEF RolledBack
<1>6. CASE FastPath
  BY <1>6 DEF FastPath
<1>7. CASE Adopt
  BY <1>7 DEF Adopt
<1>8. CASE RefuseForeign
  BY <1>8 DEF RefuseForeign
<1>9. CASE PrepareStage
  BY <1>9 DEF PrepareStage
<1>10. CASE Validate
  BY <1>10 DEF Validate
<1>11. CASE Begin
  <2>1. journal' \in [old : Trees, new : Plans]
    BY <1>11 DEF Begin
  <2>2. marker' = None \/ marker' \in [plan : Plans, mine : BOOLEAN]
    BY <1>11 DEF Begin
  <2> QED BY <1>11, <2>1, <2>2 DEF Begin
<1>12. CASE WriteMarker
  BY <1>12 DEF WriteMarker
<1>13. CASE Discard
  BY <1>13 DEF Discard
<1>14. CASE Finish
  BY <1>14 DEF Finish
<1>15. CASE PowerOff
  BY <1>15 DEF PowerOff
<1>16. CASE Raise
  BY <1>16 DEF Raise
<1>17. ASSUME NEW r \in Roots, Unpublish(r) PROVE Types'
  BY <1>17 DEF Unpublish, Undoing, Trees
<1>18. ASSUME NEW r \in Roots, DeleteStep(r) PROVE Types'
  BY <1>18 DEF DeleteStep, Undoing, Trees
<1>19. ASSUME NEW r \in Roots, Restore(r) PROVE Types'
  <2>1. live' \in Trees /\ saved' \in Trees
    <3>1. live' = live \/ live' = [live EXCEPT ![r] = saved[r]]
      BY <1>19 DEF Restore
    <3>2. saved' = saved \/ saved' = [saved EXCEPT ![r] = Absent]
      BY <1>19 DEF Restore
    <3> QED BY <3>1, <3>2 DEF Trees
  <2>2. at' \in 0..NRoots + 1
    BY <1>19 DEF Restore
  <2> QED BY <1>19, <2>1, <2>2 DEF Restore
<1>20. ASSUME NEW r \in Roots, Refuse(r) PROVE Types'
  BY <1>20 DEF Refuse, Undoing, Trees
<1>21. ASSUME NEW r \in Roots, ExtractRoot(r) PROVE Types'
  BY <1>21 DEF ExtractRoot, Trees
<1>22. ASSUME NEW r \in Roots, DropSaved(r) PROVE Types'
  BY <1>22 DEF DropSaved, Trees
<1>23. ASSUME NEW r \in Roots, DropStaged(r) PROVE Types'
  BY <1>23 DEF DropStaged, Trees
<1>24. ASSUME NEW r \in Roots, BackUp(r) PROVE Types'
  BY <1>24 DEF BackUp, Trees
<1>25. ASSUME NEW r \in Roots, InstallRoot(r) PROVE Types'
  BY <1>25 DEF InstallRoot, Trees
<1>26. ASSUME NEW r \in Roots, GameWrites(r) PROVE Types'
  BY <1>26 DEF GameWrites, Trees
<1>27. ASSUME NEW p \in Plans, ChangePlan(p) PROVE Types'
  BY <1>27 DEF ChangePlan
<1>28. ASSUME NEW broken \in DamageSets, Damage(broken) PROVE Types'
  BY <1>28 DEF Damage, Trees
<1> QED BY <1>1, <1>2, <1>3, <1>4, <1>5, <1>6, <1>7, <1>8, <1>9, <1>10, <1>11, <1>12, <1>13, <1>14, <1>15, <1>16, <1>17, <1>18, <1>19, <1>20, <1>21, <1>22, <1>23, <1>24, <1>25, <1>26, <1>27, <1>28 DEF Next, Installer

LEMMA SoundSteps ==
    ASSUME Types, SoundInv, Next, ~late, ~late'
    PROVE  SoundInv'
<1> USE Kinds DEF Types, Places, Closed, Commit, Undo, disk, run, env, Ends, Fault, Published, Meant
<1> USE DEF SoundInv, PlaceInv, PublishedInv, WholeInv, RootsInv, CommitInv, UndoInv, MarkerInv, ReadyInv
<1>1. CASE Launch
  BY <1>1 DEF Launch
<1>2. CASE Recover
  BY <1>2 DEF Recover
<1>3. CASE Tidied
  BY <1>3 DEF Tidied
<1>4. CASE Undone
  BY <1>4 DEF Undone
<1>5. CASE RolledBack
  BY <1>5 DEF RolledBack
<1>6. CASE FastPath
  <2>1. \A r \in Roots : live[r] = plan[r]
    BY <1>6 DEF FastPath, MarkerAccepted
  <2>2. live = plan
    BY <2>1 DEF Trees
  <2> QED BY <1>6, <2>2 DEF FastPath
<1>7. CASE Adopt
  BY <1>7 DEF Adopt
<1>8. CASE RefuseForeign
  BY <1>8 DEF RefuseForeign
<1>9. CASE PrepareStage
  BY <1>9 DEF PrepareStage
<1>10. CASE Validate
  BY <1>10 DEF Validate
<1>11. CASE Begin
  BY <1>11 DEF Begin
<1>12. CASE WriteMarker
  BY <1>12 DEF WriteMarker
<1>13. CASE Discard
  BY <1>13 DEF Discard
<1>14. CASE Finish
  BY <1>14 DEF Finish
<1>15. CASE PowerOff
  BY <1>15 DEF PowerOff
<1>16. CASE Raise
  BY <1>16 DEF Raise
<1>17. ASSUME NEW r \in Roots, Unpublish(r) PROVE SoundInv'
  BY <1>17 DEF Unpublish, Undoing, Trees
<1>18. ASSUME NEW r \in Roots, DeleteStep(r) PROVE SoundInv'
  BY <1>18 DEF DeleteStep, Undoing, Trees
<1>19. ASSUME NEW r \in Roots, Restore(r) PROVE SoundInv'
  <2>1. /\ pc' = "undo" /\ at' = r - 1 /\ UNCHANGED <<journal, marker, plan, result, late>>
        /\ journal # None /\ ~Published /\ pc \in {"undo", "restore"} /\ at = r
        /\ live[r] \in {Absent, journal.old[r]} \ {journal.new[r]} \/ live[r] = Absent
    BY <1>19 DEF Restore, Undoing
  <2>2. /\ live' = IF live[r] = Absent /\ saved[r] = journal.old[r]
                   THEN [live EXCEPT ![r] = saved[r]] ELSE live
        /\ \A s \in Roots \ {r} : live'[s] = live[s] /\ saved'[s] = saved[s]
        /\ IF live[r] = Absent /\ saved[r] = journal.old[r]
           THEN live'[r] = journal.old[r] ELSE live'[r] = live[r] /\ saved'[r] = saved[r]
    BY <1>19 DEF Restore, Undoing, Trees
  <2>3. PlaceInv' /\ PublishedInv' /\ CommitInv' /\ MarkerInv' /\ ReadyInv'
    BY <2>1
  <2>4. WholeInv' /\ RootsInv'
    BY <2>1, <2>2
  <2>5. UndoInv'
    BY <2>1, <2>2
  <2> QED BY <2>3, <2>4, <2>5
<1>20. ASSUME NEW r \in Roots, Refuse(r) PROVE SoundInv'
  BY <1>20 DEF Refuse, Undoing, Trees
<1>21. ASSUME NEW r \in Roots, ExtractRoot(r) PROVE SoundInv'
  BY <1>21 DEF ExtractRoot, Trees
<1>22. ASSUME NEW r \in Roots, DropSaved(r) PROVE SoundInv'
  BY <1>22 DEF DropSaved, Trees
<1>23. ASSUME NEW r \in Roots, DropStaged(r) PROVE SoundInv'
  BY <1>23 DEF DropStaged, Trees
<1>24. ASSUME NEW r \in Roots, BackUp(r) PROVE SoundInv'
  BY <1>24 DEF BackUp, Trees
<1>25. ASSUME NEW r \in Roots, InstallRoot(r) PROVE SoundInv'
  BY <1>25 DEF InstallRoot, Trees
<1>26. ASSUME NEW r \in Roots, GameWrites(r) PROVE SoundInv'
  BY <1>26 DEF GameWrites, Trees
<1>27. ASSUME NEW p \in Plans, ChangePlan(p) PROVE SoundInv'
  BY <1>27 DEF ChangePlan
<1>28. ASSUME NEW broken \in DamageSets, Damage(broken) PROVE SoundInv'
  BY <1>28 DEF Damage, Trees
<1> QED BY <1>1, <1>2, <1>3, <1>4, <1>5, <1>6, <1>7, <1>8, <1>9, <1>10, <1>11, <1>12, <1>13, <1>14, <1>15, <1>16, <1>17, <1>18, <1>19, <1>20, <1>21, <1>22, <1>23, <1>24, <1>25, <1>26, <1>27, <1>28 DEF Next, Installer

\* Only the commit and the rollback touch the roots of an open transaction.
LEMMA StageSteps ==
    ASSUME Types, SoundInv, StageInv, Next, ~late, ~late'
    PROVE  StageInv'
<1> USE Kinds DEF Types, Places, Closed, Commit, Undo, disk, run, env, Ends, Fault, Published
<1> USE DEF SoundInv, PlaceInv, WholeInv, RootsInv, CommitInv, UndoInv, StageInv
<1>1. CASE Launch \/ Recover \/ Tidied \/ Undone \/ RolledBack \/ FastPath \/ RefuseForeign
           \/ Validate \/ Discard \/ Finish \/ PowerOff \/ Raise
  BY <1>1 DEF Launch, Recover, Tidied, Undone, RolledBack, FastPath, RefuseForeign, Validate,
     Discard, Finish, PowerOff, Raise
<1>2. CASE Adopt \/ PrepareStage \/ WriteMarker
  BY <1>2 DEF Adopt, PrepareStage, WriteMarker
<1>3. CASE Begin
  BY <1>3 DEF Begin
<1>4. ASSUME NEW r \in Roots, Unpublish(r) PROVE StageInv'
  BY <1>4 DEF Unpublish, Undoing, Trees
<1>5. ASSUME NEW r \in Roots, DeleteStep(r) PROVE StageInv'
  BY <1>5 DEF DeleteStep, Undoing, Trees
<1>6. ASSUME NEW r \in Roots, Restore(r) PROVE StageInv'
  <2>1. /\ UNCHANGED <<journal, marker, staged>> /\ journal # None /\ ~Published
        /\ live[r] \in {Absent, journal.old[r]} \ {journal.new[r]} \/ live[r] = Absent
    BY <1>6 DEF Restore, Undoing
  <2>2. /\ \A s \in Roots \ {r} : live'[s] = live[s] /\ saved'[s] = saved[s]
        /\ IF live[r] = Absent /\ saved[r] = journal.old[r]
           THEN live'[r] = journal.old[r] ELSE live'[r] = live[r] /\ saved'[r] = saved[r]
    BY <1>6 DEF Restore, Trees
  <2> QED BY <2>1, <2>2
<1>7. ASSUME NEW r \in Roots, Refuse(r) \/ ExtractRoot(r) \/ DropSaved(r) \/ DropStaged(r)
                              \/ GameWrites(r)
      PROVE  StageInv'
  BY <1>7 DEF Refuse, ExtractRoot, DropSaved, DropStaged, GameWrites
<1>8. ASSUME NEW r \in Roots, BackUp(r) PROVE StageInv'
  BY <1>8 DEF BackUp, Trees
<1>9. ASSUME NEW r \in Roots, InstallRoot(r) PROVE StageInv'
  BY <1>9 DEF InstallRoot, Trees
<1>10. ASSUME NEW p \in Plans, ChangePlan(p) PROVE StageInv'
  BY <1>10 DEF ChangePlan
<1>11. ASSUME NEW broken \in DamageSets, Damage(broken) PROVE StageInv'
  BY <1>11 DEF Damage
<1> QED BY <1>1, <1>2, <1>3, <1>4, <1>5, <1>6, <1>7, <1>8, <1>9, <1>10, <1>11 DEF Next, Installer

\* Once a step has raised after its marker, that is never forgotten.
LEMMA LateStays ==
    ASSUME Next, late
    PROVE  late'
  BY DEF Next, Installer, Launch, Recover, Tidied, Undone, RolledBack, FastPath, Adopt,
     RefuseForeign, PrepareStage, Validate, Begin, WriteMarker, Discard, Finish, PowerOff,
     Raise, Unpublish, DeleteStep, Restore, Refuse, ExtractRoot, DropSaved, DropStaged,
     BackUp, InstallRoot, GameWrites, ChangePlan, Damage, env

LEMMA IInvSteps == IInv /\ [Next]_vars => IInv'
<1> SUFFICES ASSUME IInv, [Next]_vars PROVE IInv'
  OBVIOUS
<1>1. CASE UNCHANGED vars
  BY <1>1 DEF IInv, SoundInv, Types, PlaceInv, PublishedInv, WholeInv, RootsInv, CommitInv,
     UndoInv, MarkerInv, ReadyInv, StageInv, Meant, Published, vars, disk, run, env
<1>2. CASE Next
  BY <1>2, LateStays, TypeSteps, SoundSteps, StageSteps DEF IInv
<1> QED BY <1>1, <1>2

THEOREM Invariance == Spec => []IInv
<1>1. Init => IInv
  <2> SUFFICES ASSUME Init PROVE IInv
    OBVIOUS
  <2>1. Types
    <3>1. live \in Trees /\ staged \in Trees /\ saved \in Trees
      BY Kinds DEF Init
    <3>2. pc \in Places /\ pc # "clear" /\ late \in BOOLEAN
      BY DEF Init, Places
    <3>3. at \in 0..NRoots + 1
      BY EapxAssumption DEF Init
    <3> QED BY <3>1, <3>2, <3>3 DEF Init, Types
  <2>2. WholeInv
    <3>1. \A r \in Roots : Nothing[r] # Partial
      BY Kinds DEF Nothing
    <3> QED BY <3>1, Kinds DEF Init, WholeInv
  <2>3. PlaceInv /\ PublishedInv /\ RootsInv /\ CommitInv /\ UndoInv /\ MarkerInv /\ ReadyInv
        /\ StageInv
    BY DEF Init, PlaceInv, PublishedInv, RootsInv, CommitInv, UndoInv, MarkerInv, ReadyInv,
       StageInv, Closed, Commit, Undo
  <2> QED BY <2>1, <2>2, <2>3 DEF IInv, SoundInv
<1>2. IInv /\ [Next]_vars => IInv'
  BY IInvSteps
<1> QED BY <1>1, <1>2, PTL DEF Spec

\* The game is started over the whole payload only, whatever is switched
\* off, raised or damaged before, unless something raised after the marker.
THEOREM Ready == Spec => []ReadyIsInstalled
<1>1. IInv => ReadyIsInstalled
  BY DEF IInv, SoundInv, ReadyInv, ReadyIsInstalled
<1> QED BY <1>1, Invariance, PTL

\* Nothing is gone while a transaction is open, shared roots included: what a
\* root was is in place, in the backup or in the stage, and a root the
\* rollback stops at is a copy whose content is in the stage.
THEOREM Saved == Spec => []NothingGone
<1>1. IInv => NothingGone
  BY Kinds DEF IInv, SoundInv, PublishedInv, WholeInv, RootsInv, StageInv, NothingGone, Kept,
     InStage, Strange
<1> QED BY <1>1, Invariance, PTL

\* A rollback that comes to its end has given every root back but those that
\* the transaction left the same, for any number of crashes on the way.
THEOREM GivesBack == Spec => RollbackGivesBack
<1> DEFINE Step == journal # None /\ journal' = None /\ ~Published /\ ~late'
                      => \A r \in Roots : GivenBack(r)
<1>1. IInv /\ [Next]_vars => [Step]_vars
  <2> SUFFICES ASSUME IInv, Next, journal # None, journal' = None, ~Published, ~late'
               PROVE  \A r \in Roots : GivenBack(r)
    OBVIOUS
  <2>1. ~late /\ SoundInv
    BY LateStays DEF IInv
  <2>2. Undone
    BY <2>1, Kinds DEF SoundInv, PlaceInv, IInv, Types, Next, Installer, Launch, Recover,
       Tidied, RolledBack, FastPath, Adopt, RefuseForeign, PrepareStage, Validate, Begin,
       WriteMarker, Discard, Finish, PowerOff, Raise, Unpublish, DeleteStep, Restore, Refuse,
       ExtractRoot, DropSaved, DropStaged, BackUp, InstallRoot, GameWrites, ChangePlan,
       Damage, disk, run, env
  <2>3. pc = "undo" /\ at = 0 /\ live' = live
    BY <2>2 DEF Undone
  <2> QED BY <2>1, <2>3, Kinds DEF SoundInv, UndoInv, Undo, GivenBack
<1> QED BY <1>1, Invariance, PTL DEF Spec, RollbackGivesBack

-----------------------------------------------------------------------------
(* A run of the installer ends.                                            *)

Left(tree) == Cardinality({r \in Roots : tree[r] # Absent})

\* Roots that are not staged yet, and those of them not even begun.
Unstaged == {r \in Roots : staged[r] # plan[r]}
Unbegun == {r \in Unstaged : staged[r] # Partial}

\* The most steps that are left before the run ends.
Remaining ==
    CASE pc = "off"     -> 0
      [] pc = "finish"  -> 1 + Left(saved) + Left(staged)
      [] pc = "discard" -> 2 * NRoots + 2
      [] pc = "publish" -> 2 * NRoots + 3
      [] pc = "install" -> 4 * NRoots + 4 - 2 * at
      [] pc = "backup"  -> 4 * NRoots + 5 - 2 * at
      [] pc = "clear"   -> 4 * NRoots + 4 + Left(saved)
      [] pc = "extract" -> 5 * NRoots + 5 + Cardinality(Unstaged) + Cardinality(Unbegun)
      [] pc = "check"   -> 7 * NRoots + 6
      [] pc = "undone"  -> 7 * NRoots + 7 + Left(saved)
      [] pc = "tidy"    -> 7 * NRoots + 7 + Left(saved) + Left(staged)
      [] pc = "restore" -> 8 * NRoots + 9 + 3 * at
      [] pc = "delete"  -> 8 * NRoots + 10 + 3 * at
      [] pc = "undo"    -> 8 * NRoots + 11 + 3 * at
      [] pc = "recover" -> 11 * NRoots + 12

LEMMA RootsCounted ==
    ASSUME NEW S \in SUBSET Roots
    PROVE  IsFiniteSet(S) /\ Cardinality(S) \in Nat /\ Cardinality(S) <= NRoots
<1>1. IsFiniteSet(Roots) /\ Cardinality(Roots) = NRoots
  BY Kinds, FS_Interval DEF Roots
<1> QED BY <1>1, FS_Subset, FS_CardinalityType

LEMMA LeftCounted ==
    ASSUME NEW tree
    PROVE  Left(tree) \in Nat /\ Left(tree) <= NRoots
  BY RootsCounted DEF Left

LEMMA OneDropped ==
    ASSUME NEW tree \in Trees, NEW r \in Roots, tree[r] # Absent
    PROVE  Left([tree EXCEPT ![r] = Absent]) = Left(tree) - 1
<1> DEFINE S == {q \in Roots : tree[q] # Absent}
<1>1. {q \in Roots : [tree EXCEPT ![r] = Absent][q] # Absent} = S \ {r}
  BY DEF Trees
<1>2. IsFiniteSet(S) /\ r \in S
  BY RootsCounted
<1> QED BY <1>1, <1>2, FS_RemoveElement DEF Left

\* Extraction writes each root in at most two steps.
LEMMA OneWritten ==
    ASSUME Types, NEW r \in Roots, ExtractRoot(r)
    PROVE  Cardinality(Unstaged') + Cardinality(Unbegun')
             < Cardinality(Unstaged) + Cardinality(Unbegun)
<1>1. /\ r \in Unstaged /\ plan' = plan
      /\ \A q \in Roots \ {r} : staged'[q] = staged[q]
      /\ staged'[r] = IF staged[r] = Partial THEN plan[r] ELSE Partial
      /\ plan[r] # Partial
  BY Kinds DEF ExtractRoot, Types, Trees, Unstaged, env
<1>2. /\ Unstaged \in SUBSET Roots /\ Unbegun \in SUBSET Roots
      /\ Unstaged' \in SUBSET Roots /\ Unbegun' \in SUBSET Roots
  BY DEF Unstaged, Unbegun
<1>3. /\ Cardinality(Unstaged) \in Nat /\ Cardinality(Unbegun) \in Nat
      /\ Cardinality(Unstaged') \in Nat /\ Cardinality(Unbegun') \in Nat
      /\ IsFiniteSet(Unstaged) /\ IsFiniteSet(Unbegun)
  BY <1>2, RootsCounted
<1>4. CASE staged[r] = Partial
  <2>1. Unstaged' = Unstaged \ {r} /\ Unbegun' = Unbegun
    BY <1>1, <1>4 DEF Unstaged, Unbegun
  <2>2. Cardinality(Unstaged \ {r}) = Cardinality(Unstaged) - 1
    BY <1>1, <1>3, FS_RemoveElement
  <2> QED BY <1>3, <2>1, <2>2
<1>5. CASE staged[r] # Partial
  <2>1. Unstaged' = Unstaged /\ Unbegun' = Unbegun \ {r} /\ r \in Unbegun
    BY <1>1, <1>5 DEF Unstaged, Unbegun
  <2>2. Cardinality(Unbegun \ {r}) = Cardinality(Unbegun) - 1
    BY <1>3, <2>1, FS_RemoveElement
  <2> QED BY <1>3, <2>1, <2>2
<1> QED BY <1>4, <1>5

LEMMA RemainingSteps ==
    ASSUME Types, Installer
    PROVE  Remaining' \in Nat /\ Remaining' < Remaining
<1>1. /\ Left(saved) \in Nat /\ Left(saved) <= NRoots
      /\ Left(staged) \in Nat /\ Left(staged) <= NRoots
      /\ Left(saved') \in Nat /\ Left(saved') <= NRoots
      /\ Left(staged') \in Nat /\ Left(staged') <= NRoots
  BY LeftCounted
<1>2. /\ Cardinality(Unstaged) \in Nat /\ Cardinality(Unbegun) \in Nat
      /\ Cardinality(Unstaged') \in Nat /\ Cardinality(Unstaged') <= NRoots
      /\ Cardinality(Unbegun') \in Nat /\ Cardinality(Unbegun') <= NRoots
  <2>1. /\ Unstaged \in SUBSET Roots /\ Unbegun \in SUBSET Roots
        /\ Unstaged' \in SUBSET Roots /\ Unbegun' \in SUBSET Roots
    BY DEF Unstaged, Unbegun
  <2> QED BY <2>1, RootsCounted
<1>3. /\ NRoots \in Nat /\ NRoots >= 1 /\ Roots = 1..NRoots
      /\ at \in Nat /\ at <= NRoots + 1
  BY Kinds DEF Types
<1>4. CASE Recover
  <2>1. Remaining = 11 * NRoots + 12
    BY <1>4 DEF Recover, Remaining
  <2>2. CASE pc' = "check"
    <3>1. Remaining' = 7 * NRoots + 6
      BY <2>2 DEF Remaining
    <3> QED BY <1>1, <1>3, <2>1, <2>2, <3>1
  <2>3. CASE pc' = "tidy"
    <3>1. Remaining' = 7 * NRoots + 7 + Left(saved') + Left(staged')
      BY <2>3 DEF Remaining
    <3> QED BY <1>1, <1>3, <2>1, <2>3, <3>1
  <2>4. CASE pc' = "undo" /\ at' = NRoots
    <3>1. Remaining' = 8 * NRoots + 11 + 3 * at'
      BY <2>4 DEF Remaining
    <3> QED BY <1>1, <1>3, <2>1, <2>4, <3>1
  <2> QED BY <1>4, <2>2, <2>3, <2>4 DEF Recover
<1>5. CASE Tidied
  <2>1. Remaining = 7 * NRoots + 7 + Left(saved) + Left(staged)
    BY <1>5 DEF Tidied, Remaining
  <2>2. Remaining' = 7 * NRoots + 6
    BY <1>5 DEF Tidied, Remaining
  <2> QED BY <1>1, <1>3, <2>1, <2>2
<1>6. CASE Undone
  <2>1. Remaining = 8 * NRoots + 11 + 3 * at
    BY <1>6 DEF Undone, Remaining
  <2>2. Remaining' = 7 * NRoots + 7 + Left(saved')
    BY <1>6 DEF Undone, Remaining
  <2> QED BY <1>1, <1>3, <2>1, <2>2
<1>7. CASE RolledBack
  <2>1. Remaining = 7 * NRoots + 7 + Left(saved)
    BY <1>7 DEF RolledBack, Ends, Remaining
  <2>2. CASE pc' = "check"
    <3>1. Remaining' = 7 * NRoots + 6
      BY <2>2 DEF Remaining
    <3> QED BY <1>1, <1>3, <2>1, <2>2, <3>1
  <2>3. CASE pc' = "off"
    <3>1. Remaining' = 0
      BY <2>3 DEF Remaining
    <3> QED BY <1>1, <1>3, <2>1, <2>3, <3>1
  <2> QED BY <1>7, <2>2, <2>3 DEF RolledBack, Ends
<1>8. CASE FastPath \/ Adopt \/ RefuseForeign
  <2>1. Remaining = 7 * NRoots + 6
    BY <1>8 DEF FastPath, Adopt, RefuseForeign, Ends, Remaining
  <2>2. Remaining' = 0
    BY <1>8 DEF FastPath, Adopt, RefuseForeign, Ends, Remaining
  <2> QED BY <1>3, <2>1, <2>2
<1>9. CASE PrepareStage
  <2>1. Remaining = 7 * NRoots + 6
    BY <1>9 DEF PrepareStage, Remaining
  <2>2. Remaining' = 5 * NRoots + 5 + Cardinality(Unstaged') + Cardinality(Unbegun')
    BY <1>9 DEF PrepareStage, Remaining
  <2> QED BY <1>2, <1>3, <2>1, <2>2
<1>10. CASE Validate
  <2>1. Remaining = 5 * NRoots + 5 + Cardinality(Unstaged) + Cardinality(Unbegun)
    BY <1>10 DEF Validate, Remaining
  <2>2. Remaining' = 4 * NRoots + 4 + Left(saved')
    BY <1>10 DEF Validate, Remaining
  <2> QED BY <1>1, <1>2, <1>3, <2>1, <2>2
<1>11. CASE Begin
  <2>1. Remaining = 4 * NRoots + 4 + Left(saved)
    BY <1>11 DEF Begin, Remaining
  <2>2. Remaining' = 4 * NRoots + 5 - 2 * at'
    BY <1>11 DEF Begin, Remaining
  <2>3. at' = 1
    BY <1>11 DEF Begin
  <2> QED BY <1>1, <1>3, <2>1, <2>2, <2>3
<1>12. CASE WriteMarker
  <2>1. Remaining = 2 * NRoots + 3
    BY <1>12 DEF WriteMarker, Remaining
  <2>2. Remaining' = 2 * NRoots + 2
    BY <1>12 DEF WriteMarker, Remaining
  <2> QED BY <1>3, <2>1, <2>2
<1>13. CASE Discard
  <2>1. Remaining = 2 * NRoots + 2
    BY <1>13 DEF Discard, Remaining
  <2>2. Remaining' = 1 + Left(saved') + Left(staged')
    BY <1>13 DEF Discard, Remaining
  <2> QED BY <1>1, <1>3, <2>1, <2>2
<1>14. CASE Finish
  <2>1. Remaining = 1 + Left(saved) + Left(staged)
    BY <1>14 DEF Finish, Ends, Remaining
  <2>2. Remaining' = 0
    BY <1>14 DEF Finish, Ends, Remaining
  <2> QED BY <1>1, <1>3, <2>1, <2>2
<1>15. ASSUME NEW r \in Roots, Unpublish(r) \/ DeleteStep(r) \/ Restore(r) \/ Refuse(r)
       PROVE  Remaining' \in Nat /\ Remaining' < Remaining
  <2>1. /\ at = r
        /\ \/ pc = "undo" /\ pc' \in {"delete", "restore"} /\ at' = at
           \/ pc = "delete" /\ pc' = "restore" /\ at' = at
           \/ pc \in {"undo", "restore"} /\ pc' = "undo" /\ at' = at - 1
           \/ pc = "undo" /\ pc' = "off"
    BY <1>15 DEF Unpublish, DeleteStep, Restore, Refuse, Undoing, Ends, run
  <2>2. /\ pc = "undo" => Remaining = 8 * NRoots + 11 + 3 * at
        /\ pc = "delete" => Remaining = 8 * NRoots + 10 + 3 * at
        /\ pc = "restore" => Remaining = 8 * NRoots + 9 + 3 * at
    BY DEF Remaining
  <2>3. /\ pc' = "undo" => Remaining' = 8 * NRoots + 11 + 3 * at'
        /\ pc' = "delete" => Remaining' = 8 * NRoots + 10 + 3 * at'
        /\ pc' = "restore" => Remaining' = 8 * NRoots + 9 + 3 * at'
        /\ pc' = "off" => Remaining' = 0
    BY DEF Remaining
  <2> QED BY <1>3, <2>1, <2>2, <2>3
<1>16. ASSUME NEW r \in Roots, ExtractRoot(r)
       PROVE  Remaining' \in Nat /\ Remaining' < Remaining
  <2>1. Remaining = 5 * NRoots + 5 + Cardinality(Unstaged) + Cardinality(Unbegun)
    BY <1>16 DEF ExtractRoot, Remaining
  <2>2. Remaining' = 5 * NRoots + 5 + Cardinality(Unstaged') + Cardinality(Unbegun')
    BY <1>16 DEF ExtractRoot, Remaining
  <2> QED BY <1>2, <1>3, <1>16, <2>1, <2>2, OneWritten
<1>17. ASSUME NEW r \in Roots, DropSaved(r)
       PROVE  Remaining' \in Nat /\ Remaining' < Remaining
  <2>1. /\ saved \in Trees /\ saved[r] # Absent /\ staged' = staged
        /\ saved' = [saved EXCEPT ![r] = Absent]
        /\ pc' = pc /\ pc \in {"tidy", "undone", "clear", "finish"}
    BY <1>17 DEF DropSaved, Types
  <2>2. Left(saved') = Left(saved) - 1 /\ Left(staged') = Left(staged)
    BY <2>1, OneDropped
  <2>3. CASE pc = "tidy"
    <3>1. Remaining = 7 * NRoots + 7 + Left(saved) + Left(staged)
      BY <2>3 DEF Remaining
    <3>2. Remaining' = 7 * NRoots + 7 + Left(saved') + Left(staged')
      BY <2>1, <2>3 DEF Remaining
    <3> QED BY <1>1, <1>3, <2>2, <3>1, <3>2
  <2>4. CASE pc = "undone"
    <3>1. Remaining = 7 * NRoots + 7 + Left(saved)
      BY <2>4 DEF Remaining
    <3>2. Remaining' = 7 * NRoots + 7 + Left(saved')
      BY <2>1, <2>4 DEF Remaining
    <3> QED BY <1>1, <1>3, <2>2, <3>1, <3>2
  <2>5. CASE pc = "clear"
    <3>1. Remaining = 4 * NRoots + 4 + Left(saved)
      BY <2>5 DEF Remaining
    <3>2. Remaining' = 4 * NRoots + 4 + Left(saved')
      BY <2>1, <2>5 DEF Remaining
    <3> QED BY <1>1, <1>3, <2>2, <3>1, <3>2
  <2>6. CASE pc = "finish"
    <3>1. Remaining = 1 + Left(saved) + Left(staged)
      BY <2>6 DEF Remaining
    <3>2. Remaining' = 1 + Left(saved') + Left(staged')
      BY <2>1, <2>6 DEF Remaining
    <3> QED BY <1>1, <1>3, <2>2, <3>1, <3>2
  <2> QED BY <2>1, <2>3, <2>4, <2>5, <2>6
<1>18. ASSUME NEW r \in Roots, DropStaged(r)
       PROVE  Remaining' \in Nat /\ Remaining' < Remaining
  <2>1. /\ staged \in Trees /\ staged[r] # Absent /\ saved' = saved
        /\ staged' = [staged EXCEPT ![r] = Absent]
        /\ pc' = pc /\ pc \in {"tidy", "finish"}
    BY <1>18 DEF DropStaged, Types
  <2>2. Left(staged') = Left(staged) - 1 /\ Left(saved') = Left(saved)
    BY <2>1, OneDropped
  <2>3. CASE pc = "tidy"
    <3>1. Remaining = 7 * NRoots + 7 + Left(saved) + Left(staged)
      BY <2>3 DEF Remaining
    <3>2. Remaining' = 7 * NRoots + 7 + Left(saved') + Left(staged')
      BY <2>1, <2>3 DEF Remaining
    <3> QED BY <1>1, <1>3, <2>2, <3>1, <3>2
  <2>4. CASE pc = "finish"
    <3>1. Remaining = 1 + Left(saved) + Left(staged)
      BY <2>4 DEF Remaining
    <3>2. Remaining' = 1 + Left(saved') + Left(staged')
      BY <2>1, <2>4 DEF Remaining
    <3> QED BY <1>1, <1>3, <2>2, <3>1, <3>2
  <2> QED BY <2>1, <2>3, <2>4
<1>19. ASSUME NEW r \in Roots, BackUp(r) \/ InstallRoot(r)
       PROVE  Remaining' \in Nat /\ Remaining' < Remaining
  <2>1. /\ at = r
        /\ \/ pc = "backup" /\ pc' = "install" /\ at' = at
           \/ pc = "install" /\ pc' = "backup" /\ at' = at + 1 /\ at < NRoots
           \/ pc = "install" /\ pc' = "publish"
    BY <1>3, <1>19 DEF BackUp, InstallRoot, run
  <2>2. /\ pc = "backup" => Remaining = 4 * NRoots + 5 - 2 * at
        /\ pc = "install" => Remaining = 4 * NRoots + 4 - 2 * at
    BY DEF Remaining
  <2>3. /\ pc' = "backup" => Remaining' = 4 * NRoots + 5 - 2 * at'
        /\ pc' = "install" => Remaining' = 4 * NRoots + 4 - 2 * at'
        /\ pc' = "publish" => Remaining' = 2 * NRoots + 3
    BY DEF Remaining
  <2> QED BY <1>3, <2>1, <2>2, <2>3
<1> QED BY <1>4, <1>5, <1>6, <1>7, <1>8, <1>9, <1>10, <1>11, <1>12, <1>13, <1>14, <1>15,
        <1>16, <1>17, <1>18, <1>19 DEF Installer

\* Every run of the installer ends: whatever it finds on the card, also after
\* exceptions under the marker, each of its steps leaves fewer to do, from
\* 11 NRoots + 12 at the launch to none when it is off.
THEOREM RunsEnd == Spec => [][/\ Installer => Remaining' \in Nat /\ Remaining' < Remaining
                              /\ Launch => Remaining' = 11 * NRoots + 12]_vars
<1> DEFINE Step == /\ Installer => Remaining' \in Nat /\ Remaining' < Remaining
                   /\ Launch => Remaining' = 11 * NRoots + 12
<1>1. IInv /\ [Next]_vars => [Step]_vars
  <2>1. Launch => Remaining' = 11 * NRoots + 12
    BY DEF Launch, Remaining
  <2> QED BY <2>1, RemainingSteps DEF IInv
<1> QED BY <1>1, Invariance, PTL DEF Spec

-----------------------------------------------------------------------------
(* The refinement of AtomicInstall.  It needs plans that differ in every   *)
(* root, damages that strike all roots, and exceptions that come before    *)
(* the marker: without the first two a rollback may lose a root that the   *)
(* old and the new payload share, or stop at it for ever (OriginalKept,    *)
(* Stuck), without the third one it goes on under the marker.              *)

Wrecked == [r \in Roots |-> Damaged]

Separate ==
    /\ ~RaisesLate
    /\ DamageSets \subseteq {Roots}
    /\ \A p, q \in Plans : p # q => \A r \in Roots : p[r] # q[r]

\* The transaction changes every root, and the rollback gives all back.
ApartInv ==
    /\ ~late
    /\ Meant \in Plans \cup {Nothing, Wrecked}
    /\ pc \in {"extract", "clear"} => live # plan
    /\ journal # None /\ ~Published => \A r \in Roots : journal.old[r] # journal.new[r]
    /\ pc \in Undo => \A r \in Roots : r > at => live[r] = journal.old[r]

\* One step of the installer, as the data and the plan see it.
MeantAtomic == INSTANCE AtomicInstall WITH data <- Meant
AbstractStep == MeantAtomic!Next \/ (Meant' = Meant /\ plan' = plan)

LEMMA ApartSteps ==
    ASSUME Separate, Types, SoundInv, ApartInv, Next
    PROVE  ApartInv' /\ AbstractStep
<1> USE Kinds DEF Types, Places, Closed, Commit, Undo, disk, run, env, Ends, Fault, Published, Meant
<1> USE DEF SoundInv, PlaceInv, PublishedInv, RootsInv, CommitInv, UndoInv, ApartInv, AbstractStep
<1>1. CASE Launch
  BY <1>1 DEF Launch
<1>2. CASE Recover
  BY <1>2 DEF Recover
<1>3. CASE Tidied
  BY <1>3 DEF Tidied
<1>4. CASE Undone
  <2>1. journal \in [old : Trees, new : Plans] /\ \A r \in Roots : live[r] = journal.old[r]
    BY <1>4 DEF Undone
  <2>2. live = journal.old
    BY <2>1 DEF Trees
  <2> QED BY <1>4, <2>2 DEF Undone
<1>5. CASE RolledBack
  BY <1>5 DEF RolledBack
<1>6. CASE FastPath
  BY <1>6 DEF FastPath
<1>7. CASE Adopt
  BY <1>7 DEF Adopt
<1>8. CASE RefuseForeign
  BY <1>8 DEF RefuseForeign
<1>9. CASE PrepareStage
  BY <1>9 DEF PrepareStage
<1>10. CASE Validate
  BY <1>10 DEF Validate
<1>11. CASE Begin
  <2>1. /\ journal = None /\ journal' = [old |-> live, new |-> plan] /\ journal' # None
        /\ live # plan /\ UNCHANGED <<live, plan, late>> /\ pc' = "backup"
    BY <1>11 DEF Begin
  <2>2. marker' # None => ~marker'.mine
    BY <1>11 DEF Begin
  <2>3. Meant' = Meant /\ Meant = live
    BY <2>1, <2>2
  <2>4. ASSUME NEW r \in Roots PROVE live[r] # plan[r]
    <3>1. CASE live \in Plans
      BY <2>1, <3>1 DEF Separate
    <3>2. CASE live \in {Nothing, Wrecked}
      BY <3>2 DEF Nothing, Wrecked
    <3> QED BY <2>3, <3>1, <3>2
  <2> QED BY <2>1, <2>2, <2>3, <2>4
<1>12. CASE WriteMarker
  BY <1>12 DEF WriteMarker, MeantAtomic!Next, MeantAtomic!Install
<1>13. CASE Discard
  BY <1>13 DEF Discard
<1>14. CASE Finish
  BY <1>14 DEF Finish
<1>15. CASE PowerOff
  BY <1>15 DEF PowerOff
<1>16. CASE Raise
  BY <1>16 DEF Raise, Separate
<1>17. ASSUME NEW r \in Roots, Unpublish(r) PROVE ApartInv' /\ AbstractStep
  BY <1>17 DEF Unpublish, Undoing, Trees
<1>18. ASSUME NEW r \in Roots, DeleteStep(r) PROVE ApartInv' /\ AbstractStep
  BY <1>18 DEF DeleteStep, Undoing, Trees
<1>19. ASSUME NEW r \in Roots, Restore(r) PROVE ApartInv' /\ AbstractStep
  <2>1. /\ journal # None /\ ~Published /\ journal \in [old : Trees, new : Plans]
        /\ UNCHANGED <<journal, marker, plan, late>> /\ at' = r - 1 /\ pc' = "undo"
        /\ at = r
    BY <1>19 DEF Restore, Undoing
  <2>2. \A q \in Roots \ {r} : live'[q] = live[q]
    BY <1>19 DEF Restore, Trees
  <2>3. live'[r] = journal.old[r]
    BY <1>19, <2>1 DEF Restore, Undoing, Trees
  <2>4. pc \in Undo
    BY <1>19 DEF Restore, Undoing
  <2>5. ASSUME NEW q \in Roots, q > r - 1
        PROVE  live'[q] = journal.old[q]
    <3>1. CASE q = r
      BY <2>3, <3>1
    <3>2. CASE q # r
      <4>1. q > at /\ live'[q] = live[q]
        BY <2>1, <2>2, <2>5, <3>2
      <4> QED BY <2>4, <4>1
    <3> QED BY <3>1, <3>2
  <2> QED BY <2>1, <2>5
<1>20. ASSUME NEW r \in Roots, Refuse(r) PROVE ApartInv' /\ AbstractStep
  BY <1>20 DEF Refuse, Undoing, Trees
<1>21. ASSUME NEW r \in Roots, ExtractRoot(r) PROVE ApartInv' /\ AbstractStep
  BY <1>21 DEF ExtractRoot, Trees
<1>22. ASSUME NEW r \in Roots, DropSaved(r) PROVE ApartInv' /\ AbstractStep
  BY <1>22 DEF DropSaved, Trees
<1>23. ASSUME NEW r \in Roots, DropStaged(r) PROVE ApartInv' /\ AbstractStep
  BY <1>23 DEF DropStaged, Trees
<1>24. ASSUME NEW r \in Roots, BackUp(r) PROVE ApartInv' /\ AbstractStep
  BY <1>24 DEF BackUp, Trees
<1>25. ASSUME NEW r \in Roots, InstallRoot(r) PROVE ApartInv' /\ AbstractStep
  BY <1>25 DEF InstallRoot, Trees
<1>26. ASSUME NEW r \in Roots, GameWrites(r) PROVE ApartInv' /\ AbstractStep
  BY <1>26 DEF GameWrites, Trees
<1>27. ASSUME NEW p \in Plans, ChangePlan(p) PROVE ApartInv' /\ AbstractStep
  BY <1>27 DEF ChangePlan, MeantAtomic!Next, MeantAtomic!ChangePlan
<1>28. ASSUME NEW broken \in DamageSets, Damage(broken) PROVE ApartInv' /\ AbstractStep
  <2>1. broken = Roots /\ journal = None
    BY <1>28 DEF Damage, Separate
  <2>2. live' = [r \in Roots |-> IF r \in broken THEN Damaged ELSE live[r]]
    BY <1>28 DEF Damage
  <2>3. live' = Wrecked
    BY <2>1, <2>2 DEF Wrecked
  <2>4. UNCHANGED <<journal, marker, plan, late, pc>> /\ pc = "off"
    BY <1>28 DEF Damage
  <2>5. MeantAtomic!Damage
    BY <2>1, <2>2, <2>4 DEF MeantAtomic!Damage
  <2>6. ApartInv'
    BY <2>1, <2>3, <2>4
  <2> QED BY <2>5, <2>6 DEF MeantAtomic!Next
<1> QED BY <1>1, <1>2, <1>3, <1>4, <1>5, <1>6, <1>7, <1>8, <1>9, <1>10, <1>11, <1>12, <1>13, <1>14, <1>15, <1>16, <1>17, <1>18, <1>19, <1>20, <1>21, <1>22, <1>23, <1>24, <1>25, <1>26, <1>27, <1>28 DEF Next, Installer

\* Then the next run leaves what an undisturbed one means to leave: no root is
\* strange, and what is not in place is in the backup.
LEMMA DataMeant == IInv /\ ApartInv => data = Meant
<1> SUFFICES ASSUME IInv, ApartInv, journal # None PROVE data = Meant
  BY DEF data, Meant
<1> USE Kinds DEF IInv, ApartInv, SoundInv, PublishedInv
<1>1. CASE Published
  BY <1>1 DEF data, Meant
<1>2. CASE ~Published
  <2>1. ASSUME NEW r \in Roots
        PROVE  /\ ~Strange(r)
               /\ live[r] \in {Absent, journal.new[r]} =>
                     IF saved[r] = journal.old[r] THEN TRUE ELSE journal.old[r] = Absent
               /\ live[r] \notin {Absent, journal.new[r]} => live[r] = journal.old[r]
    BY <1>2 DEF RootsInv, StageInv, WholeInv, Strange
  <2>2. \A r \in Roots : \A s \in r..NRoots : ~Strange(s)
    BY <2>1
  <2>3. journal.old \in Trees
    BY DEF Types
  <2> QED BY <1>2, <2>1, <2>2, <2>3 DEF data, Meant, Trees
<1> QED BY <1>1, <1>2

\* With separate plans and damages, and exceptions before the marker only,
\* whatever happens on the way the data are either as they were or all of
\* the payload: the installer implements AtomicInstall.
THEOREM Refinement ==
    ASSUME Separate
    PROVE  Spec => ImplementsAtomicInstall
<1>1. Init => ApartInv /\ Atomic!Init
  <2> SUFFICES ASSUME Init PROVE ApartInv /\ Atomic!Init
    OBVIOUS
  <2>1. data = live /\ Meant = live /\ live \in Plans \cup {Nothing} /\ plan \in Plans
    BY DEF Init, data, Meant
  <2>2. ApartInv
    BY <2>1 DEF Init, ApartInv, Undo
  <2>3. Atomic!Init
    BY <2>1 DEF Atomic!Init, Nothing
  <2> QED BY <2>2, <2>3
<1>2. IInv /\ [Next]_vars => IInv'
  BY IInvSteps
<1>3. (IInv /\ ApartInv => data = Meant)'
  BY DataMeant, PTL
<1>4. IInv /\ ApartInv /\ [Next]_vars => ApartInv' /\ [Atomic!Next]_<<data, plan>>
  <2> SUFFICES ASSUME IInv, ApartInv, [Next]_vars
               PROVE  ApartInv' /\ [Atomic!Next]_<<data, plan>>
    OBVIOUS
  <2>1. CASE UNCHANGED vars
    BY <2>1 DEF ApartInv, data, Meant, Strange, Published, vars, disk, run, env
  <2>2. CASE Next
    <3>1. ApartInv' /\ AbstractStep
      BY <2>2, ApartSteps DEF IInv, ApartInv
    <3>2. IInv'
      BY <1>2, <2>2
    <3>3. data = Meant /\ data' = Meant'
      BY <1>3, <3>1, <3>2, DataMeant
    <3> QED BY <3>1, <3>3 DEF AbstractStep, Atomic!Next, Atomic!Install, Atomic!ChangePlan,
            Atomic!Damage, MeantAtomic!Next, MeantAtomic!Install, MeantAtomic!ChangePlan,
            MeantAtomic!Damage
  <2> QED BY <2>1, <2>2
<1>5. Spec => []IInv
  BY Invariance
<1> QED BY <1>1, <1>4, <1>5, PTL DEF Spec, ImplementsAtomicInstall, Atomic!Spec

-----------------------------------------------------------------------------
(* AudioImport.                                                            *)

\* What the marker says is true but for what the user took, or it is not
\* believed.
Believable(m) == (\A f \in Files : target[f] = m \/ f \in lost) \/ ~HasRequired

\* What the user took is not there.
LostHolds == \A f \in lost : target[f] = NoFile

\* After an undisturbed import the marker tells the truth whatever OBB it
\* names; after a cut one it does if it names the installed OBB.
MarkerHolds ==
    /\ import = "whole" => Believable(source)
    /\ import = "cut" /\ source = obb => Believable(source)

\* What the script relies on at each of its steps.
ScriptHolds ==
    /\ step \in {"clean", "extract", "remove", "rename"} /\ import # "trusted"
           => source # obb \/ ~HasRequired
    /\ step \in {"remove", "rename"} => Complete(stage)
    /\ step \in {"truncate", "write", "finally"} => Complete(target)
    /\ step = "truncate" => import # "whole"
    /\ music = "on" => step = "idle"

ImportInv == ImportTypeOK /\ MarkerHolds /\ LostHolds /\ ScriptHolds /\ MusicIsComplete
-----------------------------------------------------------------------------
LEMMA ImportBegins == ImportInit => ImportInv
  BY AudioAssumption
  DEF ImportInit, ImportInv, ImportTypeOK, MarkerHolds, Believable, LostHolds,
      ScriptHolds, MusicIsComplete, HasRequired, Empty

\* The steps that leave the target and the marker alone keep what the marker
\* says true: the launch, the check and the work in the stage.
LEMMA StageStepsKeep ==
  ASSUME ImportInv,
         \/ StartImport \/ Check \/ Clean \/ CleanFails
         \/ (\E f \in Files : Open(f) \/ Copy(f)) \/ Extracted
  PROVE  ImportInv'
<1> USE AudioAssumption
    DEF ImportInv, ImportTypeOK, MarkerHolds, Believable, LostHolds, ScriptHolds,
        MusicIsComplete, Complete, HasRequired, sounds
<1>1. CASE StartImport
  BY <1>1 DEF StartImport
<1>2. CASE Check
  BY <1>2 DEF Check
<1>3. CASE Clean
  BY <1>3 DEF Clean, Empty
<1>4. CASE CleanFails
  BY <1>4 DEF CleanFails
<1>5. ASSUME NEW f \in Files, Open(f) \/ Copy(f)
      PROVE  ImportInv'
  BY <1>5 DEF Open, Copy
<1>6. CASE Extracted
  BY <1>6 DEF Extracted
<1> QED
  BY <1>1, <1>2, <1>3, <1>4, <1>5, <1>6

\* Deleting the old sounds can only make a required file missing.
LEMMA RemovalKeeps ==
  ASSUME ImportInv,
         (\E f \in Files : Remove(f)) \/ Removed \/ RemoveFails
  PROVE  ImportInv'
<1> USE AudioAssumption
    DEF ImportInv, ImportTypeOK, MarkerHolds, Believable, LostHolds, ScriptHolds,
        MusicIsComplete, Complete, HasRequired, sounds
<1>1. ASSUME NEW f \in Files, Remove(f)
      PROVE  ImportInv'
  <2>1. ~HasRequired => ~HasRequired'
    BY <1>1 DEF Remove
  <2> QED
    BY <1>1, <2>1 DEF Remove, CutsImport
<1>2. CASE Removed
  BY <1>2 DEF Removed
<1>3. CASE RemoveFails
  BY <1>3 DEF RemoveFails
<1> QED
  BY <1>1, <1>2, <1>3

\* From the rename to the new marker the target is complete and the import
\* counts as cut; the marker ends that.
LEMMA ReplacementKeeps ==
  ASSUME ImportInv, Rename \/ Truncate \/ Write \/ Finally
  PROVE  ImportInv'
<1> USE AudioAssumption
    DEF ImportInv, ImportTypeOK, MarkerHolds, Believable, LostHolds, ScriptHolds,
        MusicIsComplete, Complete, HasRequired, Empty
<1>1. CASE Rename
  BY <1>1 DEF Rename, CutsImport
<1>2. CASE Truncate
  BY <1>2 DEF Truncate
<1>3. CASE Write
  BY <1>3 DEF Write
<1>4. CASE Finally
  BY <1>4 DEF Finally
<1> QED
  BY <1>1, <1>2, <1>3, <1>4

\* Faults, power failures and the user.
LEMMA EnvironmentKeeps ==
  ASSUME ImportInv,
         \/ StepRaises \/ PowerLost \/ (\E o \in Obbs : ChangeObb(o))
         \/ (\E gone \in SUBSET Files : DeleteSounds(gone))
  PROVE  ImportInv'
<1> USE AudioAssumption
    DEF ImportInv, ImportTypeOK, MarkerHolds, Believable, LostHolds, ScriptHolds,
        MusicIsComplete, Complete, HasRequired, Empty, sounds
<1>1. CASE StepRaises
  BY <1>1 DEF StepRaises
<1>2. CASE PowerLost
  BY <1>2 DEF PowerLost
<1>3. ASSUME NEW o \in Obbs, ChangeObb(o)
      PROVE  ImportInv'
  BY <1>3 DEF ChangeObb
<1>4. ASSUME NEW gone \in SUBSET Files, DeleteSounds(gone)
      PROVE  ImportInv'
  <2>1. /\ gone \subseteq Files /\ lost' = lost \cup gone
        /\ \A f \in Files : target'[f] = IF f \in gone THEN NoFile ELSE target[f]
        /\ UNCHANGED <<obb, stage, source, step, import>>
        /\ step = "idle" /\ music' = "none"
    BY <1>4 DEF DeleteSounds
  <2>2. ImportTypeOK'
    BY <1>4, <2>1 DEF DeleteSounds
  <2>3. LostHolds'
    BY <2>1
  <2>4. \A m : Believable(m) => Believable(m)'
    BY <2>1
  <2>5. MarkerHolds'
    BY <2>1, <2>4
  <2>6. ScriptHolds' /\ MusicIsComplete'
    BY <2>1
  <2> QED BY <2>2, <2>3, <2>5, <2>6
<1> QED
  BY <1>1, <1>2, <1>3, <1>4

LEMMA ImportStepKeeps == ImportInv /\ [ImportNext]_importVars => ImportInv'
<1> SUFFICES ASSUME ImportInv, [ImportNext]_importVars
             PROVE  ImportInv'
  OBVIOUS
<1>1. CASE ImportNext
  BY <1>1, StageStepsKeep, RemovalKeeps, ReplacementKeeps, EnvironmentKeeps
  DEF ImportNext, Script
<1>2. CASE UNCHANGED importVars
  BY <1>2 DEF importVars, ImportInv, ImportTypeOK, MarkerHolds, Believable, LostHolds,
              ScriptHolds, MusicIsComplete, Complete, HasRequired
<1> QED
  BY <1>1, <1>2

\* The marker, the stage and the target agree at every step of the script
\* and across every fault.
THEOREM ImportInvariance == ImportSpec => []ImportInv
  BY ImportBegins, ImportStepKeeps, PTL DEF ImportSpec

\* A half-written file is never in the target, and the counters and modes
\* stay in range.
THEOREM SoundsAreWhole == ImportSpec => []ImportTypeOK
<1>1. ImportInv => ImportTypeOK
  BY DEF ImportInv
<1> QED
  BY <1>1, ImportInvariance, PTL

\* A launch with music has every sound of the installed OBB but for those that
\* were taken away and are not required, unless the user put back the OBB
\* whose marker a cut import had left.
THEOREM CompleteMusic == ImportSpec => []MusicIsComplete
<1>1. ImportInv => MusicIsComplete
  BY DEF ImportInv
<1> QED
  BY <1>1, ImportInvariance, PTL
=============================================================================
