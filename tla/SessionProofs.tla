----------------------------- MODULE SessionProofs -----------------------------
(***************************************************************************)
(* Proofs about Session for any images, devices, guest threads, callbacks  *)
(* and GL states: main()'s own promises (Lifecycle) hold with the platform *)
(* and the sound running beside it, the platform is released on every way  *)
(* out, the sound threads call what they should, and what is queued on the *)
(* device stays bounded.                                                   *)
(***************************************************************************)
EXTENDS Session, FiniteSetTheorems, TLAPS

(* Lifecycle: any number of images, of their initializers and finalizers.  *)

LinkStages == {"map", "census", "preflight", "relocate", "retain", "patch", "choose"}
JniStages == {"jni-open", "jni-start", "jni-load", "game", "leave"}
DoneStages == {"shutdown", "destroy", "finalize"}
ReturnStages == {"unmap", "release"}

\* What is mapped is what the loop counted.
MemoryInv ==
    /\ \A i \in Images : image[i] = "none" <=> i > mapped
    /\ stage = "map" => mapped = at - 1
    /\ stage \in LinkStages \ {"map"} => mapped = Last
    /\ stage = "release" => mapped = 0
    /\ stage = "exit" /\ ~started => mapped = 0

\* How far linking is at each stage.
LinkInv ==
    /\ stage = "relocate" => \A i \in 1..at - 1 : image[i] = "linked"
    /\ stage \in {"retain", "patch", "choose"} => \A i \in Images : image[i] = "linked"
    /\ stage \in {"census", "preflight", "retain", "choose"} => at = 1
    /\ stage = "patch" => \A i \in Patched : i < at => i \in patched
    /\ stage = "choose" => patched = Patched
    /\ stage \in {"patch", "choose"} => hosts = "retained"
    /\ hosts = "open" => stage \in {"relocate", "retain"}
    /\ stage = "exit" /\ ~started => hosts = "closed"

\* Guest code has been started exactly from StartConstructors on, and only
\* in a linked process.
StartInv ==
    /\ stage \in LinkStages \cup ReturnStages => ~started
    /\ stage \in {"construct"} \cup JniStages \cup DoneStages => started
    /\ started =>
          /\ \A i \in Images : image[i] = "linked"
          /\ patched = Patched /\ ~unresolved /\ hosts = "retained"
    /\ obb \/ platform => stage \in JniStages \cup {"shutdown"}

\* How far the lifecycle functions are at each stage.
OrderInv ==
    /\ ~started => \A i \in Images : inits[i] = 0
    /\ stage = "construct" =>
          /\ ~completed
          /\ \A i \in 1..at - 1 : inits[i] = Inits[i]
          /\ \A i \in at + 1..Last : inits[i] = 0
    /\ completed => \A i \in Images : inits[i] = Inits[i]
    /\ stage \in LinkStages \cup ReturnStages \cup JniStages \cup {"construct", "shutdown", "destroy"} =>
          \A i \in Images : finis[i] = 0
    /\ stage = "finalize" =>
          /\ completed
          /\ \A i \in at + 1..Last : finis[i] = Finis[i]
          /\ \A i \in 1..at - 1 : finis[i] = 0
    /\ ~started => ~completed /\ \A i \in Images : finis[i] = 0

StatusInv ==
    IF stage \in DoneStages \cup ReturnStages \cup {"exit"}
    THEN result = 0 <=> ~failed
    ELSE result = 1 /\ ~failed

IInv ==
    /\ TypeOK
    /\ MemoryInv
    /\ LinkInv
    /\ StartInv
    /\ OrderInv
    /\ FinalizersMirror
    /\ StatusInv

\* The invariant holds initially.
LEMMA InitInvariant == Init => IInv
<1> SUFFICES ASSUME Init PROVE IInv
  OBVIOUS
<1> USE LifecycleAssumption DEF Init, LinkStages, JniStages, DoneStages, ReturnStages
<1>1. TypeOK
  <2>1. at \in Images /\ mapped \in 0..Last
    BY DEF Images
  <2> QED BY <2>1 DEF TypeOK
<1>2. MemoryInv /\ LinkInv /\ StartInv
  BY DEF MemoryInv, LinkInv, StartInv, Images
<1>3. OrderInv /\ FinalizersMirror /\ StatusInv
  BY DEF OrderInv, FinalizersMirror, StatusInv, Images
<1> QED BY <1>1, <1>2, <1>3 DEF IInv

\* The indices move within the table.
LEMMA IndexSteps ==
    ASSUME IInv, Next
    PROVE  at' \in Images /\ mapped' \in 0..Last
<1>1. at \in 1..Last /\ mapped \in 0..Last /\ Last \in Nat \ {0}
  BY LifecycleAssumption DEF IInv, TypeOK, Images
<1>2. CASE MapImage \/ DescribeFails
  <2>1. mapped < Last
    BY <1>1, <1>2 DEF IInv, MemoryInv, MapImage, DescribeFails
  <2> QED BY <1>1, <1>2, <2>1 DEF MapImage, DescribeFails, Advance, Fail, Images
<1>3. CASE RelocateImage
  BY <1>1, <1>3 DEF RelocateImage, Advance, Images
<1>8. CASE InitializersDone
  BY <1>1, <1>8 DEF InitializersDone, Advance, Finish, memoryVars, Images
<1>7. CASE Patch
  <2>1. mapped' = mapped /\ at' = (IF at < Last THEN at + 1 ELSE 1)
    BY <1>7 DEF Patch, Advance
  <2> QED BY <1>1, <2>1 DEF Images
<1>4. CASE Destroy \/ FinalizersDone \/ Unmap
  BY <1>1, <1>4 DEF Destroy, FinalizersDone, Unmap, Goto, memoryVars, Images
<1>5. CASE MapFails \/ Check \/ CheckFails \/ RelocateFails \/ Retain \/ PatchFails \/ Mapping
           \/ StartConstructors \/ RefuseConstructors
  BY <1>1, <1>5 DEF MapFails, Check, CheckFails, RelocateFails, Retain, PatchFails, Mapping,
     StartConstructors, RefuseConstructors, Fail, Goto, Finish, memoryVars, Images
<1>6. CASE RunInitializer \/ InitializerFails \/ OpenObb \/ StartPlatform \/ LoadJni \/ JniFails
           \/ PlayGame \/ LeaveGame \/ Shutdown \/ RunFinalizer \/ FinalizerFails \/ Release
  BY <1>1, <1>6 DEF RunInitializer, InitializerFails, OpenObb, StartPlatform, LoadJni, JniFails,
     PlayGame, LeaveGame, Shutdown, RunFinalizer, FinalizerFails, Release, Fail, Goto, Finish,
     memoryVars, Images
<1> QED BY <1>2, <1>3, <1>4, <1>5, <1>6, <1>7, <1>8 DEF Next

\* Every step keeps the types.
LEMMA TypeSteps ==
    ASSUME IInv, Next
    PROVE  TypeOK'
<1> USE LifecycleAssumption DEF IInv, Done, Fail, Goto, Finish, memoryVars, guestVars, hostVars
<1>1. CASE MapImage
  BY <1>1, IndexSteps DEF TypeOK, MapImage, Advance
<1>2. CASE RelocateImage
  BY <1>2, IndexSteps DEF TypeOK, RelocateImage, Advance
<1>3. CASE Patch
  BY <1>3, IndexSteps DEF TypeOK, Patch, Advance
<1>4. CASE InitializersDone
  BY <1>4, IndexSteps DEF TypeOK, InitializersDone, Advance
<1>5. CASE Unmap
  BY <1>5, IndexSteps DEF TypeOK, Unmap
<1>6. CASE MapFails
  BY <1>6, IndexSteps DEF TypeOK, MapFails
<1>7. CASE DescribeFails
  BY <1>7, IndexSteps DEF TypeOK, DescribeFails
<1>8. CASE Check
  BY <1>8, IndexSteps DEF TypeOK, Check
<1>9. CASE CheckFails
  BY <1>9, IndexSteps DEF TypeOK, CheckFails
<1>10. CASE RelocateFails
  BY <1>10, IndexSteps DEF TypeOK, RelocateFails
<1>11. CASE Retain
  BY <1>11, IndexSteps DEF TypeOK, Retain
<1>12. CASE PatchFails
  BY <1>12, IndexSteps DEF TypeOK, PatchFails
<1>13. CASE Mapping
  BY <1>13, IndexSteps DEF TypeOK, Mapping
<1>14. CASE StartConstructors
  BY <1>14, IndexSteps DEF TypeOK, StartConstructors
<1>15. CASE RefuseConstructors
  BY <1>15, IndexSteps DEF TypeOK, RefuseConstructors
<1>16. CASE RunInitializer
  BY <1>16, IndexSteps DEF TypeOK, RunInitializer
<1>17. CASE InitializerFails
  BY <1>17, IndexSteps DEF TypeOK, InitializerFails
<1>18. CASE OpenObb
  BY <1>18, IndexSteps DEF TypeOK, OpenObb
<1>19. CASE StartPlatform
  BY <1>19, IndexSteps DEF TypeOK, StartPlatform
<1>20. CASE LoadJni
  BY <1>20, IndexSteps DEF TypeOK, LoadJni
<1>21. CASE JniFails
  BY <1>21, IndexSteps DEF TypeOK, JniFails
<1>22. CASE PlayGame
  BY <1>22, IndexSteps DEF TypeOK, PlayGame
<1>23. CASE LeaveGame
  BY <1>23, IndexSteps DEF TypeOK, LeaveGame
<1>24. CASE Shutdown
  BY <1>24, IndexSteps DEF TypeOK, Shutdown
<1>25. CASE Destroy
  BY <1>25, IndexSteps DEF TypeOK, Destroy
<1>26. CASE RunFinalizer
  BY <1>26, IndexSteps DEF TypeOK, RunFinalizer
<1>27. CASE FinalizerFails
  BY <1>27, IndexSteps DEF TypeOK, FinalizerFails
<1>28. CASE FinalizersDone
  BY <1>28, IndexSteps DEF TypeOK, FinalizersDone
<1>29. CASE Release
  BY <1>29, IndexSteps DEF TypeOK, Release
<1> QED BY <1>1, <1>2, <1>3, <1>4, <1>5, <1>6, <1>7, <1>8, <1>9, <1>10, <1>11, <1>12, <1>13,
   <1>14, <1>15, <1>16, <1>17, <1>18, <1>19, <1>20, <1>21, <1>22, <1>23, <1>24, <1>25,
   <1>26, <1>27, <1>28, <1>29 DEF Next

\* What is mapped stays what was counted.
LEMMA MemorySteps ==
    ASSUME IInv, Next
    PROVE  MemoryInv'
<1> USE LifecycleAssumption DEF IInv, Done, Fail, Goto, Finish, memoryVars, guestVars, hostVars
<1> USE DEF LinkStages, JniStages, DoneStages, ReturnStages
<1>1. CASE MapImage
  <2>1. mapped = at - 1 /\ at \in 1..Last /\ at' = (IF at < Last THEN at + 1 ELSE 1)
    BY <1>1 DEF TypeOK, MemoryInv, MapImage, Advance, Images
  <2>2. ASSUME NEW i \in Images
        PROVE  image'[i] = "none" <=> i > mapped'
    <3>1. image'[i] = IF i = at THEN "mapped" ELSE image[i]
      BY <1>1, <2>1 DEF TypeOK, MapImage
    <3>2. image[i] = "none" <=> i > mapped
      BY DEF MemoryInv
    <3>3. mapped' = mapped + 1 /\ i \in Nat
      BY <1>1 DEF MapImage, Images
    <3> QED BY <2>1, <3>1, <3>2, <3>3
  <2>3. ~started'
    BY <1>1 DEF StartInv, MapImage
  <2> QED BY <1>1, <2>1, <2>2, <2>3 DEF MemoryInv, MapImage, Advance
<1>2. CASE DescribeFails
  <2>1. mapped = at - 1 /\ at \in 1..Last
    BY <1>2 DEF TypeOK, MemoryInv, DescribeFails, Images
  <2>2. ASSUME NEW i \in Images
        PROVE  image'[i] = "none" <=> i > mapped'
    <3>1. image'[i] = IF i = at THEN "mapped" ELSE image[i]
      BY <1>2, <2>1 DEF TypeOK, DescribeFails
    <3>2. image[i] = "none" <=> i > mapped
      BY DEF MemoryInv
    <3>3. mapped' = mapped + 1 /\ i \in Nat
      BY <1>2 DEF DescribeFails, Images
    <3> QED BY <2>1, <3>1, <3>2, <3>3
  <2> QED BY <1>2, <2>2 DEF MemoryInv, StartInv, DescribeFails
<1>3. CASE RelocateImage
  <2>1. mapped = Last /\ mapped' = mapped
    BY <1>3 DEF MemoryInv, RelocateImage
  <2>2. \A i \in Images : image'[i] = "none" <=> image[i] = "none"
    BY <1>3, <2>1 DEF TypeOK, MemoryInv, RelocateImage, Images
  <2> QED BY <1>3, <2>1, <2>2 DEF MemoryInv, StartInv, RelocateImage, Advance
<1>4. CASE RelocateFails
  <2>1. \A i \in Images : image'[i] = "none" <=> image[i] = "none"
    BY <1>4 DEF TypeOK, MemoryInv, RelocateFails, Images
  <2> QED BY <1>4, <2>1 DEF MemoryInv, StartInv, RelocateFails
<1>5. CASE Unmap
  <2>1. mapped \in 0..Last /\ ~started
    BY <1>5 DEF TypeOK, StartInv, Unmap
  <2>3. ASSUME mapped > 0
        PROVE  /\ mapped' = mapped - 1 /\ stage' = stage
               /\ image' = [image EXCEPT ![mapped] = "none"]
    BY <1>5, <2>3 DEF Unmap
  <2>4. ASSUME ~(mapped > 0)
        PROVE  mapped' = mapped /\ image' = image /\ stage' = "release"
    BY <1>5, <2>4 DEF Unmap
  <2>5. mapped' \in 0..Last
    BY <2>1, <2>3, <2>4
  <2>6. ASSUME NEW i \in Images
        PROVE  image'[i] = "none" <=> i > mapped'
    <3>1. image[i] = "none" <=> i > mapped
      BY DEF MemoryInv
    <3>2. i \in Nat /\ DOMAIN image = Images
      BY DEF TypeOK, Images
    <3>3. CASE mapped > 0
      <4>1. image'[i] = IF i = mapped THEN "none" ELSE image[i]
        BY <2>3, <3>2, <3>3
      <4> QED BY <2>1, <2>3, <3>1, <3>2, <3>3, <4>1
    <3> QED BY <2>4, <3>1, <3>3
  <2>2. stage' = "release" => mapped' = 0
    BY <1>5, <2>1, <2>3, <2>4 DEF Unmap
  <2> QED BY <1>5, <2>1, <2>2, <2>5, <2>6 DEF MemoryInv, Unmap
<1>6. CASE MapFails \/ Check
  BY <1>6 DEF MemoryInv, StartInv, Advance, MapFails, Check
<1>7. CASE CheckFails \/ Retain
  BY <1>7 DEF MemoryInv, StartInv, Advance, CheckFails, Retain
<1>8. CASE Patch \/ PatchFails
  BY <1>8 DEF MemoryInv, StartInv, Advance, Patch, PatchFails
<1>9. CASE Mapping \/ StartConstructors
  BY <1>9 DEF MemoryInv, StartInv, Advance, Mapping, StartConstructors
<1>10. CASE RefuseConstructors \/ RunInitializer
  BY <1>10 DEF MemoryInv, StartInv, Advance, RefuseConstructors, RunInitializer
<1>11. CASE InitializerFails \/ InitializersDone
  BY <1>11 DEF MemoryInv, StartInv, Advance, InitializerFails, InitializersDone
<1>12. CASE OpenObb \/ StartPlatform
  BY <1>12 DEF MemoryInv, StartInv, Advance, OpenObb, StartPlatform
<1>13. CASE LoadJni \/ JniFails
  BY <1>13 DEF MemoryInv, StartInv, Advance, LoadJni, JniFails
<1>14. CASE PlayGame \/ LeaveGame
  BY <1>14 DEF MemoryInv, StartInv, Advance, PlayGame, LeaveGame
<1>15. CASE Shutdown \/ Destroy
  BY <1>15 DEF MemoryInv, StartInv, Advance, Shutdown, Destroy
<1>16. CASE RunFinalizer \/ FinalizerFails
  BY <1>16 DEF MemoryInv, StartInv, Advance, RunFinalizer, FinalizerFails
<1>17. CASE FinalizersDone \/ Release
  BY <1>17 DEF MemoryInv, StartInv, Advance, FinalizersDone, Release
<1> QED BY <1>1, <1>2, <1>3, <1>4, <1>5, <1>6, <1>7, <1>8, <1>9, <1>10, <1>11, <1>12, <1>13,
   <1>14, <1>15, <1>16, <1>17 DEF Next

\* Linking keeps what it has done.
LEMMA LinkSteps ==
    ASSUME IInv, Next
    PROVE  LinkInv'
<1> USE LifecycleAssumption DEF IInv, Done, Fail, Goto, Finish, memoryVars, guestVars, hostVars
<1> USE DEF LinkStages, JniStages, DoneStages, ReturnStages
<1>1. CASE Release
  BY <1>1 DEF LinkInv, StartInv, TypeOK, Release
<1>2. CASE Unmap
  BY <1>2 DEF LinkInv, StartInv, Unmap
<1>3. CASE RelocateImage
  <2>1. at \in 1..Last /\ at' = (IF at < Last THEN at + 1 ELSE 1)
    BY <1>3 DEF TypeOK, RelocateImage, Advance, Images
  <2>2. \A i \in 1..at : image'[i] = "linked"
    BY <1>3, <2>1 DEF TypeOK, LinkInv, RelocateImage, Images
  <2> QED BY <1>3, <2>1, <2>2 DEF LinkInv, StartInv, RelocateImage, Advance, Images
<1>4. CASE Check
  <2>1. stage' = "relocate" => at = 1
    BY <1>4 DEF LinkInv, Check
  <2> QED BY <1>4, <2>1 DEF LinkInv, StartInv, Check, Images
<1>5. CASE Retain
  <2>1. at \in 1..Last /\ at = 1
    BY <1>5 DEF TypeOK, LinkInv, Retain, Images
  <2> QED BY <1>5, <2>1 DEF LinkInv, Retain, Images
<1>6. CASE Patch
  <2>1. /\ at \in 1..Last /\ patched \subseteq Patched
        /\ at' = (IF at < Last THEN at + 1 ELSE 1)
    BY <1>6 DEF TypeOK, Patch, Advance, Images
  <2>5. /\ at \in Patched => patched' = patched \cup {at}
        /\ at \notin Patched => patched' = patched
        /\ \A i \in Patched : i < at => i \in patched
    BY <1>6 DEF LinkInv, Patch
  <2>7. patched' \subseteq Patched
    BY <2>1, <2>5
  <2>8. ASSUME NEW i \in Patched, i <= at
        PROVE  i \in patched'
    <3>1. i \in Images /\ (i < at \/ i = at)
      BY <2>1, <2>8 DEF Images
    <3> QED BY <2>5, <3>1
  <2>2. patched' \subseteq Patched /\ \A i \in Patched : i <= at => i \in patched'
    BY <2>7, <2>8
  <2>6. stage' = "choose" => at = Last
    BY <1>6, <2>1 DEF Patch, Advance
  <2>9. \A i \in Patched : i <= Last
    BY DEF Images
  <2>3. stage' = "choose" => patched' = Patched
    BY <2>2, <2>6, <2>9
  <2>4. \A i \in Patched : i < at' => i \in patched'
    BY <1>6, <2>1, <2>2 DEF Images
  <2> QED BY <1>6, <2>1, <2>3, <2>4 DEF LinkInv, StartInv, Patch, Advance, Images
<1>7. CASE MapImage
  <2>1. stage' \in {"map", "census"} /\ ~started'
    BY <1>7 DEF MapImage, Advance, StartInv
  <2>2. stage' = "census" => at' = 1
    BY <1>7 DEF MapImage, Advance
  <2> QED BY <1>7, <2>1, <2>2 DEF LinkInv, MapImage
<1>8. CASE MapFails \/ DescribeFails
  BY <1>8 DEF LinkInv, StartInv, Advance, MapFails, DescribeFails
<1>9. CASE CheckFails \/ RelocateFails
  BY <1>9 DEF LinkInv, StartInv, Advance, CheckFails, RelocateFails
<1>10. CASE PatchFails \/ Mapping
  BY <1>10 DEF LinkInv, StartInv, Advance, PatchFails, Mapping
<1>11. CASE StartConstructors \/ RefuseConstructors
  BY <1>11 DEF LinkInv, StartInv, Advance, StartConstructors, RefuseConstructors
<1>12. CASE RunInitializer \/ InitializerFails
  BY <1>12 DEF LinkInv, StartInv, Advance, RunInitializer, InitializerFails
<1>13. CASE InitializersDone \/ OpenObb
  BY <1>13 DEF LinkInv, StartInv, Advance, InitializersDone, OpenObb
<1>14. CASE StartPlatform \/ LoadJni
  BY <1>14 DEF LinkInv, StartInv, Advance, StartPlatform, LoadJni
<1>15. CASE JniFails \/ PlayGame
  BY <1>15 DEF LinkInv, StartInv, Advance, JniFails, PlayGame
<1>16. CASE LeaveGame \/ Shutdown
  BY <1>16 DEF LinkInv, StartInv, Advance, LeaveGame, Shutdown
<1>17. CASE Destroy \/ RunFinalizer
  BY <1>17 DEF LinkInv, StartInv, Advance, Destroy, RunFinalizer
<1>18. CASE FinalizerFails \/ FinalizersDone
  BY <1>18 DEF LinkInv, StartInv, Advance, FinalizerFails, FinalizersDone
<1> QED BY <1>1, <1>2, <1>3, <1>4, <1>5, <1>6, <1>7, <1>8, <1>9, <1>10, <1>11, <1>12, <1>13,
   <1>14, <1>15, <1>16, <1>17, <1>18 DEF Next

\* Guest code starts only at StartConstructors.
LEMMA StartSteps ==
    ASSUME IInv, Next
    PROVE  StartInv'
<1> USE LifecycleAssumption DEF IInv, Done, Fail, Goto, Finish, memoryVars, guestVars, hostVars
<1> USE DEF LinkStages, JniStages, DoneStages, ReturnStages
<1>1. CASE RelocateImage
  BY <1>1 DEF StartInv, LinkInv, Advance, RelocateImage
<1>2. CASE MapImage \/ MapFails
  BY <1>2 DEF StartInv, LinkInv, Advance, MapImage, MapFails
<1>3. CASE DescribeFails \/ Check
  BY <1>3 DEF StartInv, LinkInv, Advance, DescribeFails, Check
<1>4. CASE CheckFails \/ RelocateFails
  BY <1>4 DEF StartInv, LinkInv, Advance, CheckFails, RelocateFails
<1>5. CASE Retain \/ Patch
  BY <1>5 DEF StartInv, LinkInv, Advance, Retain, Patch
<1>6. CASE PatchFails \/ Mapping
  BY <1>6 DEF StartInv, LinkInv, Advance, PatchFails, Mapping
<1>7. CASE StartConstructors \/ RefuseConstructors
  BY <1>7 DEF StartInv, LinkInv, Advance, StartConstructors, RefuseConstructors
<1>8. CASE RunInitializer \/ InitializerFails
  BY <1>8 DEF StartInv, LinkInv, Advance, RunInitializer, InitializerFails
<1>9. CASE InitializersDone \/ OpenObb
  BY <1>9 DEF StartInv, LinkInv, Advance, InitializersDone, OpenObb
<1>10. CASE StartPlatform \/ LoadJni
  BY <1>10 DEF StartInv, LinkInv, Advance, StartPlatform, LoadJni
<1>11. CASE JniFails \/ PlayGame
  BY <1>11 DEF StartInv, LinkInv, Advance, JniFails, PlayGame
<1>12. CASE LeaveGame \/ Shutdown
  BY <1>12 DEF StartInv, LinkInv, Advance, LeaveGame, Shutdown
<1>13. CASE Destroy \/ RunFinalizer
  BY <1>13 DEF StartInv, LinkInv, Advance, Destroy, RunFinalizer
<1>14. CASE FinalizerFails \/ FinalizersDone
  BY <1>14 DEF StartInv, LinkInv, Advance, FinalizerFails, FinalizersDone
<1>15. CASE Unmap \/ Release
  BY <1>15 DEF StartInv, LinkInv, Advance, Unmap, Release
<1> QED BY <1>1, <1>2, <1>3, <1>4, <1>5, <1>6, <1>7, <1>8, <1>9, <1>10, <1>11, <1>12, <1>13,
   <1>14, <1>15 DEF Next

\* Initializers and finalizers advance one image at a time.
LEMMA OrderSteps ==
    ASSUME IInv, Next
    PROVE  OrderInv'
<1> USE LifecycleAssumption DEF IInv, Done, Fail, Goto, Finish, memoryVars, guestVars, hostVars
<1> USE DEF LinkStages, JniStages, DoneStages, ReturnStages
<1>1. CASE RelocateImage
  BY <1>1 DEF OrderInv, StartInv, Advance, RelocateImage
<1>2. CASE StartConstructors
  <2>1. at = 1
    BY <1>2 DEF LinkInv, StartConstructors
  <2> QED BY <1>2, <2>1 DEF OrderInv, StartInv, StartConstructors, Images
<1>3. CASE RunInitializer
  <2>1. at \in 1..Last /\ ~completed
    BY <1>3 DEF TypeOK, OrderInv, RunInitializer, Images
  <2>2. \A i \in Images : i # at => inits'[i] = inits[i]
    BY <1>3 DEF TypeOK, RunInitializer
  <2> QED BY <1>3, <2>1, <2>2 DEF OrderInv, StartInv, RunInitializer, Images
<1>4. CASE InitializersDone
  <2>1. at \in 1..Last /\ \A i \in 1..at : inits[i] = Inits[i]
    BY <1>4 DEF TypeOK, OrderInv, InitializersDone, Images
  <2>2. completed' => \A i \in Images : inits[i] = Inits[i]
    BY <1>4, <2>1 DEF InitializersDone, Images
  <2>3. stage' = "construct" => (at' = at + 1 /\ ~completed')
    <3>3. completed' = (at = Last)
      BY <1>4 DEF InitializersDone
    <3>4. at < Last => at' = at + 1
      BY <1>4, <2>1 DEF InitializersDone, Advance
    <3>1. at < Last => (at' = at + 1 /\ ~completed')
      <4>1. at < Last => ~(at = Last)
        BY <2>1
      <4> QED BY <3>3, <3>4, <4>1, Zenon
    <3>2. at = Last => stage' # "construct"
      BY <1>4 DEF InitializersDone, Advance, StartInv
    <3> QED BY <2>1, <3>1, <3>2
  <2>4. \A i \in at + 1..Last : inits[i] = 0
    BY <1>4 DEF OrderInv, InitializersDone
  <2>5. stage' \in {"construct", "jni-open", "shutdown"} /\ started
    BY <1>4 DEF InitializersDone, StartInv, Advance
  <2> QED BY <1>4, <2>1, <2>2, <2>3, <2>4, <2>5 DEF OrderInv, InitializersDone
<1>5. CASE Destroy
  <2>1. Last \in 1..Last
    OBVIOUS
  <2> QED BY <1>5, <2>1 DEF OrderInv, StartInv, Destroy, Images
<1>6. CASE RunFinalizer
  <2>1. at \in 1..Last /\ started /\ completed
    BY <1>6 DEF TypeOK, OrderInv, StartInv, RunFinalizer, Images
  <2>2. \A i \in Images : i # at => finis'[i] = finis[i]
    BY <1>6 DEF TypeOK, RunFinalizer
  <2> QED BY <1>6, <2>1, <2>2 DEF OrderInv, RunFinalizer, Images
<1>7. CASE FinalizersDone
  <2>1. at \in 1..Last /\ started /\ completed
    BY <1>7 DEF TypeOK, OrderInv, StartInv, FinalizersDone, Images
  <2>2. \A i \in at..Last : finis[i] = Finis[i]
    BY <1>7, <2>1 DEF OrderInv, FinalizersDone
  <2>3. UNCHANGED <<started, completed, inits, finis>>
    BY <1>7 DEF FinalizersDone, guestVars, Goto
  <2>4. CASE at > 1
    <3>1. at' = at - 1 /\ stage' = "finalize"
      BY <1>7, <2>4 DEF FinalizersDone
    <3> QED BY <1>7, <2>1, <2>2, <2>3, <3>1 DEF OrderInv, FinalizersDone, Images
  <2>5. CASE ~(at > 1)
    <3>1. stage' = "exit"
      BY <1>7, <2>5 DEF FinalizersDone, Goto
    <3> QED BY <2>1, <2>3, <3>1 DEF OrderInv, ReturnStages, LinkStages, JniStages
  <2> QED BY <2>4, <2>5
<1>8. CASE MapImage \/ MapFails
  BY <1>8 DEF OrderInv, StartInv, Advance, MapImage, MapFails
<1>9. CASE DescribeFails \/ Check
  BY <1>9 DEF OrderInv, StartInv, Advance, DescribeFails, Check
<1>10. CASE CheckFails \/ RelocateFails
  BY <1>10 DEF OrderInv, StartInv, Advance, CheckFails, RelocateFails
<1>11. CASE Retain \/ Patch
  BY <1>11 DEF OrderInv, StartInv, Advance, Retain, Patch
<1>12. CASE PatchFails \/ Mapping
  BY <1>12 DEF OrderInv, StartInv, Advance, PatchFails, Mapping
<1>13. CASE RefuseConstructors \/ InitializerFails
  BY <1>13 DEF OrderInv, StartInv, Advance, RefuseConstructors, InitializerFails
<1>14. CASE OpenObb \/ StartPlatform
  BY <1>14 DEF OrderInv, StartInv, Advance, OpenObb, StartPlatform
<1>15. CASE LoadJni \/ JniFails
  BY <1>15 DEF OrderInv, StartInv, Advance, LoadJni, JniFails
<1>16. CASE PlayGame \/ LeaveGame
  BY <1>16 DEF OrderInv, StartInv, Advance, PlayGame, LeaveGame
<1>17. CASE Shutdown \/ FinalizerFails
  BY <1>17 DEF OrderInv, StartInv, Advance, Shutdown, FinalizerFails
<1>18. CASE Unmap \/ Release
  BY <1>18 DEF OrderInv, StartInv, Advance, Unmap, Release
<1> QED BY <1>1, <1>2, <1>3, <1>4, <1>5, <1>6, <1>7, <1>8, <1>9, <1>10, <1>11, <1>12, <1>13,
   <1>14, <1>15, <1>16, <1>17, <1>18 DEF Next

\* The order of initializers and finalizers.
LEMMA MirrorSteps ==
    ASSUME IInv, Next
    PROVE  FinalizersMirror'
<1> USE LifecycleAssumption DEF IInv, Done, Fail, Goto, Finish, memoryVars, guestVars, hostVars
<1>1. CASE RunInitializer
  <2>1. at \in 1..Last
    BY <1>1 DEF TypeOK, RunInitializer, Images
  <2>2. inits' = [inits EXCEPT ![at] = @ + 1] /\ finis' = finis
    BY <1>1 DEF RunInitializer
  <2>3. \A i \in Images : finis[i] = 0
    BY <1>1 DEF OrderInv, RunInitializer
  <2>4. \A i \in 1..at - 1 : inits[i] = Inits[i] /\ inits'[i] = inits[i]
    BY <1>1, <2>1, <2>2 DEF OrderInv, TypeOK, RunInitializer, Images
  <2>5. \A i \in at + 1..Last : inits'[i] = 0
    BY <1>1, <2>1, <2>2 DEF OrderInv, TypeOK, RunInitializer, Images
  <2>6. ASSUME NEW i \in Images, inits'[i] > 0, NEW j \in 1..i - 1
        PROVE  inits'[j] = Inits[j]
    BY <2>1, <2>4, <2>5, <2>6 DEF Images
  <2> QED BY <2>2, <2>3, <2>6 DEF FinalizersMirror
<1>2. CASE RunFinalizer
  <2>1. at \in 1..Last /\ completed
    BY <1>2 DEF TypeOK, OrderInv, RunFinalizer, Images
  <2>2. finis' = [finis EXCEPT ![at] = @ + 1] /\ inits' = inits
    BY <1>2 DEF RunFinalizer, guestVars
  <2>3. \A j \in at + 1..Last : finis'[j] = Finis[j]
    BY <1>2, <2>1, <2>2 DEF OrderInv, TypeOK, RunFinalizer, Images
  <2>4. \A i \in 1..at - 1 : finis'[i] = 0
    BY <1>2, <2>1, <2>2 DEF OrderInv, TypeOK, RunFinalizer, Images
  <2>5. ASSUME NEW i \in Images, finis'[i] > 0, NEW j \in i + 1..Last
        PROVE  finis'[j] = Finis[j]
    BY <2>1, <2>3, <2>4, <2>5 DEF Images
  <2>6. \A j \in Images : inits[j] = Inits[j]
    BY <2>1 DEF OrderInv
  <2> QED BY <2>2, <2>5, <2>6 DEF FinalizersMirror
<1>3. CASE MapImage \/ MapFails
  BY <1>3 DEF FinalizersMirror, Advance, MapImage, MapFails
<1>4. CASE DescribeFails \/ Check
  BY <1>4 DEF FinalizersMirror, Advance, DescribeFails, Check
<1>5. CASE CheckFails \/ RelocateImage
  BY <1>5 DEF FinalizersMirror, Advance, CheckFails, RelocateImage
<1>6. CASE RelocateFails \/ Retain
  BY <1>6 DEF FinalizersMirror, Advance, RelocateFails, Retain
<1>7. CASE Patch \/ PatchFails
  BY <1>7 DEF FinalizersMirror, Advance, Patch, PatchFails
<1>8. CASE Mapping \/ StartConstructors
  BY <1>8 DEF FinalizersMirror, Advance, Mapping, StartConstructors
<1>9. CASE RefuseConstructors \/ InitializerFails
  BY <1>9 DEF FinalizersMirror, Advance, RefuseConstructors, InitializerFails
<1>10. CASE InitializersDone \/ OpenObb
  BY <1>10 DEF FinalizersMirror, Advance, InitializersDone, OpenObb
<1>11. CASE StartPlatform \/ LoadJni
  BY <1>11 DEF FinalizersMirror, Advance, StartPlatform, LoadJni
<1>12. CASE JniFails \/ PlayGame
  BY <1>12 DEF FinalizersMirror, Advance, JniFails, PlayGame
<1>13. CASE LeaveGame \/ Shutdown
  BY <1>13 DEF FinalizersMirror, Advance, LeaveGame, Shutdown
<1>14. CASE Destroy \/ FinalizerFails
  BY <1>14 DEF FinalizersMirror, Advance, Destroy, FinalizerFails
<1>15. CASE FinalizersDone \/ Unmap
  BY <1>15 DEF FinalizersMirror, Advance, FinalizersDone, Unmap
<1>16. CASE Release
  BY <1>16 DEF FinalizersMirror, Advance, Release
<1> QED BY <1>1, <1>2, <1>3, <1>4, <1>5, <1>6, <1>7, <1>8, <1>9, <1>10, <1>11, <1>12, <1>13,
   <1>14, <1>15, <1>16 DEF Next

\* The status and the history of failures agree.
LEMMA StatusSteps ==
    ASSUME IInv, Next
    PROVE  StatusInv'
<1> USE LifecycleAssumption DEF IInv, Done, Fail, Goto, Finish, memoryVars, guestVars, hostVars
<1> USE DEF LinkStages, JniStages, DoneStages, ReturnStages
<1>1. CASE RelocateImage
  BY <1>1 DEF StatusInv, StartInv, Advance, RelocateImage
<1>2. CASE MapImage \/ MapFails
  BY <1>2 DEF StatusInv, StartInv, Advance, MapImage, MapFails
<1>3. CASE DescribeFails \/ Check
  BY <1>3 DEF StatusInv, StartInv, Advance, DescribeFails, Check
<1>4. CASE CheckFails \/ RelocateFails
  BY <1>4 DEF StatusInv, StartInv, Advance, CheckFails, RelocateFails
<1>5. CASE Retain \/ Patch
  BY <1>5 DEF StatusInv, StartInv, Advance, Retain, Patch
<1>6. CASE PatchFails \/ Mapping
  BY <1>6 DEF StatusInv, StartInv, Advance, PatchFails, Mapping
<1>7. CASE StartConstructors \/ RefuseConstructors
  BY <1>7 DEF StatusInv, StartInv, Advance, StartConstructors, RefuseConstructors
<1>8. CASE RunInitializer \/ InitializerFails
  BY <1>8 DEF StatusInv, StartInv, Advance, RunInitializer, InitializerFails
<1>9. CASE InitializersDone \/ OpenObb
  BY <1>9 DEF StatusInv, StartInv, Advance, InitializersDone, OpenObb
<1>10. CASE StartPlatform \/ LoadJni
  BY <1>10 DEF StatusInv, StartInv, Advance, StartPlatform, LoadJni
<1>11. CASE JniFails \/ PlayGame
  BY <1>11 DEF StatusInv, StartInv, Advance, JniFails, PlayGame
<1>12. CASE LeaveGame \/ Shutdown
  BY <1>12 DEF StatusInv, StartInv, Advance, LeaveGame, Shutdown
<1>13. CASE Destroy \/ RunFinalizer
  BY <1>13 DEF StatusInv, StartInv, Advance, Destroy, RunFinalizer
<1>14. CASE FinalizerFails \/ FinalizersDone
  BY <1>14 DEF StatusInv, StartInv, Advance, FinalizerFails, FinalizersDone
<1>15. CASE Unmap \/ Release
  BY <1>15 DEF StatusInv, StartInv, Advance, Unmap, Release
<1> QED BY <1>1, <1>2, <1>3, <1>4, <1>5, <1>6, <1>7, <1>8, <1>9, <1>10, <1>11, <1>12, <1>13,
   <1>14, <1>15 DEF Next

\* IInv is an inductive invariant of the process.
THEOREM Invariance == Spec => []IInv
<1>1. IInv /\ [Next]_vars => IInv'
  <2> SUFFICES ASSUME IInv, [Next]_vars PROVE IInv'
    OBVIOUS
  <2>1. CASE UNCHANGED vars
    BY <2>1 DEF IInv, TypeOK, MemoryInv, LinkInv, StartInv, OrderInv, FinalizersMirror,
       StatusInv, vars, memoryVars, guestVars, hostVars
  <2>2. CASE Next
    BY <2>2, TypeSteps, MemorySteps, LinkSteps, StartSteps, OrderSteps, MirrorSteps, StatusSteps
    DEF IInv
  <2> QED BY <2>1, <2>2
<1> QED BY InitInvariant, <1>1, PTL DEF Spec

\* Every variable keeps its type; the index of the image stays in range on
\* the way up and on the way down.
THEOREM TypeCorrect == Spec => []TypeOK
<1>1. IInv => TypeOK
  BY DEF IInv
<1> QED BY <1>1, Invariance, PTL

\* Guest code runs only in a fully linked process.
THEOREM LinkedBeforeGuest == Spec => []GuestCodeLinked
<1>1. IInv => GuestCodeLinked
  BY DEF IInv, StartInv, GuestCodeLinked, GuestRuns, JniStages, DoneStages
<1> QED BY <1>1, Invariance, PTL

\* Nothing is left open when the process ends, whatever failed.
THEOREM Released == Spec => []ReleasedAtExit
<1>1. IInv => ReleasedAtExit
  BY LifecycleAssumption
  DEF IInv, TypeOK, MemoryInv, LinkInv, StartInv, ReleasedAtExit, JniStages, Images
<1> QED BY <1>1, Invariance, PTL

\* Initializers in link order, finalizers in reverse and after all of them.
THEOREM Mirrored == Spec => []FinalizersMirror
<1>1. IInv => FinalizersMirror
  BY DEF IInv
<1> QED BY <1>1, Invariance, PTL

\* The exit status is 0 exactly when no stage failed.
THEOREM StatusHonest == Spec => []HonestStatus
<1>1. IInv => HonestStatus
  BY DEF IInv, StatusInv, HonestStatus
<1> QED BY <1>1, Invariance, PTL
-----------------------------------------------------------------------------
(* Session: the platform and the sound beside main().                      *)

ProbePlaces ==
    {"probe init", "probe window", "probe context", "probe gl", "probe unwind",
     "probe controller", "probe audio", "probe queue", "probe quit", "probe close"}
StartPlaces == {"start init", "start window", "start context", "start controller"}
StopPlaces == {"stop audio", "stop video", "stop quit", "stop close", "stop clear"}
SoundStages == {"jni-load", "game", "leave", "shutdown", "destroy", "finalize"}

\* Where the platform can be at each stage of main().
StageInv ==
    /\ stage \in {"map", "census"} => plat = "idle"
    /\ stage = "preflight" => plat \in {"idle", "probed"} \cup ProbePlaces
    /\ stage \in {"relocate", "retain", "patch", "choose", "construct", "jni-open"} =>
          plat = "probed"
    /\ stage = "jni-start" =>
          plat \in {"probed", "running", "stopped"} \cup StartPlaces \cup StopPlaces
    /\ stage \in {"jni-load", "game"} => plat = "running"
    /\ stage \in {"leave", "shutdown"} =>
          plat \in {"probed", "running", "stopped"} \cup StopPlaces
    /\ stage \in {"destroy", "finalize"} => plat \in {"probed", "stopped"}
    /\ stage \in {"unmap", "release", "exit"} => plat \in {"idle", "probed", "stopped"}

\* What is held at each place of the platform, and what must be.
HeldInv ==
    /\ held \subseteq {"library", "sdl", "window", "context", "controller"}
    /\ plat = "idle" => passed = {}
    /\ "library" \in held =>
          plat \notin {"idle", "stop clear", "stopped"} /\ (plat = "probed" => passed = {})
    /\ "sdl" \in held =>
          /\ "library" \in held
          /\ plat \notin {"idle", "probe init", "probe close", "probed", "start init",
                          "stop close", "stop clear", "stopped"}
    /\ "window" \in held =>
          /\ "sdl" \in held
          /\ plat \in {"probe context", "probe gl", "probe unwind", "start context",
                       "start controller", "running", "stop audio", "stop video"}
    /\ "context" \in held =>
          /\ "window" \in held
          /\ plat \in {"probe gl", "probe unwind", "start controller", "running",
                       "stop audio", "stop video"}
    /\ "controller" \in held =>
          /\ "sdl" \in held
          /\ plat \in {"probe audio", "running", "stop audio", "stop video"}
    /\ plat \in {"probe init", "start init"} => "library" \in held
    /\ plat \in {"probe window", "probe context", "probe gl", "probe unwind",
                 "probe controller", "probe audio", "start window", "start context",
                 "start controller", "running"} => "sdl" \in held
    /\ plat \in {"probe context", "start context"} => "window" \in held
    /\ open # {} => "sdl" \in held
    /\ plat \in ProbePlaces \ {"probe queue"} => open = {}

PInv == StageInv /\ HeldInv
-----------------------------------------------------------------------------
\* A step of the session is one of main() or leaves main() alone.
LEMMA SessionStep == SessionNext => [Next]_vars
  BY DEF SessionNext, MainStep, PlatformStep, SoundStep

\* The session refines main() alone.
THEOREM SessionRefinesMain == SessionSpec => Spec
<1>1. SessionInit => Init
  BY DEF SessionInit
<1>2. [SessionNext]_sessionVars => [Next]_vars
  BY SessionStep DEF sessionVars
<1> QED BY <1>1, <1>2, PTL DEF SessionSpec, Spec

\* A sound step opens devices where SDL runs and otherwise leaves the
\* platform's resources alone.
LEMMA SoundKeepsPlatform ==
    ASSUME SoundStep
    PROVE  /\ UNCHANGED <<held, plat, passed, vars>>
           /\ open' = open \/ ("sdl" \in held /\ stage \in SoundStages)
<1> USE DEF restVars, Crash, Stray
<1>1. UNCHANGED vars
  BY DEF SoundStep
<1>2. ASSUME NEW t, OpenDevice(t)
      PROVE  UNCHANGED <<held, plat, passed>> /\ (open' = open \/ "sdl" \in held)
  <2>1. CASE "library" \notin held
    BY <1>2, <2>1 DEF OpenDevice
  <2>2. CASE "library" \in held
    <3>1. PICK d \in {NoDevice} \cup (IF "sdl" \in held THEN Devices \ open ELSE {}) :
              open' = open \cup ({d} \ {NoDevice}) /\ UNCHANGED restVars
      BY <1>2, <2>2 DEF OpenDevice
    <3>2. "sdl" \notin held => open' = open
      BY <3>1
    <3> QED BY <3>1, <3>2
  <2> QED BY <2>1, <2>2
<1>3. ASSUME NEW t, \/ StoreDevice(t) \/ EnqueueSamples(t) \/ EnqueueSize(t) \/ Enqueue(t)
                    \/ AskQueued(t) \/ AnswerQueued(t)
      PROVE  UNCHANGED <<held, plat, passed, open>>
  BY <1>3 DEF StoreDevice, EnqueueSamples, QueueSamples, EnqueueSize, Enqueue, AskQueued,
     AnswerQueued
<1>4. ASSUME NEW c, Register(c)
      PROVE  UNCHANGED <<held, plat, passed, open>>
  BY <1>4 DEF Register
<1>5. CASE CreatePlayer \/ RegisterContext \/ DestroyPlayer \/ DestroyRest \/ Drain
  BY <1>1, <1>5 DEF CreatePlayer, RegisterContext, DestroyPlayer, DestroyRest, Drain
<1>6. CASE EnterLoop \/ Tick \/ FmodStarts \/ FmodAnswered \/ Mixer \/ PumpCheck \/ PumpLevel
           \/ PumpLoad \/ CallbackEnqueues \/ PumpReturns \/ Present
  BY <1>1, <1>6 DEF EnterLoop, Tick, FmodStarts, FmodAnswered, Mixer, PumpCheck, PumpLevel,
     PumpLoad, CallbackEnqueues, PumpReturns, Present, Frame
<1>7. CASE FmodQueue \/ PumpCall
  BY <1>1, <1>7 DEF FmodQueue, QueueSamples, PumpCall, Frame
<1>8. CASE stage = "game" /\ FrameLoop
  BY <1>1, <1>2, <1>3, <1>6, <1>7, <1>8 DEF FrameLoop, SoundStages
<1>9. CASE stage \in SoundStages /\ GuestSound
  BY <1>1, <1>2, <1>3, <1>4, <1>5, <1>9 DEF GuestSound
<1> QED BY <1>5, <1>8, <1>9 DEF SoundStep, SoundStages

\* The probe takes and gives back.
LEMMA ProbeSteps ==
    ASSUME PInv, Probe, stage = "preflight", UNCHANGED vars
    PROVE  PInv'
<1> USE DEF PInv, StageInv, HeldInv, ProbePlaces, StartPlaces, StopPlaces, To, Get, Drop
<1>0. stage' = stage
  BY DEF vars
<1>1. CASE ProbeOpen
  BY <1>0, <1>1 DEF ProbeOpen
<1>2. CASE ProbeInit
  BY <1>0, <1>2 DEF ProbeInit
<1>3. CASE ProbeWindow
  BY <1>0, <1>3 DEF ProbeWindow
<1>4. CASE ProbeContext
  BY <1>0, <1>4 DEF ProbeContext
<1>5. CASE ProbeGl
  BY <1>0, <1>5 DEF ProbeGl, Pass
<1>6. CASE ProbeUnwind
  BY <1>0, <1>6 DEF ProbeUnwind
<1>7. CASE ProbeController
  BY <1>0, <1>7 DEF ProbeController
<1>8. CASE ProbeAudio
  BY <1>0, <1>8 DEF ProbeAudio
<1>9. CASE ProbeQueue
  BY <1>0, <1>9 DEF ProbeQueue, Pass
<1>10. CASE ProbeQuit
  BY <1>0, <1>10 DEF ProbeQuit
<1> QED BY <1>1, <1>2, <1>3, <1>4, <1>5, <1>6, <1>7, <1>8, <1>9, <1>10 DEF Probe

\* So does the start.
LEMMA RuntimeStartSteps ==
    ASSUME PInv, Start, stage = "jni-start", UNCHANGED vars
    PROVE  PInv'
<1> USE DEF PInv, StageInv, HeldInv, ProbePlaces, StartPlaces, StopPlaces, To, Get, Acquire
<1>0. stage' = stage
  BY DEF vars
<1>1. CASE StartOpen
  BY <1>0, <1>1 DEF StartOpen
<1>2. CASE StartInit
  BY <1>0, <1>2 DEF StartInit
<1>3. CASE StartWindow
  BY <1>0, <1>3 DEF StartWindow
<1>4. CASE StartContext
  BY <1>0, <1>4 DEF StartContext
<1>5. CASE StartController
  BY <1>0, <1>5 DEF StartController
<1> QED BY <1>1, <1>2, <1>3, <1>4, <1>5 DEF Start

\* And the stop, wherever the start or the game left off.
LEMMA StopSteps ==
    ASSUME PInv, Stop, UNCHANGED vars,
           stage \in {"leave", "shutdown"} \/ (stage = "jni-start" /\ plat # "running")
    PROVE  PInv'
<1> USE DEF PInv, StageInv, HeldInv, ProbePlaces, StartPlaces, StopPlaces, To, Drop
<1>0. stage' = stage
  BY DEF vars
<1>1. CASE StopAudio
  BY <1>0, <1>1 DEF StopAudio
<1>2. CASE StopVideo
  BY <1>0, <1>2 DEF StopVideo
<1>3. CASE StopQuit
  BY <1>0, <1>3 DEF StopQuit
<1>4. CASE StopClose
  BY <1>0, <1>4 DEF StopClose
<1>5. CASE StopClear
  BY <1>0, <1>5 DEF StopClear
<1> QED BY <1>1, <1>2, <1>3, <1>4, <1>5 DEF Stop

\* From which stage main() goes to which.
Edge ==
    \/ stage' = stage
    \/ stage = "map" /\ stage' \in {"census", "unmap"}
    \/ stage = "census" /\ stage' \in {"preflight", "unmap"}
    \/ stage = "preflight" /\ stage' \in {"relocate", "unmap"}
    \/ /\ stage \in {"relocate", "retain", "patch", "choose"}
       /\ stage' \in {"retain", "patch", "choose", "construct", "unmap"}
    \/ stage = "construct" /\ stage' \in {"jni-open", "shutdown"}
    \/ stage = "jni-open" /\ stage' \in {"jni-start", "shutdown"}
    \/ stage = "jni-start" /\ (stage' = "shutdown" \/ (stage' = "jni-load" /\ platform'))
    \/ stage = "jni-load" /\ stage' \in {"game", "shutdown"}
    \/ stage = "game" /\ stage' \in {"leave", "shutdown"}
    \/ stage \in {"leave", "shutdown"} /\ stage' \in {"destroy", "exit"}
    \/ stage \in {"destroy", "finalize"} /\ stage' \in {"finalize", "exit"}
    \/ stage \in {"unmap", "release"} /\ stage' \in {"release", "exit"}

LEMMA MainEdges ==
    ASSUME IInv, Next
    PROVE  Edge
<1> USE DEF Edge, Done, Fail, Advance, Goto, Finish, hostVars
<1>1. /\ stage \in LinkStages \cup ReturnStages => ~started
      /\ stage \in {"construct"} \cup JniStages \cup DoneStages => started
  BY DEF IInv, StartInv
<1> USE <1>1 DEF LinkStages, ReturnStages, JniStages, DoneStages
<1>2. CASE MapImage
  BY <1>2 DEF MapImage
<1>3. CASE MapFails \/ DescribeFails
  BY <1>3 DEF MapFails, DescribeFails
<1>4. CASE Check \/ CheckFails
  BY <1>4 DEF Check, CheckFails
<1>5. CASE RelocateImage
  BY <1>5 DEF RelocateImage
<1>6. CASE RelocateFails \/ Retain
  BY <1>6 DEF RelocateFails, Retain
<1>7. CASE Patch
  BY <1>7 DEF Patch
<1>8. CASE PatchFails \/ Mapping
  BY <1>8 DEF PatchFails, Mapping
<1>9. CASE StartConstructors \/ RefuseConstructors
  BY <1>9 DEF StartConstructors, RefuseConstructors
<1>10. CASE RunInitializer \/ InitializerFails
  BY <1>10 DEF RunInitializer, InitializerFails
<1>11. CASE InitializersDone
  BY <1>11 DEF InitializersDone
<1>12. CASE OpenObb \/ StartPlatform
  BY <1>12 DEF OpenObb, StartPlatform
<1>13. CASE LoadJni
  BY <1>13 DEF LoadJni
<1>14. CASE JniFails
  BY <1>14 DEF JniFails
<1>15. CASE PlayGame \/ LeaveGame \/ Shutdown
  BY <1>15 DEF PlayGame, LeaveGame, Shutdown
<1>16. CASE Destroy
  BY <1>16 DEF Destroy
<1>17. CASE RunFinalizer \/ FinalizerFails \/ FinalizersDone
  BY <1>17 DEF RunFinalizer, FinalizerFails, FinalizersDone
<1>18. CASE Unmap \/ Release
  BY <1>18 DEF Unmap, Release
<1> QED BY <1>2, <1>3, <1>4, <1>5, <1>6, <1>7, <1>8, <1>9, <1>10, <1>11, <1>12, <1>13, <1>14,
   <1>15, <1>16, <1>17, <1>18 DEF Next

\* main() leaves a stage only where the platform lets it.
LEMMA MainSteps ==
    ASSUME IInv, PInv, MainStep
    PROVE  PInv'
<1>1. plat' = plat /\ held' = held /\ open' = open /\ passed' = passed
  BY DEF MainStep, platformVars
<1>2. HeldInv'
  BY <1>1 DEF PInv, HeldInv
<1>3. /\ stage = "preflight" => plat = "probed"
      /\ stage = "jni-start" => plat = IF platform' THEN "running" ELSE "stopped"
      /\ stage \in {"leave", "shutdown"} => plat \in {"probed", "stopped"}
  BY DEF MainStep, Stopped
<1>4. Edge
  BY MainEdges DEF MainStep
<1>5. StageInv'
  BY <1>1, <1>3, <1>4 DEF PInv, StageInv, Edge
<1> QED BY <1>2, <1>5 DEF PInv

\* Every step keeps PInv.
LEMMA PlatformInvariant == IInv /\ PInv /\ [SessionNext]_sessionVars => PInv'
<1> SUFFICES ASSUME IInv, PInv, [SessionNext]_sessionVars PROVE PInv'
  OBVIOUS
<1>1. CASE MainStep
  BY <1>1, MainSteps
<1>2. CASE PlatformStep
  BY <1>2, ProbeSteps, RuntimeStartSteps, StopSteps DEF PlatformStep
<1>3. CASE SoundStep
  <2>1. stage' = stage /\ plat' = plat /\ held' = held /\ passed' = passed
    BY <1>3, SoundKeepsPlatform DEF vars
  <2>2. open' = open \/ ("sdl" \in held /\ stage \in SoundStages)
    BY <1>3, SoundKeepsPlatform
  <2>3. stage \in SoundStages => plat \notin ProbePlaces
    BY DEF PInv, StageInv, SoundStages, ProbePlaces, StopPlaces
  <2>4. StageInv'
    BY <2>1 DEF PInv, StageInv
  <2>5. HeldInv'
    BY <2>1, <2>2, <2>3 DEF PInv, HeldInv
  <2> QED BY <2>4, <2>5 DEF PInv
<1>4. CASE UNCHANGED sessionVars
  BY <1>4 DEF PInv, StageInv, HeldInv, sessionVars, vars, platformVars
<1> QED BY <1>1, <1>2, <1>3, <1>4 DEF SessionNext

THEOREM PlatformSafe == SessionSpec => [](IInv /\ PInv)
<1>1. SessionInit => PInv
  BY DEF SessionInit, Init, PlatformInit, PInv, StageInv, HeldInv, ProbePlaces, StartPlaces,
     StopPlaces
<1>2. SessionSpec => []IInv
  BY SessionRefinesMain, Invariance, PTL
<1> QED BY <1>1, <1>2, PlatformInvariant, PTL DEF SessionSpec

\* Whichever stage fails and whatever guest threads do meanwhile, nothing of
\* the platform outlives the resource it was made from, and nothing is left
\* when the process ends.
THEOREM SessionReleased == SessionSpec => []AllReleased
<1>1. PInv => AllReleased
  <2> SUFFICES ASSUME PInv PROVE AllReleased
    OBVIOUS
  <2> USE DEF PInv, HeldInv
  <2>1. ASSUME Stopped
        PROVE  open = {} /\ (held = {} \/ (held = {"library"} /\ passed = {}))
    <3>1. "sdl" \notin held
      BY <2>1 DEF Stopped
    <3>2. "window" \notin held /\ "context" \notin held /\ "controller" \notin held /\ open = {}
      BY <3>1
    <3>3. held \subseteq {"library"}
      BY <3>1, <3>2
    <3>4. "library" \in held => passed = {}
      BY <2>1 DEF Stopped
    <3> QED BY <3>2, <3>3, <3>4
  <2>2. \A r \in held \cap DOMAIN Parent : Parent[r] \in held
    <3>1. DOMAIN Parent = {"sdl", "window", "context", "controller"}
      BY DEF Parent
    <3>2. /\ Parent["sdl"] = "library" /\ Parent["window"] = "sdl"
          /\ Parent["context"] = "window" /\ Parent["controller"] = "sdl"
      BY DEF Parent
    <3> QED BY <3>1, <3>2
  <2>3. stage = "exit" => plat = "idle" \/ Stopped
    BY DEF StageInv, Stopped
  <2> QED BY <2>1, <2>2, <2>3 DEF AllReleased, PlatformReleased
<1> QED BY <1>1, PlatformSafe, PTL

\* What main() promises alone it promises beside the sound threads.
THEOREM SessionMain == SessionSpec => [](GuestCodeLinked /\ ReleasedAtExit /\ FinalizersMirror)
<1> QED BY SessionRefinesMain, LinkedBeforeGuest, Released, Mirrored, PTL
-----------------------------------------------------------------------------
(* The sound threads.                                                      *)

CallPlaces == {"idle", "open", "store", "queue", "size", "ask", "done", "refused",
               "context", "drop context", "drop size"}
Registering == {"context", "drop context", "drop size"}
Pumping == {"level", "load", "called"}
Calls == [at : CallPlaces, device : Devices \cup {NoDevice}, early : BOOLEAN]

\* No call that can go astray was begun after the stop, and after it the
\* runtime knows no device that a call could begin with.
CallInv ==
    /\ known \in [started : BOOLEAN, device : Devices \cup {NoDevice}]
    /\ do \in [Threads -> Calls]
    /\ plat = "stopped" => known = Cleared
    /\ \A t \in Threads : do[t].at \in {"open", "store", "queue", "ask"} => do[t].early
    /\ crash # "unexplained"

Pumps == [callback : Clients \cup {Null}, context : Clients \cup {Null},
          left : SUBSET {"callback", "context"}, touched : BOOLEAN]

\* What the pump has read is what is registered, unless it was disturbed.
PumpInv ==
    /\ pump \in Pumps
    /\ callback \in Clients \cup {Null} /\ context \in Clients \cup {Null}
    /\ callback = registered
    /\ do[Owner].at = "drop context" => registered = Null
    /\ do[Owner].at \in {"context", "drop context"} \/ context = registered
    /\ loop \in Pumping /\ ~pump.touched =>
          /\ callback # Null
          /\ do[Owner].at \notin Registering
          /\ "callback" \notin pump.left => pump.callback = callback
          /\ "context" \notin pump.left => pump.context = context
    /\ loop = "called" => pump.left = {}

SInv == CallInv /\ PumpInv

LEMMA OwnerThread == Owner \in Threads /\ Main \in Threads /\ Owner # Main /\ Guests \subseteq Threads
  BY AudioAssumption DEF Threads

LEMMA BeginCall ==
    ASSUME CallInv, NEW t \in Threads, NEW place \in CallPlaces, Begin(t, place)
    PROVE  /\ do' \in [Threads -> Calls]
           /\ do'[t].at = place /\ (do'[t].early <=> plat # "stopped")
           /\ \A u \in Threads \ {t} : do'[u] = do[u]
<1> DEFINE new == [at |-> place, device |-> NoDevice, early |-> plat # "stopped"]
<1>2. do' = [do EXCEPT ![t] = new]
  BY DEF Begin
<1>3. (plat # "stopped") \in BOOLEAN
  OBVIOUS
<1>4. new \in Calls
  BY <1>3 DEF Calls
<1> HIDE DEF new
<1>5. do' \in [Threads -> Calls] /\ do'[t] = new /\ \A u \in Threads \ {t} : do'[u] = do[u]
  BY <1>2, <1>4 DEF CallInv
<1>6. new.at = place /\ new.early = (plat # "stopped")
  BY DEF new
<1> QED BY <1>5, <1>6

LEMMA EndCall ==
    ASSUME CallInv, NEW t \in Threads, NEW ok \in BOOLEAN, End(t, ok)
    PROVE  /\ do' \in [Threads -> Calls]
           /\ do'[t].at \in {"idle", "done", "refused"}
           /\ \A u \in Threads \ {t} : do'[u] = do[u]
<1> DEFINE place == IF t # Main THEN "idle" ELSE IF ok THEN "done" ELSE "refused"
           new == [at |-> place, device |-> NoDevice, early |-> FALSE]
<1>2. do' = [do EXCEPT ![t] = new]
  BY DEF End
<1>3. place \in {"idle", "done", "refused"}
  OBVIOUS
<1>4. new \in Calls
  BY <1>3 DEF Calls, CallPlaces
<1> HIDE DEF new
<1>5. do' \in [Threads -> Calls] /\ do'[t] = new /\ \A u \in Threads \ {t} : do'[u] = do[u]
  BY <1>2, <1>4 DEF CallInv
<1> QED BY <1>3, <1>5 DEF new

LEMMA GoOnCall ==
    ASSUME CallInv, NEW t \in Threads, NEW place \in CallPlaces, GoOn(t, place)
    PROVE  /\ do' \in [Threads -> Calls]
           /\ do'[t].at = place /\ do'[t].early = do[t].early
           /\ \A u \in Threads \ {t} : do'[u] = do[u]
<1>1. do' = [do EXCEPT ![t] = [do[t] EXCEPT !.at = place]] /\ do[t] \in Calls
  BY DEF GoOn, CallInv
<1>2. /\ [do[t] EXCEPT !.at = place] \in Calls
      /\ [do[t] EXCEPT !.at = place].at = place
      /\ [do[t] EXCEPT !.at = place].early = do[t].early
  BY <1>1 DEF Calls
<1> QED BY <1>1, <1>2 DEF CallInv

\* A call that goes astray was begun before the stop was over.
LEMMA StrayCall ==
    ASSUME CallInv, NEW t \in Threads, do[t].at \in {"open", "store", "queue", "ask"}, Stray(t)
    PROVE  /\ CallInv'
           /\ UNCHANGED <<callback, context, registered, loop, pump, gl, do>>
<1>1. do[t].early
  BY DEF CallInv
<1>2. crash' = "overlapped"
  BY <1>1 DEF Stray, Crash
<1>3. UNCHANGED <<known, do, plat>>
  BY DEF Stray, Crash
<1>4. UNCHANGED <<callback, context, registered, loop, pump, gl, do>>
  BY DEF Stray, Crash, soundVars, frameVars
<1> QED BY <1>2, <1>3, <1>4 DEF CallInv

\* What a sound call changes of what the pump looks at: nothing.
Apart(t) ==
    /\ UNCHANGED <<callback, context, registered, loop, pump, gl>>
    /\ do[t].at \notin Registering /\ do'[t].at \notin Registering
    /\ \A u \in Threads \ {t} : do'[u] = do[u]

LEMMA QueueCheckStep ==
    ASSUME CallInv, NEW t \in Threads, QueueCheck(t),
           UNCHANGED <<known, plat, crash>>
    PROVE  CallInv' /\ do'[t].at \in {"idle", "done", "refused", "queue"}
           /\ \A u \in Threads \ {t} : do'[u] = do[u]
<1>1. CASE known.device = NoDevice
  <2>1. End(t, FALSE)
    BY <1>1 DEF QueueCheck
  <2> QED BY <2>1, EndCall DEF CallInv
<1>2. CASE known.device # NoDevice
  <2>1. Begin(t, "queue") /\ plat # "stopped"
    BY <1>2 DEF QueueCheck, CallInv, Cleared
  <2>2. "queue" \in CallPlaces
    BY DEF CallPlaces
  <2> QED BY <2>1, <2>2, BeginCall DEF CallInv
<1> QED BY <1>1, <1>2

LEMMA StartAudioStep ==
    ASSUME CallInv, NEW t \in Threads, StartAudio(t),
           UNCHANGED <<known, plat, crash>>
    PROVE  CallInv' /\ do'[t].at \in {"idle", "done", "refused", "open"}
           /\ \A u \in Threads \ {t} : do'[u] = do[u]
<1>1. CASE ~known.started
  <2>1. End(t, FALSE)
    BY <1>1 DEF StartAudio
  <2> QED BY <2>1, EndCall DEF CallInv
<1>2. CASE known.started /\ known.device # NoDevice
  <2>1. End(t, TRUE)
    BY <1>2 DEF StartAudio
  <2> QED BY <2>1, EndCall DEF CallInv
<1>3. CASE known.started /\ known.device = NoDevice
  <2>1. Begin(t, "open") /\ plat # "stopped"
    BY <1>3 DEF StartAudio, CallInv, Cleared
  <2>2. "open" \in CallPlaces
    BY DEF CallPlaces
  <2> QED BY <2>1, <2>2, BeginCall DEF CallInv
<1> QED BY <1>1, <1>2, <1>3

LEMMA QueueSamplesStep ==
    ASSUME CallInv, NEW t \in Threads, NEW bytes, NEW next \in {"size", "done"},
           do[t].at = "queue", QueueSamples(t, bytes, next)
    PROVE  CallInv' /\ Apart(t)
<1>1. CASE "library" \notin held
  BY <1>1, StrayCall DEF QueueSamples, Apart, Registering
<1>2. CASE "library" \in held
  <2>1. UNCHANGED <<known, plat, crash, callback, context, registered, loop, pump, gl>>
    BY <1>2 DEF QueueSamples, restVars, frameVars
  <2>2. End(t, TRUE) \/ End(t, FALSE) \/ GoOn(t, "size")
    BY <1>2 DEF QueueSamples
  <2>3. "size" \in CallPlaces
    BY DEF CallPlaces
  <2>4. CASE GoOn(t, "size")
    <3>1. /\ do' \in [Threads -> Calls] /\ do'[t].at = "size"
          /\ \A u \in Threads \ {t} : do'[u] = do[u]
      BY <2>3, <2>4, GoOnCall
    <3> QED BY <2>1, <3>1 DEF CallInv, Apart, Registering
  <2>5. CASE End(t, TRUE) \/ End(t, FALSE)
    <3>1. /\ do' \in [Threads -> Calls] /\ do'[t].at \in {"idle", "done", "refused"}
          /\ \A u \in Threads \ {t} : do'[u] = do[u]
      BY <2>5, EndCall
    <3> QED BY <2>1, <3>1 DEF CallInv, Apart, Registering
  <2> QED BY <2>2, <2>4, <2>5
<1> QED BY <1>1, <1>2

\* The steps inside audio_start, audio_queue and queue_enqueue.
LEMMA CallSteps ==
    ASSUME CallInv, PInv, NEW t \in Threads,
           OpenDevice(t) \/ StoreDevice(t) \/ EnqueueSamples(t) \/ EnqueueSize(t)
    PROVE  CallInv' /\ Apart(t)
<1>1. CASE OpenDevice(t)
  <2>1. do[t].at = "open"
    BY <1>1 DEF OpenDevice, At
  <2>2. CASE "library" \notin held
    BY <1>1, <2>1, <2>2, StrayCall DEF OpenDevice, Apart, Registering
  <2>3. CASE "library" \in held
    <3>1. PICK d \in Devices \cup {NoDevice} :
              /\ do' = [do EXCEPT ![t] = [at |-> "store", device |-> d, early |-> @.early]]
              /\ UNCHANGED <<known, plat, crash, callback, context, registered, loop, pump, gl>>
      BY <1>1, <2>3 DEF OpenDevice, restVars, frameVars
    <3>2. do[t] \in Calls
      BY DEF CallInv
    <3>3. do' = [do EXCEPT ![t] = [at |-> "store", device |-> d, early |-> do[t].early]]
      BY <3>1, <3>2 DEF Calls, CallInv
    <3>4. [at |-> "store", device |-> d, early |-> do[t].early] \in Calls
      BY <3>2 DEF Calls, CallPlaces
    <3>5. /\ do' \in [Threads -> Calls]
          /\ do'[t] = [at |-> "store", device |-> d, early |-> do[t].early]
          /\ \A u \in Threads \ {t} : do'[u] = do[u]
      BY <3>3, <3>4 DEF CallInv
    <3>6. do'[t].at = "store" /\ do'[t].early
      BY <2>1, <3>5 DEF CallInv
    <3> QED BY <2>1, <3>1, <3>5, <3>6 DEF CallInv, Apart, Registering
  <2> QED BY <2>2, <2>3
<1>2. CASE StoreDevice(t)
  <2>1. do[t].at = "store"
    BY <1>2 DEF StoreDevice, At
  <2>2. CASE "library" \notin held /\ ~(do[t].device = NoDevice /\ plat = "stopped")
    BY <1>2, <2>1, <2>2, StrayCall DEF StoreDevice, Apart, Registering
  <2>3. CASE ~("library" \notin held /\ ~(do[t].device = NoDevice /\ plat = "stopped"))
    <3>1. /\ known' = [known EXCEPT !.device = do[t].device]
          /\ End(t, do[t].device # NoDevice)
          /\ UNCHANGED <<plat, crash, callback, context, registered, loop, pump, gl>>
      BY <1>2, <2>3 DEF StoreDevice, restVars, frameVars
    <3>2. (do[t].device # NoDevice) \in BOOLEAN
      OBVIOUS
    <3>3. /\ do' \in [Threads -> Calls] /\ do'[t].at \in {"idle", "done", "refused"}
          /\ \A u \in Threads \ {t} : do'[u] = do[u]
      BY <3>1, <3>2, EndCall
    <3>4. do[t].device \in Devices \cup {NoDevice}
      BY DEF CallInv, Calls
    <3>5. known' \in [started : BOOLEAN, device : Devices \cup {NoDevice}]
      BY <3>1, <3>4 DEF CallInv
    <3>6. ASSUME plat' = "stopped" PROVE known' = Cleared
      <4>1. plat = "stopped" /\ "library" \notin held
        BY <3>1, <3>6 DEF PInv, HeldInv
      <4>2. do[t].device = NoDevice /\ known = Cleared
        BY <2>3, <4>1 DEF CallInv
      <4> QED BY <3>1, <4>2 DEF Cleared
    <3> QED BY <2>1, <3>1, <3>3, <3>5, <3>6 DEF CallInv, Apart, Registering
  <2> QED BY <2>2, <2>3
<1>3. CASE EnqueueSamples(t)
  BY <1>3, QueueSamplesStep DEF EnqueueSamples, At
<1>4. CASE EnqueueSize(t)
  <2>1. /\ do[t].at = "size" /\ End(t, TRUE)
        /\ UNCHANGED <<known, plat, crash, callback, context, registered, loop, pump, gl>>
    BY <1>4 DEF EnqueueSize, At, restVars, frameVars
  <2>2. /\ do' \in [Threads -> Calls] /\ do'[t].at \in {"idle", "done", "refused"}
        /\ \A u \in Threads \ {t} : do'[u] = do[u]
    BY <2>1, EndCall
  <2> QED BY <2>1, <2>2 DEF CallInv, Apart, Registering
<1> QED BY <1>1, <1>2, <1>3, <1>4

\* Such a step leaves the pump alone.
LEMMA ApartKeepsPump ==
    ASSUME PumpInv, NEW t \in Threads, Apart(t)
    PROVE  PumpInv'
<1>1. /\ do'[Owner].at \in Registering <=> do[Owner].at \in Registering
      /\ do[Owner].at \notin {"context", "drop context"}
            \/ do'[Owner] = do[Owner]
      /\ do'[Owner].at = "drop context" => do'[Owner] = do[Owner]
  BY OwnerThread DEF Apart, Registering
<1> QED BY <1>1 DEF Apart, PumpInv

\* Creating a player, queueing and asking are such calls, too.
LEMMA OwnCalls ==
    ASSUME SInv,
           CreatePlayer \/ \E t \in Guests : Enqueue(t) \/ AskQueued(t) \/ AnswerQueued(t)
    PROVE  SInv'
<1>1. CASE CreatePlayer
  <2>1. /\ do[Owner].at = "idle" /\ StartAudio(Owner)
        /\ UNCHANGED <<known, plat, crash, callback, context, registered, loop, pump, gl>>
    BY <1>1 DEF CreatePlayer, At, restVars, frameVars
  <2>2. CallInv' /\ Apart(Owner)
    BY <2>1, OwnerThread, StartAudioStep DEF SInv, Apart, Registering
  <2> QED BY <2>2, OwnerThread, ApartKeepsPump DEF SInv
<1>2. ASSUME NEW t \in Guests, Enqueue(t) PROVE SInv'
  <2>1. /\ do[t].at = "idle" /\ QueueCheck(t)
        /\ UNCHANGED <<known, plat, crash, callback, context, registered, loop, pump, gl>>
    BY <1>2 DEF Enqueue, At, restVars, frameVars
  <2>2. t \in Threads
    BY OwnerThread
  <2>3. CallInv' /\ Apart(t)
    BY <2>1, <2>2, QueueCheckStep DEF SInv, Apart, Registering
  <2> QED BY <2>2, <2>3, ApartKeepsPump DEF SInv
<1>3. ASSUME NEW t \in Guests, AskQueued(t) PROVE SInv'
  <2>1. /\ do[t].at = "idle" /\ known.device # NoDevice /\ Begin(t, "ask")
        /\ UNCHANGED <<known, plat, crash, callback, context, registered, loop, pump, gl>>
    BY <1>3 DEF AskQueued, At, restVars, frameVars, soundVars
  <2>2. t \in Threads /\ "ask" \in CallPlaces /\ CallInv
    BY OwnerThread DEF CallPlaces, SInv
  <2>3. plat # "stopped"
    BY <2>1, <2>2 DEF CallInv, Cleared
  <2>4. /\ do' \in [Threads -> Calls] /\ do'[t].at = "ask" /\ do'[t].early
        /\ \A u \in Threads \ {t} : do'[u] = do[u]
    BY <2>1, <2>2, <2>3, BeginCall
  <2>5. CallInv' /\ Apart(t)
    BY <2>1, <2>2, <2>4 DEF CallInv, Apart, Registering
  <2> QED BY <2>2, <2>5, ApartKeepsPump DEF SInv
<1>4. ASSUME NEW t \in Guests, AnswerQueued(t) PROVE SInv'
  <2>1. t \in Threads /\ CallInv /\ do[t].at = "ask"
    BY <1>4, OwnerThread DEF SInv, AnswerQueued, At
  <2>2. CASE Stray(t)
    <3>1. CallInv' /\ Apart(t)
      BY <2>1, <2>2, StrayCall DEF Apart, Registering
    <3> QED BY <2>1, <3>1, ApartKeepsPump DEF SInv
  <2>3. CASE End(t, TRUE) /\ UNCHANGED <<restVars, open, known, frameVars, soundVars, crash>>
    <3>1. UNCHANGED <<known, plat, crash, callback, context, registered, loop, pump, gl>>
      BY <2>3 DEF restVars, frameVars, soundVars
    <3>2. /\ do' \in [Threads -> Calls] /\ do'[t].at \in {"idle", "done", "refused"}
          /\ \A u \in Threads \ {t} : do'[u] = do[u]
      BY <2>1, <2>3, EndCall
    <3>3. CallInv' /\ Apart(t)
      BY <2>1, <3>1, <3>2 DEF CallInv, Apart, Registering
    <3> QED BY <2>1, <3>3, ApartKeepsPump DEF SInv
  <2> QED BY <1>4, <2>2, <2>3 DEF AnswerQueued
<1> QED BY <1>1, <1>2, <1>3, <1>4

\* Registering and destroying leave their mark on a pump they overlap.
LEMMA OwnerSteps ==
    ASSUME SInv, (\E c \in Clients : Register(c)) \/ RegisterContext \/ DestroyPlayer \/ DestroyRest
    PROVE  SInv'
<1> USE OwnerThread DEF SInv
<1>1. /\ UNCHANGED <<known, plat, crash, loop>>
      /\ pump' = [pump EXCEPT !.touched = @ \/ loop \in Pumping]
  BY DEF Register, RegisterContext, DestroyPlayer, DestroyRest, Touched, Pumping, restVars
<1>2. pump' \in Pumps
  BY <1>1 DEF PumpInv, Pumps
<1>3. loop' \in Pumping => pump'.touched
  BY <1>1 DEF PumpInv, Pumps
<1>4. loop' = "called" => pump'.left = {}
  BY <1>1 DEF PumpInv, Pumps
<1>5. ASSUME NEW c \in Clients, Register(c) PROVE SInv'
  <2>1. Begin(Owner, "context") /\ callback' = c /\ registered' = c /\ context' = context
    BY <1>5 DEF Register
  <2>2. "context" \in CallPlaces
    BY DEF CallPlaces
  <2>3. /\ do' \in [Threads -> Calls] /\ do'[Owner].at = "context"
        /\ \A u \in Threads \ {Owner} : do'[u] = do[u]
    BY <2>1, <2>2, BeginCall
  <2> QED BY <1>1, <1>2, <1>3, <1>4, <2>1, <2>3 DEF CallInv, PumpInv
<1>6. CASE RegisterContext
  <2>1. End(Owner, TRUE) /\ callback' = callback /\ registered' = registered /\ context' = registered
    BY <1>6 DEF RegisterContext
  <2>3. /\ do' \in [Threads -> Calls] /\ do'[Owner].at \in {"idle", "done", "refused"}
        /\ \A u \in Threads \ {Owner} : do'[u] = do[u]
    BY <2>1, EndCall
  <2> QED BY <1>1, <1>2, <1>3, <1>4, <2>1, <2>3 DEF CallInv, PumpInv
<1>7. CASE DestroyPlayer
  <2>1. Begin(Owner, "drop context") /\ callback' = Null /\ registered' = Null /\ context' = context
    BY <1>7 DEF DestroyPlayer
  <2>2. "drop context" \in CallPlaces
    BY DEF CallPlaces
  <2>3. /\ do' \in [Threads -> Calls] /\ do'[Owner].at = "drop context"
        /\ \A u \in Threads \ {Owner} : do'[u] = do[u]
    BY <2>1, <2>2, BeginCall
  <2> QED BY <1>1, <1>2, <1>3, <1>4, <2>1, <2>3 DEF CallInv, PumpInv
<1>8. CASE DestroyRest
  <2>1. /\ callback' = callback /\ registered' = registered
        /\ \/ do[Owner].at = "drop context" /\ context' = Null /\ GoOn(Owner, "drop size")
           \/ do[Owner].at = "drop size" /\ End(Owner, TRUE) /\ context' = context
    BY <1>8 DEF DestroyRest, At
  <2>2. "drop size" \in CallPlaces
    BY DEF CallPlaces
  <2>3. /\ do' \in [Threads -> Calls]
        /\ do'[Owner].at \in {"idle", "done", "refused", "drop size"}
        /\ \A u \in Threads \ {Owner} : do'[u] = do[u]
    BY <2>1, <2>2, EndCall, GoOnCall
  <2> QED BY <1>1, <1>2, <1>3, <1>4, <2>1, <2>3 DEF CallInv, PumpInv
<1> QED BY <1>5, <1>6, <1>7, <1>8

\* Outside the pump nothing is asked of what it has read.
LEMMA PumpAway ==
    ASSUME PumpInv, UNCHANGED <<callback, context, registered>>, do'[Owner] = do[Owner],
           loop' \notin Pumping, pump' \in Pumps
    PROVE  PumpInv'
  BY DEF PumpInv, Pumping

LEMMA MainAnswered ==
    ASSUME CallInv, do' = [do EXCEPT ![Main] = Idle], UNCHANGED <<known, plat, crash>>
    PROVE  CallInv' /\ do'[Owner] = do[Owner]
<1>1. Idle \in Calls /\ Idle.at = "idle"
  BY DEF Idle, Calls, CallPlaces
<1> QED BY <1>1, OwnerThread DEF CallInv

LEMMA UnreadPump == Unread \in Pumps /\ Null \in Clients \cup {Null}
  BY DEF Unread, Pumps

\* The frame loop outside the pump.
LEMMA FrameSteps ==
    ASSUME SInv,
           EnterLoop \/ Tick \/ FmodStarts \/ FmodAnswered \/ Mixer \/ FmodQueue \/ Present
    PROVE  SInv'
<1> USE OwnerThread, UnreadPump DEF SInv
<1>0. pump \in Pumps
  BY DEF PumpInv
<1>1. CASE EnterLoop \/ Tick \/ Present
  <2>1. /\ UNCHANGED <<known, plat, crash, do, callback, context, registered>>
        /\ pump' \in Pumps /\ loop' \notin Pumping
    BY <1>0, <1>1 DEF EnterLoop, Tick, Present, Frame, restVars, soundVars, Pumping
  <2>2. CallInv'
    BY <2>1 DEF CallInv
  <2> QED BY <2>1, <2>2, PumpAway
<1>2. CASE FmodStarts
  <2>1. /\ UNCHANGED <<known, plat, crash, callback, context, registered>>
        /\ pump' = pump /\ loop' \notin Pumping /\ StartAudio(Main)
    BY <1>2 DEF FmodStarts, Frame, restVars, soundVars, Pumping
  <2>2. CallInv' /\ do'[Owner] = do[Owner]
    BY <2>1, StartAudioStep
  <2> QED BY <1>0, <2>1, <2>2, PumpAway
<1>3. CASE FmodAnswered
  <2>1. /\ UNCHANGED <<known, plat, crash, callback, context, registered>>
        /\ pump' = pump /\ loop' \notin Pumping /\ do' = [do EXCEPT ![Main] = Idle]
    BY <1>3 DEF FmodAnswered, Frame, restVars, soundVars, Pumping
  <2>2. CallInv' /\ do'[Owner] = do[Owner]
    BY <2>1, MainAnswered
  <2> QED BY <1>0, <2>1, <2>2, PumpAway
<1>4. CASE Mixer
  <2>1. /\ UNCHANGED <<known, plat, crash, callback, context, registered>>
        /\ pump' = pump /\ loop' \notin Pumping
    BY <1>4 DEF Mixer, Frame, restVars, soundVars, Pumping
  <2>2. UNCHANGED do \/ QueueCheck(Main)
    BY <1>4 DEF Mixer
  <2>3. CallInv' /\ do'[Owner] = do[Owner]
    <3>1. CASE UNCHANGED do
      BY <2>1, <3>1 DEF CallInv
    <3>2. CASE QueueCheck(Main)
      BY <2>1, <3>2, QueueCheckStep
    <3> QED BY <2>2, <3>1, <3>2
  <2> QED BY <1>0, <2>1, <2>3, PumpAway
<1>5. CASE FmodQueue
  <2>1. do[Main].at = "queue" /\ QueueSamples(Main, FmodBytes, "done")
    BY <1>5 DEF FmodQueue, At
  <2>2. CallInv' /\ Apart(Main)
    BY <2>1, QueueSamplesStep
  <2> QED BY <2>2, ApartKeepsPump
<1> QED BY <1>1, <1>2, <1>3, <1>4, <1>5

\* The pump: what it has read is what is registered.
LEMMA PumpSteps ==
    ASSUME SInv,
           PumpCheck \/ PumpLevel \/ PumpLoad \/ PumpCall \/ CallbackEnqueues \/ PumpReturns
    PROVE  SInv'
<1> USE OwnerThread, UnreadPump DEF SInv
<1>0. pump \in Pumps
  BY DEF PumpInv
<1>1. CASE PumpCheck
  <2> DEFINE disturbed == do[Owner].at \in Registering
  <2>1. /\ UNCHANGED <<known, plat, crash, do, callback, context, registered>>
        /\ loop' \in Pumping => callback # Null
        /\ loop' # "called"
        /\ pump' = [Unread EXCEPT !.left = {"callback", "context"}, !.touched = disturbed]
    BY <1>1 DEF PumpCheck, Frame, restVars, soundVars, Pumping, Registering
  <2>2. pump' = [callback |-> Null, context |-> Null, left |-> {"callback", "context"},
                 touched |-> disturbed]
    BY <2>1 DEF Unread
  <2>3. disturbed \in BOOLEAN
    OBVIOUS
  <2>4. pump' \in Pumps /\ pump'.left = {"callback", "context"} /\ pump'.touched = disturbed
    BY <2>2, <2>3 DEF Pumps
  <2>5. CallInv'
    BY <2>1 DEF CallInv
  <2>6. PumpInv'
    BY <2>1, <2>4 DEF PumpInv
  <2> QED BY <2>5, <2>6
<1>2. CASE PumpLevel
  <2>1. /\ UNCHANGED <<known, plat, crash, do, callback, context, registered, pump>>
        /\ loop = "level" /\ loop' \in {"load", "present"}
    BY <1>2 DEF PumpLevel, Frame, restVars, soundVars
  <2> QED BY <2>1 DEF CallInv, PumpInv, Pumping
<1>3. CASE PumpLoad
  <2>1. /\ UNCHANGED <<known, plat, crash, do, callback, context, registered, loop>>
        /\ loop = "load"
    BY <1>3 DEF PumpLoad, Frame, restVars, soundVars
  <2>2. CallInv'
    BY <2>1 DEF CallInv
  <2>3. CASE pump' = [pump EXCEPT !.callback = callback, !.left = @ \ {"callback"}]
    <3>1. pump' = [callback |-> callback, context |-> pump.context,
                   left |-> pump.left \ {"callback"}, touched |-> pump.touched]
      BY <1>0, <2>3 DEF Pumps
    <3> QED BY <1>0, <2>1, <2>2, <3>1 DEF PumpInv, Pumping, Pumps
  <2>4. CASE pump' = [pump EXCEPT !.context = context, !.left = @ \ {"context"}]
    <3>1. pump' = [callback |-> pump.callback, context |-> context,
                   left |-> pump.left \ {"context"}, touched |-> pump.touched]
      BY <1>0, <2>4 DEF Pumps
    <3> QED BY <1>0, <2>1, <2>2, <3>1 DEF PumpInv, Pumping, Pumps
  <2> QED BY <1>3, <2>3, <2>4 DEF PumpLoad
<1>4. CASE PumpCall
  <2>1. loop = "load" /\ pump.left = {}
    BY <1>4 DEF PumpCall
  <2>2. pump.callback = Null => pump.touched
    BY <1>0, <2>1 DEF PumpInv, Pumping, Pumps
  <2>3. UNCHANGED <<known, plat, do, callback, context, registered, pump>>
    BY <1>4 DEF PumpCall, Crash, Frame, restVars, soundVars, frameVars
  <2>4. crash' # "unexplained" /\ loop' \in {"load", "called"}
    BY <1>4, <2>1, <2>2 DEF PumpCall, Crash, Frame, frameVars, CallInv
  <2>5. CallInv'
    BY <2>3, <2>4 DEF CallInv
  <2>6. PumpInv'
    BY <2>1, <2>3, <2>4 DEF PumpInv, Pumping
  <2> QED BY <2>5, <2>6
<1>5. CASE CallbackEnqueues
  <2>1. /\ UNCHANGED <<known, plat, crash, callback, context, registered, pump, loop, gl>>
        /\ QueueCheck(Main) /\ do[Main].at = "idle"
    BY <1>5 DEF CallbackEnqueues, Frame, At, restVars, soundVars
  <2>2. CallInv' /\ Apart(Main)
    BY <2>1, QueueCheckStep DEF Apart, Registering
  <2> QED BY <2>2, ApartKeepsPump
<1>6. CASE PumpReturns
  <2>1. /\ UNCHANGED <<known, plat, crash, callback, context, registered>>
        /\ pump' = Unread /\ loop' \notin Pumping /\ do' = [do EXCEPT ![Main] = Idle]
    BY <1>6 DEF PumpReturns, Frame, restVars, soundVars, Pumping
  <2>2. CallInv' /\ do'[Owner] = do[Owner]
    BY <2>1, MainAnswered
  <2> QED BY <2>1, <2>2, PumpAway
<1> QED BY <1>1, <1>2, <1>3, <1>4, <1>5, <1>6

\* The platform's own steps: the structure is cleared as the stop ends.
LEMMA PlatformKeepsSound ==
    ASSUME SInv, PlatformStep
    PROVE  SInv'
<1>1. UNCHANGED <<do, crash, callback, context, registered, loop, pump>>
  BY DEF PlatformStep
<1>2. known' = known \/ known' = Cleared \/ known' = [known EXCEPT !.started = TRUE]
  BY DEF PlatformStep, Probe, ProbeOpen, ProbeInit, ProbeWindow, ProbeContext, ProbeGl,
     ProbeUnwind, ProbeController, ProbeAudio, ProbeQueue, ProbeQuit, Start, StartOpen,
     StartInit, StartWindow, StartContext, StartController, Acquire, Stop, StopAudio,
     StopVideo, StopQuit, StopClose, StopClear, To
<1>3. plat' = "stopped" => known' = Cleared
  BY DEF PlatformStep, Probe, ProbeOpen, ProbeInit, ProbeWindow, ProbeContext, ProbeGl,
     ProbeUnwind, ProbeController, ProbeAudio, ProbeQueue, ProbeQuit, Start, StartOpen,
     StartInit, StartWindow, StartContext, StartController, Acquire, Stop, StopAudio,
     StopVideo, StopQuit, StopClose, StopClear, To
<1>4. known' \in [started : BOOLEAN, device : Devices \cup {NoDevice}]
  <2>1. known \in [started : BOOLEAN, device : Devices \cup {NoDevice}]
    BY DEF SInv, CallInv
  <2>2. [known EXCEPT !.started = TRUE] \in [started : BOOLEAN, device : Devices \cup {NoDevice}]
    BY <2>1
  <2>3. Cleared \in [started : BOOLEAN, device : Devices \cup {NoDevice}]
    BY DEF Cleared
  <2> QED BY <1>2, <2>1, <2>2, <2>3
<1>5. CallInv'
  BY <1>1, <1>3, <1>4 DEF SInv, CallInv
<1>6. PumpInv'
  BY <1>1 DEF SInv, PumpInv
<1> QED BY <1>5, <1>6 DEF SInv

LEMMA SoundInvariant == PInv /\ SInv /\ [SessionNext]_sessionVars => SInv'
<1> SUFFICES ASSUME PInv, SInv, [SessionNext]_sessionVars PROVE SInv'
  OBVIOUS
<1>1. CASE UNCHANGED <<platformVars, audioVars>>
  BY <1>1 DEF SInv, CallInv, PumpInv, platformVars, audioVars
<1>2. CASE PlatformStep
  BY <1>2, PlatformKeepsSound
<1>3. ASSUME NEW t \in Threads,
             OpenDevice(t) \/ StoreDevice(t) \/ EnqueueSamples(t) \/ EnqueueSize(t)
      PROVE  SInv'
  BY <1>3, CallSteps, ApartKeepsPump DEF SInv
<1>4. CASE FrameLoop
  BY <1>3, <1>4, FrameSteps, PumpSteps, OwnerThread DEF FrameLoop
<1>5. CASE GuestSound
  BY <1>3, <1>5, OwnCalls, OwnerSteps, OwnerThread DEF GuestSound
<1>6. CASE Drain
  BY <1>6 DEF Drain, SInv, CallInv, PumpInv, restVars, frameVars
<1> QED BY <1>1, <1>2, <1>4, <1>5, <1>6 DEF SessionNext, MainStep, SoundStep, sessionVars

THEOREM SoundSafe == SessionSpec => []SInv
<1>1. SessionInit => SInv
  <2> SUFFICES ASSUME SessionInit PROVE SInv
    OBVIOUS
  <2>1. Idle \in Calls /\ Idle.at = "idle"
    BY DEF Idle, Calls, CallPlaces
  <2>2. known \in [started : BOOLEAN, device : Devices \cup {NoDevice}]
    BY DEF SessionInit, PlatformInit, Cleared
  <2>3. CallInv
    BY <2>1, <2>2 DEF SessionInit, AudioInit, PlatformInit, CallInv
  <2>4. PumpInv
    BY <2>1, UnreadPump, OwnerThread DEF SessionInit, AudioInit, PumpInv, Pumping
  <2> QED BY <2>3, <2>4 DEF SInv
<1> QED BY <1>1, SoundInvariant, PlatformSafe, PTL DEF SessionSpec

\* A sound call goes into nothing only when it overlaps the stop of the
\* runtime, or the guest's own change of the player.
THEOREM CrashExplained == SessionSpec => []CrashOnlyOverlapped
<1>1. SInv => CrashOnlyOverlapped
  BY DEF SInv, CallInv, CrashOnlyOverlapped
<1> QED BY <1>1, SoundSafe, PTL

\* The pump calls the client that is registered, with its own context.
THEOREM ClientCalled == SessionSpec => []CallsItsClient
<1>1. SInv => CallsItsClient
  <2> SUFFICES ASSUME SInv, loop = "called", ~pump.touched
               PROVE  pump.callback = registered /\ pump.context = registered
    BY DEF CallsItsClient
  <2> QED BY DEF SInv, PumpInv, Pumping, Registering
<1> QED BY <1>1, SoundSafe, PTL
-----------------------------------------------------------------------------
(* What is queued on the device.                                           *)

\* The stages before the guest's threads exist.
QuietStages ==
    {"map", "census", "preflight", "relocate", "retain", "patch", "choose", "construct",
     "jni-open", "jni-start"}
PlayStages == {"jni-load", "game"}

\* Guest threads about to queue a buffer that primed has counted, and how
\* many buffers are past that.
Waiting == {t \in Guests : do[t].at = "queue"}
Entered == primed - Cardinality(Waiting)
Holds(t) == do[t].at = "store" /\ do[t].device # NoDevice

\* While the game runs the known device is open, and each device that is
\* about to be stored is another, open and empty.
DeviceInv ==
    /\ open \subseteq Devices
    /\ stage \in QuietStages =>
          loop = "enter" /\ known.device = NoDevice /\ \A t \in Threads : do[t].at = "idle"
    /\ stage = "jni-load" => loop = "enter"
    /\ stage \in PlayStages =>
          /\ known.device # NoDevice => known.device \in open
          /\ \A t \in Threads : Holds(t) =>
                /\ do[t].device \in open /\ do[t].device # known.device
                /\ level[do[t].device] = 0
                /\ \A u \in Threads : Holds(u) /\ do[u].device = do[t].device => u = t

\* No device has more queued than the pulls and the guest threads allow.
LevelInv ==
    /\ level \in [Devices -> Nat] /\ size \in {0, BufferBytes} /\ primed \in Nat
    /\ IsFiniteSet(Waiting) /\ Entered \in Nat
    /\ \A d \in Devices :
          \/ level[d] <= 3 * FmodBytes + Entered * BufferBytes
          \/ level[d] <= 2 * BufferBytes + Entered * BufferBytes

\* What the main thread looked at still holds when it queues, but for what
\* guest threads have queued on their own account meanwhile.
Pulling == loop = "load" \/ (loop = "called" /\ do[Main].at \in {"idle", "queue"})
Mixing == loop = "fmod queue" /\ do[Main].at = "queue"
AllowedInv ==
    stage = "game" =>
        /\ Mixing => Queued <= 2 * FmodBytes + Entered * BufferBytes
        /\ Pulling => Queued <= BufferBytes + Entered * BufferBytes

LInv == DeviceInv /\ LevelInv /\ AllowedInv

\* What holds of the level with so many buffers past their threads holds
\* with more, and one more buffer is one more that has passed.
LEMMA OneBufferMore ==
    ASSUME NEW l \in Nat, NEW k \in Nat, NEW e \in Nat, l <= k + e * BufferBytes
    PROVE  l <= k + (e + 1) * BufferBytes /\ l + BufferBytes <= k + (e + 1) * BufferBytes
<1>1. BufferBytes \in Nat
  BY AudioAssumption
<1>2. (e + 1) * BufferBytes = e * BufferBytes + BufferBytes
  BY <1>1
<1> QED BY <1>1, <1>2

LEMMA BytesNat ==
    /\ FmodBytes \in Nat /\ BufferBytes \in Nat
    /\ \A e \in Nat : e * BufferBytes \in Nat
  BY AudioAssumption

\* Threads that do not come to wait or cease to change nothing.
LEMMA WaitingSame ==
    ASSUME LevelInv, primed' = primed,
           \A u \in Guests : do'[u].at = "queue" <=> do[u].at = "queue"
    PROVE  Waiting' = Waiting /\ IsFiniteSet(Waiting)' /\ Entered' = Entered
<1>1. Waiting' = Waiting
  BY DEF Waiting
<1> QED BY <1>1 DEF LevelInv, Entered

\* A thread begins to wait as its buffer is counted.
LEMMA WaitingBegun ==
    ASSUME LevelInv, NEW t \in Guests, primed' = primed + 1,
           do[t].at # "queue", do'[t].at = "queue",
           \A u \in Guests \ {t} : do'[u] = do[u]
    PROVE  IsFiniteSet(Waiting)' /\ Entered' = Entered
<1>1. Waiting' = Waiting \cup {t} /\ t \notin Waiting
  BY DEF Waiting
<1>2. IsFiniteSet(Waiting) /\ primed \in Nat
  BY DEF LevelInv
<1>3. IsFiniteSet(Waiting') /\ Cardinality(Waiting') = Cardinality(Waiting) + 1 /\ Cardinality(Waiting) \in Nat
  BY <1>1, <1>2, FS_AddElement, FS_CardinalityType
<1> QED BY <1>2, <1>3 DEF Entered

\* Its buffer is refused at once.
LEMMA WaitingRefused ==
    ASSUME LevelInv, NEW t \in Guests, primed' = primed + 1,
           do[t].at # "queue", do'[t].at # "queue",
           \A u \in Guests \ {t} : do'[u] = do[u]
    PROVE  IsFiniteSet(Waiting)' /\ Entered' = Entered + 1
<1>1. Waiting' = Waiting
  BY DEF Waiting
<1>2. IsFiniteSet(Waiting) /\ primed \in Nat /\ Cardinality(Waiting) \in Nat
  BY FS_CardinalityType DEF LevelInv
<1> QED BY <1>1, <1>2 DEF Entered

\* A thread has queued its buffer, or failed to.
LEMMA WaitingOver ==
    ASSUME LevelInv, NEW t \in Guests, primed' = primed,
           do[t].at = "queue", do'[t].at # "queue",
           \A u \in Guests \ {t} : do'[u] = do[u]
    PROVE  IsFiniteSet(Waiting)' /\ Entered' = Entered + 1
<1>1. Waiting' = Waiting \ {t} /\ t \in Waiting
  BY DEF Waiting
<1>2. IsFiniteSet(Waiting) /\ primed \in Nat
  BY DEF LevelInv
<1>3. IsFiniteSet(Waiting') /\ Cardinality(Waiting') = Cardinality(Waiting) - 1 /\ Cardinality(Waiting) \in Nat
  BY <1>1, <1>2, FS_RemoveElement, FS_CardinalityType
<1> QED BY <1>2, <1>3 DEF Entered

LEMMA QueuedNat ==
    ASSUME DeviceInv, LevelInv PROVE Queued \in Nat
  BY DEF DeviceInv, LevelInv, Queued

\* Devices and levels stay as they are when a call of t goes on, but not to
\* storing a device.
LEMMA DeviceKept ==
    ASSUME DeviceInv, CallInv, NEW t \in Threads, stage \notin QuietStages,
           UNCHANGED <<stage, open, known, level>>, stage = "jni-load" => loop' = "enter",
           do'[t].at # "store" \/ do'[t] = do[t], \A u \in Threads \ {t} : do'[u] = do[u]
    PROVE  DeviceInv'
<1>1. \A u \in Threads : Holds(u)' => Holds(u) /\ do'[u] = do[u]
  BY DEF Holds
<1> QED BY <1>1 DEF DeviceInv, PlayStages

\* As levels fall, and buffers are refused or queued elsewhere, the bounds
\* stay.
LEMMA LevelsFall ==
    ASSUME LevelInv, level' \in [Devices -> Nat], \A d \in Devices : level'[d] <= level[d],
           size' \in {0, BufferBytes}, primed' \in Nat, IsFiniteSet(Waiting)',
           Entered' \in {Entered, Entered + 1}
    PROVE  LevelInv'
<1>1. Entered \in Nat /\ Entered' \in Nat
  BY DEF LevelInv
<1>2. ASSUME NEW d \in Devices
      PROVE  \/ level'[d] <= 3 * FmodBytes + Entered' * BufferBytes
             \/ level'[d] <= 2 * BufferBytes + Entered' * BufferBytes
  <2>1. /\ level[d] \in Nat /\ level'[d] \in Nat /\ level'[d] <= level[d]
        /\ \/ level[d] <= 3 * FmodBytes + Entered * BufferBytes
           \/ level[d] <= 2 * BufferBytes + Entered * BufferBytes
    BY DEF LevelInv
  <2>2. ASSUME NEW k \in Nat, level[d] <= k + Entered * BufferBytes
        PROVE  level'[d] <= k + Entered' * BufferBytes
    <3>1. Entered * BufferBytes \in Nat /\ (Entered + 1) * BufferBytes \in Nat
      BY <1>1, BytesNat
    <3>2. level[d] <= k + (Entered + 1) * BufferBytes
      BY <1>1, <2>1, <2>2, OneBufferMore
    <3> QED BY <2>1, <2>2, <3>1, <3>2
  <2>3. 3 * FmodBytes \in Nat /\ 2 * BufferBytes \in Nat
    BY BytesNat
  <2> QED BY <2>1, <2>2, <2>3
<1> QED BY <1>1, <1>2 DEF LevelInv

\* What the main thread looked at has not grown.
LEMMA AllowedKept ==
    ASSUME DeviceInv, LevelInv, AllowedInv,
           stage' = "game" /\ (Mixing' \/ Pulling') =>
              /\ stage = "game" /\ (Mixing' => Mixing) /\ (Pulling' => Pulling)
              /\ Queued' \in Nat
              /\ \/ Queued' <= Queued /\ Entered' \in {Entered, Entered + 1}
                 \/ Queued' <= Queued + BufferBytes /\ Entered' = Entered + 1
    PROVE  AllowedInv'
<1> SUFFICES ASSUME stage' = "game", Mixing' \/ Pulling'
             PROVE  /\ Mixing' => Queued' <= 2 * FmodBytes + Entered' * BufferBytes
                    /\ Pulling' => Queued' <= BufferBytes + Entered' * BufferBytes
  BY DEF AllowedInv
<1>1. Entered \in Nat /\ Queued \in Nat /\ Queued' \in Nat
  BY QueuedNat DEF LevelInv
<1>2. ASSUME NEW k \in Nat, Queued <= k + Entered * BufferBytes
      PROVE  Queued' <= k + Entered' * BufferBytes
  <2>1. Entered * BufferBytes \in Nat /\ (Entered + 1) * BufferBytes \in Nat /\ BufferBytes \in Nat
    BY <1>1, BytesNat
  <2>2. /\ Queued <= k + (Entered + 1) * BufferBytes
        /\ Queued + BufferBytes <= k + (Entered + 1) * BufferBytes
    BY <1>1, <1>2, OneBufferMore
  <2>3. CASE Queued' <= Queued /\ Entered' = Entered
    BY <1>1, <1>2, <2>1, <2>3
  <2>4. CASE Queued' <= Queued /\ Entered' = Entered + 1
    <3> DEFINE more == (Entered + 1) * BufferBytes
    <3> HIDE DEF more
    <3>1. Queued <= k + more /\ more \in Nat
      BY <2>1, <2>2 DEF more
    <3>2. Queued' <= k + more
      BY <1>1, <2>4, <3>1
    <3> QED BY <2>4, <3>2 DEF more
  <2>5. CASE Queued' <= Queued + BufferBytes /\ Entered' = Entered + 1
    <3> DEFINE more == (Entered + 1) * BufferBytes
    <3> HIDE DEF more
    <3>1. Queued + BufferBytes <= k + more /\ more \in Nat
      BY <2>1, <2>2 DEF more
    <3>2. Queued' <= k + more
      BY <1>1, <2>1, <2>5, <3>1
    <3> QED BY <2>5, <3>2 DEF more
  <2> QED BY <2>3, <2>4, <2>5
<1>3. 2 * FmodBytes \in Nat /\ BufferBytes \in Nat
  BY BytesNat
<1> QED BY <1>2, <1>3 DEF AllowedInv

\* Nothing that matters here changes.
LEMMA LevelStutter ==
    ASSUME LInv, UNCHANGED <<open, known, level, loop, do, size, primed>>,
           stage' \in QuietStages => stage \in QuietStages,
           stage' = "jni-load" => stage \in {"jni-start", "jni-load"},
           stage' = "game" => stage \in PlayStages
    PROVE  LInv'
<1>1. DeviceInv /\ LevelInv /\ AllowedInv
  BY DEF LInv
<1>2. Waiting' = Waiting /\ Entered' = Entered /\ Queued' = Queued
  BY DEF Waiting, Entered, Queued
<1>3. \A t \in Threads : Holds(t)' <=> Holds(t)
  BY DEF Holds
<1>4. DeviceInv'
  BY <1>1, <1>3 DEF DeviceInv, PlayStages, QuietStages, Holds
<1>5. LevelInv'
  BY <1>1, <1>2 DEF LevelInv
<1>6. AllowedInv'
  BY <1>1, <1>2 DEF AllowedInv, DeviceInv, PlayStages, Mixing, Pulling
<1> QED BY <1>4, <1>5, <1>6 DEF LInv

LEMMA MainKeepsLevel ==
    ASSUME IInv, LInv, MainStep PROVE LInv'
<1>1. UNCHANGED <<open, known, level, loop, do, size, primed>>
  BY DEF MainStep, platformVars, audioVars
<1>2. Edge
  BY MainEdges DEF MainStep
<1> QED BY <1>1, <1>2, LevelStutter DEF Edge, QuietStages, PlayStages

LEMMA PlatformKeepsLevel ==
    ASSUME PInv, SInv, LInv, PlatformStep PROVE LInv'
<1>1. DeviceInv /\ LevelInv /\ AllowedInv
  BY DEF LInv
<1>2. /\ UNCHANGED <<stage, loop, do, size, primed>> /\ stage \notin PlayStages
      /\ level' = [d \in Devices |-> IF d \in open' THEN level[d] ELSE 0]
  BY DEF PlatformStep, vars, PlayStages
<1>3. /\ open' \subseteq Devices
      /\ known'.device \in {known.device, NoDevice}
  <2>1. known' = known \/ known' = Cleared \/ known' = [known EXCEPT !.started = TRUE]
    BY DEF PlatformStep, Probe, ProbeOpen, ProbeInit, ProbeWindow, ProbeContext, ProbeGl,
       ProbeUnwind, ProbeController, ProbeAudio, ProbeQueue, ProbeQuit, Start, StartOpen,
       StartInit, StartWindow, StartContext, StartController, Acquire, Stop, StopAudio,
       StopVideo, StopQuit, StopClose, StopClear, To
  <2>2. open' \in {open, {}, open \ {known.device}} \/ open' \in {{d} : d \in Devices}
    BY DEF PlatformStep, Probe, ProbeOpen, ProbeInit, ProbeWindow, ProbeContext, ProbeGl,
       ProbeUnwind, ProbeController, ProbeAudio, ProbeQueue, ProbeQuit, Start, StartOpen,
       StartInit, StartWindow, StartContext, StartController, Acquire, Stop, StopAudio,
       StopVideo, StopQuit, StopClose, StopClear, To
  <2>3. known \in [started : BOOLEAN, device : Devices \cup {NoDevice}]
    BY DEF SInv, CallInv
  <2> QED BY <1>1, <2>1, <2>2, <2>3 DEF DeviceInv, Cleared
<1>4. level' \in [Devices -> Nat] /\ \A d \in Devices : level'[d] <= level[d]
  BY <1>1, <1>2 DEF LevelInv
<1>5. IsFiniteSet(Waiting)' /\ Entered' = Entered
  BY <1>1, <1>2, WaitingSame
<1>6. LevelInv'
  BY <1>1, <1>2, <1>4, <1>5, LevelsFall DEF LevelInv
<1>7. DeviceInv'
  BY <1>1, <1>2, <1>3 DEF DeviceInv, PlayStages
<1>8. AllowedInv'
  BY <1>2 DEF AllowedInv, PlayStages
<1> QED BY <1>6, <1>7, <1>8 DEF LInv

LEMMA DrainKeepsLevel ==
    ASSUME LInv, Drain, UNCHANGED stage PROVE LInv'
<1>1. DeviceInv /\ LevelInv /\ AllowedInv
  BY DEF LInv
<1>2. /\ UNCHANGED <<open, known, loop, do, size, primed>>
      /\ \E d \in open : level[d] > 0 /\ level' = [level EXCEPT ![d] = @ - 1]
  BY DEF Drain, frameVars
<1>3. PICK d \in open : level[d] > 0 /\ level' = [level EXCEPT ![d] = level[d] - 1]
  BY <1>1, <1>2 DEF DeviceInv, LevelInv
<1>4. /\ level' \in [Devices -> Nat] /\ \A e \in Devices : level'[e] <= level[e]
      /\ \A e \in Devices : level[e] = 0 => level'[e] = 0
  BY <1>1, <1>3 DEF DeviceInv, LevelInv
<1>5. IsFiniteSet(Waiting)' /\ Entered' = Entered
  BY <1>1, <1>2, WaitingSame
<1>6. LevelInv'
  BY <1>1, <1>2, <1>4, <1>5, LevelsFall DEF LevelInv
<1>7. DeviceInv'
  <2>1. \A t \in Threads : Holds(t)' <=> Holds(t)
    BY <1>2 DEF Holds
  <2> QED BY <1>1, <1>2, <1>4, <2>1 DEF DeviceInv, Holds, PlayStages
<1>8. Queued' \in Nat /\ Queued' <= Queued
  BY <1>1, <1>2, <1>4 DEF Queued, DeviceInv, LevelInv
<1>9. AllowedInv'
  BY <1>1, <1>2, <1>5, <1>8, AllowedKept DEF Mixing, Pulling
<1> QED BY <1>6, <1>7, <1>9 DEF LInv
-----------------------------------------------------------------------------
\* A call goes into nothing: the process is over.
LEMMA StrayKeepsLevel ==
    ASSUME LInv, NEW why, Crash(why), UNCHANGED stage PROVE LInv'
<1>1. UNCHANGED <<open, known, level, loop, do, size, primed>>
  BY DEF Crash, soundVars, frameVars
<1> QED BY <1>1, LevelStutter DEF PlayStages

\* A call of t neither ends with samples queued nor changes devices.
LEMMA CallKeepsLevel ==
    ASSUME LInv, SInv, NEW t \in Threads, stage \notin QuietStages,
           UNCHANGED <<stage, open, known, level>>, size' \in {0, BufferBytes}, primed' \in Nat,
           IsFiniteSet(Waiting)', Entered' \in {Entered, Entered + 1},
           do'[t].at # "store", \A u \in Threads \ {t} : do'[u] = do[u],
           stage = "jni-load" => loop' = "enter",
           stage = "game" => (Mixing' => Mixing) /\ (Pulling' => Pulling)
    PROVE  LInv'
<1>1. DeviceInv /\ LevelInv /\ AllowedInv /\ CallInv
  BY DEF LInv, SInv
<1>2. DeviceInv'
  BY <1>1, DeviceKept
<1>3. LevelInv'
  <2>1. level' \in [Devices -> Nat] /\ \A d \in Devices : level'[d] <= level[d]
    BY <1>1 DEF LevelInv
  <2> QED BY <1>1, <2>1, LevelsFall
<1>4. AllowedInv'
  <2>1. Queued' = Queued /\ Queued' \in Nat /\ Queued' <= Queued
    BY <1>1, QueuedNat DEF Queued
  <2> QED BY <1>1, <2>1, AllowedKept
<1> QED BY <1>2, <1>3, <1>4 DEF LInv

\* A device opens, empty; it is neither known nor held by another call.
LEMMA OpenKeepsLevel ==
    ASSUME LInv, SInv, NEW t \in Threads, stage \notin QuietStages, OpenDevice(t), UNCHANGED stage
    PROVE  LInv'
<1>1. DeviceInv /\ LevelInv /\ AllowedInv /\ CallInv /\ do[t].at = "open"
  BY DEF LInv, SInv, OpenDevice, At
<1>2. CASE "library" \notin held
  BY <1>2, StrayKeepsLevel DEF OpenDevice, Stray
<1>3. CASE "library" \in held
  <2>1. PICK d \in {NoDevice} \cup (Devices \ open) :
            /\ open' = open \cup ({d} \ {NoDevice})
            /\ level' = [e \in Devices |-> IF e = d THEN 0 ELSE level[e]]
            /\ do' = [do EXCEPT ![t] = [at |-> "store", device |-> d, early |-> do[t].early]]
            /\ UNCHANGED <<known, loop, size, primed>>
    <3>1. PICK d \in {NoDevice} \cup (Devices \ open) :
              /\ open' = open \cup ({d} \ {NoDevice})
              /\ level' = [e \in Devices |-> IF e = d THEN 0 ELSE level[e]]
              /\ do' = [do EXCEPT ![t] = [at |-> "store", device |-> d, early |-> @.early]]
              /\ UNCHANGED <<known, loop, size, primed>>
      BY <1>3 DEF OpenDevice, frameVars
    <3>2. do' = [do EXCEPT ![t] = [at |-> "store", device |-> d, early |-> do[t].early]]
      BY <1>1, <3>1 DEF CallInv
    <3> QED BY <3>1, <3>2
  <2>2. /\ do'[t].at = "store" /\ do'[t].device = d
        /\ \A u \in Threads \ {t} : do'[u] = do[u]
    BY <1>1, <2>1 DEF CallInv
  <2>3. IsFiniteSet(Waiting)' /\ Entered' = Entered
    <3>1. \A u \in Guests : do'[u].at = "queue" <=> do[u].at = "queue"
      BY <1>1, <2>2 DEF Threads
    <3> QED BY <1>1, <2>1, <3>1, WaitingSame
  <2>4. level' \in [Devices -> Nat] /\ \A e \in Devices : level'[e] <= level[e]
    BY <1>1, <2>1 DEF LevelInv
  <2>5. LevelInv'
    BY <1>1, <2>1, <2>3, <2>4, LevelsFall DEF LevelInv
  <2>6. DeviceInv'
    <3>1. open' \subseteq Devices
      BY <1>1, <2>1 DEF DeviceInv
    <3>2. ASSUME stage \in PlayStages
          PROVE  /\ known'.device # NoDevice => known'.device \in open'
                 /\ \A u \in Threads : Holds(u)' =>
                      /\ do'[u].device \in open' /\ do'[u].device # known'.device
                      /\ level'[do'[u].device] = 0
                      /\ \A w \in Threads : Holds(w)' /\ do'[w].device = do'[u].device => w = u
      <4>1. \A u \in Threads \ {t} : Holds(u)' =>
               /\ do'[u] = do[u] /\ do[u].device \in open /\ do[u].device \in Devices
               /\ do[u].device # known.device /\ level[do[u].device] = 0
               /\ \A w \in Threads \ {t} : Holds(w)' /\ do[w].device = do[u].device => w = u
        BY <1>1, <2>2, <3>2 DEF DeviceInv, Holds
      <4>2. known'.device = known.device /\ (known.device # NoDevice => known.device \in open)
        BY <1>1, <2>1, <3>2 DEF DeviceInv
      <4>3. Holds(t)' => d # NoDevice /\ d \in Devices \ open /\ d \in open' /\ level'[d] = 0
        BY <2>1, <2>2 DEF Holds
      <4>4. \A u \in Threads \ {t} : Holds(u)' =>
               do'[u].device \in open' /\ level'[do'[u].device] = 0
        BY <2>1, <4>1
      <4>5. Holds(t)' => do'[t].device # known'.device
        BY <2>2, <4>2, <4>3
      <4>6. \A u \in Threads \ {t} : Holds(u)' /\ Holds(t)' => do'[u].device # do'[t].device
        BY <2>2, <4>1, <4>3
      <4> QED BY <2>1, <2>2, <4>1, <4>2, <4>3, <4>4, <4>5, <4>6
    <3>3. stage' = stage /\ loop' = loop /\ stage' \notin QuietStages
      BY <2>1
    <3> QED BY <1>1, <3>1, <3>2, <3>3 DEF DeviceInv
  <2>7. AllowedInv'
    <3>1. stage = "game" => Queued' = Queued
      <4>1. known.device # NoDevice /\ stage = "game" => known.device \in open
        BY <1>1 DEF DeviceInv, PlayStages
      <4>2. NoDevice \notin open /\ NoDevice \notin open'
        BY <1>1, <2>1, PlatformAssumption DEF DeviceInv
      <4>3. stage = "game" /\ known.device \in open => known.device # d /\ known.device \in open'
        BY <2>1, <4>2
      <4>4. stage = "game" /\ known.device \in open => level'[known.device] = level[known.device]
        BY <1>1, <2>1, <4>3 DEF DeviceInv
      <4> QED BY <2>1, <4>1, <4>2, <4>3, <4>4 DEF Queued
    <3>2. stage' = stage /\ (Mixing' => Mixing) /\ (Pulling' => Pulling)
      BY <2>1, <2>2 DEF Mixing, Pulling, Threads
    <3>3. Queued \in Nat /\ Queued <= Queued
      BY <1>1, QueuedNat
    <3> QED BY <1>1, <2>3, <3>1, <3>2, <3>3, AllowedKept
  <2> QED BY <2>5, <2>6, <2>7 DEF LInv
<1> QED BY <1>2, <1>3

\* The device that gets known is empty.
LEMMA StoreKeepsLevel ==
    ASSUME LInv, SInv, NEW t \in Threads, stage \notin QuietStages, StoreDevice(t), UNCHANGED stage
    PROVE  LInv'
<1>1. DeviceInv /\ LevelInv /\ AllowedInv /\ CallInv /\ do[t].at = "store"
  BY DEF LInv, SInv, StoreDevice, At
<1>2. CASE "library" \notin held /\ ~(do[t].device = NoDevice /\ plat = "stopped")
  BY <1>2, StrayKeepsLevel DEF StoreDevice, Stray
<1>3. CASE ~("library" \notin held /\ ~(do[t].device = NoDevice /\ plat = "stopped"))
  <2>1. /\ known' = [known EXCEPT !.device = do[t].device]
        /\ End(t, do[t].device # NoDevice)
        /\ UNCHANGED <<open, loop, size, level, primed>>
    BY <1>3 DEF StoreDevice, frameVars
  <2>2. (do[t].device # NoDevice) \in BOOLEAN
    OBVIOUS
  <2>3. /\ do'[t].at \in {"idle", "done", "refused"}
        /\ \A u \in Threads \ {t} : do'[u] = do[u]
    BY <1>1, <2>1, <2>2, EndCall
  <2>4. known'.device = do[t].device
    BY <1>1, <2>1 DEF CallInv
  <2>5. IsFiniteSet(Waiting)' /\ Entered' = Entered
    <3>1. \A u \in Guests : do'[u].at = "queue" <=> do[u].at = "queue"
      BY <1>1, <2>3 DEF Threads
    <3> QED BY <1>1, <2>1, <3>1, WaitingSame
  <2>6. LevelInv'
    <3>1. level' \in [Devices -> Nat] /\ \A d \in Devices : level'[d] <= level[d]
      BY <1>1, <2>1 DEF LevelInv
    <3> QED BY <1>1, <2>1, <2>5, <3>1, LevelsFall DEF LevelInv
  <2>7. \A u \in Threads : Holds(u)' => u # t /\ Holds(u) /\ do'[u] = do[u]
    BY <2>3 DEF Holds
  <2>8. DeviceInv'
    <3>1. stage \in PlayStages =>
            /\ known'.device # NoDevice => known'.device \in open /\ Holds(t)
            /\ \A u \in Threads : Holds(u)' =>
                 /\ do'[u].device \in open /\ do'[u].device # known'.device
                 /\ level[do'[u].device] = 0
                 /\ \A w \in Threads : Holds(w)' /\ do'[w].device = do'[u].device => w = u
      <4>1. do[t].device # NoDevice => Holds(t)
        BY <1>1 DEF Holds
      <4>2. stage \in PlayStages =>
              /\ known'.device # NoDevice => known'.device \in open /\ Holds(t)
              /\ \A u \in Threads : Holds(u)' =>
                   do'[u].device \in open /\ level[do'[u].device] = 0
        BY <1>1, <2>4, <2>7, <4>1 DEF DeviceInv
      <4>3. stage \in PlayStages => \A u \in Threads : Holds(u)' => do'[u].device # do[t].device
        BY <1>1, <2>7, <4>1 DEF DeviceInv, Holds
      <4>4. stage \in PlayStages => \A u, w \in Threads :
              Holds(u)' /\ Holds(w)' /\ do'[w].device = do'[u].device => w = u
        BY <1>1, <2>7 DEF DeviceInv
      <4> QED BY <2>4, <4>2, <4>3, <4>4
    <3> QED BY <1>1, <2>1, <3>1 DEF DeviceInv
  <2>9. AllowedInv'
    <3>1. stage = "game" => Queued' = 0
      <4>1. NoDevice \notin open
        BY <1>1, PlatformAssumption DEF DeviceInv
      <4>2. stage = "game" /\ do[t].device # NoDevice => level[do[t].device] = 0
        BY <1>1 DEF DeviceInv, Holds, PlayStages
      <4> QED BY <2>1, <2>4, <4>1, <4>2 DEF Queued
    <3>2. stage' = stage /\ (Mixing' => Mixing) /\ (Pulling' => Pulling)
      <4>1. t # Main => do'[Main] = do[Main]
        BY <2>3, OwnerThread
      <4>2. t = Main => do'[Main].at \in {"done", "refused"}
        <5>1. t = Main => \E place \in {"done", "refused"} :
                 do' = [do EXCEPT ![Main] = [at |-> place, device |-> NoDevice, early |-> FALSE]]
          BY <2>1 DEF End
        <5> QED BY <1>1, <5>1, OwnerThread DEF CallInv
      <4> QED BY <2>1, <4>1, <4>2 DEF Mixing, Pulling
    <3>3. Queued \in Nat
      BY <1>1, QueuedNat
    <3>4. stage' = "game" => Queued' \in Nat /\ Queued' <= Queued
      BY <3>1, <3>2, <3>3
    <3> QED BY <1>1, <2>5, <3>2, <3>4, AllowedKept
  <2> QED BY <2>6, <2>8, <2>9 DEF LInv
<1> QED BY <1>2, <1>3

\* A guest thread queues its buffer on the known device, or fails to.
LEMMA GuestQueuesKeepsLevel ==
    ASSUME LInv, SInv, NEW t \in Guests, stage \notin QuietStages, EnqueueSamples(t),
           UNCHANGED stage
    PROVE  LInv'
<1>1. /\ DeviceInv /\ LevelInv /\ AllowedInv /\ CallInv /\ do[t].at = "queue"
      /\ t \in Threads /\ t # Main
  BY AudioAssumption DEF LInv, SInv, EnqueueSamples, At, Threads
<1>2. CASE "library" \notin held
  BY <1>2, StrayKeepsLevel DEF EnqueueSamples, QueueSamples, Stray
<1>3. CASE "library" \in held
  <2>1. /\ UNCHANGED <<open, known, loop, size, primed>>
        /\ \/ /\ known.device \in open
              /\ level' = [level EXCEPT ![known.device] = @ + BufferBytes]
              /\ GoOn(t, "size")
           \/ End(t, FALSE) /\ UNCHANGED level
    BY <1>3 DEF EnqueueSamples, QueueSamples, frameVars
  <2>2. /\ do'[t].at \notin {"queue", "store"}
        /\ \A u \in Threads \ {t} : do'[u] = do[u]
    <3>1. "size" \in CallPlaces
      BY DEF CallPlaces
    <3> QED BY <1>1, <2>1, <3>1, GoOnCall, EndCall
  <2>3. IsFiniteSet(Waiting)' /\ Entered' = Entered + 1
    BY <1>1, <2>1, <2>2, WaitingOver DEF Threads
  <2>4. stage' = stage /\ do'[Main] = do[Main] /\ (Mixing' => Mixing) /\ (Pulling' => Pulling)
    BY <1>1, <2>1, <2>2, OwnerThread DEF Mixing, Pulling
  <2>5. CASE UNCHANGED level
    BY <1>1, <2>1, <2>2, <2>3, <2>4, <2>5, CallKeepsLevel DEF LevelInv, DeviceInv
  <2>6. CASE /\ known.device \in open
             /\ level' = [level EXCEPT ![known.device] = @ + BufferBytes]
    <3> DEFINE k == known.device
    <3>1. k \in Devices /\ k \in open
      BY <1>1, <2>6 DEF DeviceInv
    <3>2. /\ level' \in [Devices -> Nat] /\ level'[k] = level[k] + BufferBytes
          /\ \A d \in Devices : d # k => level'[d] = level[d]
      BY <1>1, <2>6, <3>1, BytesNat DEF LevelInv
    <3>3. Entered \in Nat
      BY <1>1 DEF LevelInv
    <3>4. ASSUME NEW d \in Devices
          PROVE  \/ level'[d] <= 3 * FmodBytes + Entered' * BufferBytes
                 \/ level'[d] <= 2 * BufferBytes + Entered' * BufferBytes
      <4>1. level[d] \in Nat /\ (level'[d] = level[d] \/ level'[d] = level[d] + BufferBytes)
        BY <1>1, <3>2 DEF LevelInv
      <4>2. 3 * FmodBytes \in Nat /\ 2 * BufferBytes \in Nat
        BY BytesNat
      <4>3. ASSUME NEW c \in Nat, level[d] <= c + Entered * BufferBytes
            PROVE  level'[d] <= c + Entered' * BufferBytes
        <5>1. /\ level[d] <= c + (Entered + 1) * BufferBytes
              /\ level[d] + BufferBytes <= c + (Entered + 1) * BufferBytes
          BY <3>3, <4>1, <4>3, OneBufferMore
        <5> QED BY <2>3, <4>1, <5>1
      <4> QED BY <1>1, <4>2, <4>3 DEF LevelInv
    <3>5. LevelInv'
      BY <1>1, <2>1, <2>3, <3>2, <3>3, <3>4 DEF LevelInv
    <3>6. DeviceInv'
      <4>1. \A u \in Threads : Holds(u)' => u # t /\ Holds(u) /\ do'[u] = do[u]
        BY <2>2 DEF Holds
      <4>2. stage \in PlayStages => \A u \in Threads : Holds(u)' => level'[do[u].device] = 0
        BY <1>1, <3>2, <4>1 DEF DeviceInv
      <4> QED BY <1>1, <2>1, <2>4, <4>1, <4>2 DEF DeviceInv
    <3>7. AllowedInv'
      <4>1. Queued \in Nat /\ Queued' = Queued + BufferBytes /\ Queued' \in Nat
        BY <1>1, <2>1, <3>1, <3>2, QueuedNat, BytesNat DEF Queued
      <4>2. Queued' <= Queued + BufferBytes
        BY <4>1, BytesNat
      <4> QED BY <1>1, <2>3, <2>4, <4>1, <4>2, AllowedKept
    <3> QED BY <3>5, <3>6, <3>7 DEF LInv
  <2> QED BY <2>1, <2>5, <2>6
<1> QED BY <1>2, <1>3

\* The main thread queues what it was allowed to when it looked.
LEMMA MainQueuesKeepsLevel ==
    ASSUME LInv, SInv, stage = "game", UNCHANGED stage, do[Main].at = "queue",
           \/ Mixing /\ QueueSamples(Main, FmodBytes, "done")
           \/ loop = "called" /\ QueueSamples(Main, BufferBytes, "size")
    PROVE  LInv'
<1>1. DeviceInv /\ LevelInv /\ AllowedInv /\ CallInv /\ Main \in Threads
  BY OwnerThread DEF LInv, SInv
<1>2. CASE "library" \notin held
  BY <1>2, StrayKeepsLevel DEF QueueSamples, Stray
<1>3. CASE "library" \in held
  <2>1. PICK bytes \in Nat :
            /\ UNCHANGED <<open, known, loop, size, primed>>
            /\ \/ Mixing /\ bytes = FmodBytes
               \/ loop = "called" /\ bytes = BufferBytes
            /\ \/ /\ known.device \in open
                  /\ level' = [level EXCEPT ![known.device] = @ + bytes]
                  /\ End(Main, TRUE) \/ GoOn(Main, "size")
               \/ End(Main, FALSE) /\ UNCHANGED level
    BY <1>3, BytesNat DEF QueueSamples, frameVars
  <2>2. /\ do'[Main].at \in {"done", "refused", "size"}
        /\ \A u \in Threads \ {Main} : do'[u] = do[u]
    <3>1. CASE GoOn(Main, "size")
      <4>1. "size" \in CallPlaces
        BY DEF CallPlaces
      <4> QED BY <1>1, <3>1, <4>1, GoOnCall
    <3>2. ASSUME NEW ok \in BOOLEAN, End(Main, ok)
          PROVE  /\ do'[Main].at \in {"done", "refused"}
                 /\ \A u \in Threads \ {Main} : do'[u] = do[u]
      <4>1. PICK place \in {"done", "refused"} :
               do' = [do EXCEPT ![Main] = [at |-> place, device |-> NoDevice, early |-> FALSE]]
        BY <3>2 DEF End
      <4> QED BY <1>1, <4>1 DEF CallInv
    <3> QED BY <2>1, <3>1, <3>2
  <2>3. IsFiniteSet(Waiting)' /\ Entered' = Entered
    <3>1. \A u \in Guests : do'[u].at = "queue" <=> do[u].at = "queue"
      BY <2>2, AudioAssumption DEF Threads
    <3> QED BY <1>1, <2>1, <3>1, WaitingSame
  <2>4. ~Mixing' /\ ~Pulling' /\ stage' = stage
    BY <2>1, <2>2 DEF Mixing, Pulling
  <2>5. CASE UNCHANGED level
    BY <1>1, <2>1, <2>2, <2>3, <2>4, <2>5, CallKeepsLevel DEF LevelInv, QuietStages
  <2>6. CASE /\ known.device \in open
             /\ level' = [level EXCEPT ![known.device] = @ + bytes]
    <3> DEFINE k == known.device
               more == Entered * BufferBytes
    <3>1. k \in Devices /\ k \in open /\ Queued = level[k]
      BY <1>1, <2>6 DEF DeviceInv, Queued
    <3>2. /\ level' \in [Devices -> Nat] /\ level'[k] = level[k] + bytes
          /\ \A d \in Devices : d # k => level'[d] = level[d]
      BY <1>1, <2>6, <3>1 DEF LevelInv
    <3>3. more \in Nat /\ level[k] \in Nat
      BY <1>1, <3>1, BytesNat DEF LevelInv
    <3>4. level'[k] <= 3 * FmodBytes + more \/ level'[k] <= 2 * BufferBytes + more
      <4>1. Mixing => level[k] <= 2 * FmodBytes + more
        BY <1>1, <3>1 DEF AllowedInv
      <4>2. loop = "called" => level[k] <= BufferBytes + more
        BY <1>1, <3>1 DEF AllowedInv, Pulling
      <4> HIDE DEF more, k
      <4> QED BY <2>1, <3>2, <3>3, <4>1, <4>2, BytesNat
    <3>5. LevelInv'
      BY <1>1, <2>1, <2>3, <3>2, <3>4 DEF LevelInv
    <3>6. DeviceInv'
      <4>1. \A u \in Threads : Holds(u)' => u # Main /\ Holds(u) /\ do'[u] = do[u]
        BY <2>2 DEF Holds
      <4>2. \A u \in Threads : Holds(u)' => level'[do[u].device] = 0
        BY <1>1, <3>2, <4>1 DEF DeviceInv, PlayStages
      <4> QED BY <1>1, <2>1, <2>4, <4>1, <4>2 DEF DeviceInv, PlayStages, QuietStages
    <3>7. AllowedInv'
      BY <2>4 DEF AllowedInv
    <3> QED BY <3>5, <3>6, <3>7 DEF LInv
  <2> QED BY <2>1, <2>5, <2>6
<1> QED BY <1>2, <1>3

\* queue_enqueue notes the size.
LEMMA SizeKeepsLevel ==
    ASSUME LInv, SInv, NEW t \in Threads, stage \notin QuietStages, EnqueueSize(t), UNCHANGED stage
    PROVE  LInv'
<1>1. DeviceInv /\ LevelInv /\ AllowedInv /\ CallInv
  BY DEF LInv, SInv
<1>2. /\ do[t].at = "size" /\ size' = BufferBytes /\ End(t, TRUE)
      /\ UNCHANGED <<open, known, level, loop, primed>>
  BY DEF EnqueueSize, At, frameVars
<1>3. /\ do'[t].at \in {"idle", "done", "refused"} /\ (t = Main => do'[t].at # "idle")
      /\ \A u \in Threads \ {t} : do'[u] = do[u]
  <2>1. PICK place \in {"idle", "done", "refused"} :
            /\ do' = [do EXCEPT ![t] = [at |-> place, device |-> NoDevice, early |-> FALSE]]
            /\ t = Main => place # "idle"
    BY <1>2 DEF End
  <2> QED BY <1>1, <2>1 DEF CallInv
<1>4. IsFiniteSet(Waiting)' /\ Entered' = Entered
  <2>1. \A u \in Guests : do'[u].at = "queue" <=> do[u].at = "queue"
    BY <1>2, <1>3 DEF Threads
  <2> QED BY <1>1, <1>2, <2>1, WaitingSame
<1>5. (Mixing' => Mixing) /\ (Pulling' => Pulling)
  BY <1>2, <1>3, OwnerThread DEF Mixing, Pulling
<1>6. primed' \in Nat /\ size' \in {0, BufferBytes} /\ do'[t].at # "store"
      /\ (stage = "jni-load" => loop' = "enter")
  BY <1>1, <1>2, <1>3 DEF LevelInv, DeviceInv
<1> QED BY <1>2, <1>3, <1>4, <1>5, <1>6, CallKeepsLevel

\* What guest threads call.
LEMMA GuestKeepsLevel ==
    ASSUME LInv, SInv, stage \in SoundStages, GuestSound, UNCHANGED stage
    PROVE  LInv'
<1>1. /\ DeviceInv /\ LevelInv /\ AllowedInv /\ CallInv
      /\ stage \notin QuietStages
  BY DEF LInv, SInv, SoundStages, QuietStages
<1>2. ASSUME NEW t \in Guests, UNCHANGED <<open, known, level, loop>>, size' \in {0, BufferBytes},
             \/ primed' = primed /\ do[t].at # "queue" /\ do'[t].at # "queue"
             \/ primed' = primed + 1 /\ do[t].at # "queue",
             do'[t].at # "store", \A u \in Threads \ {t} : do'[u] = do[u]
      PROVE  LInv'
  <2>1. t \in Threads /\ t # Main /\ \A u \in Guests \ {t} : do'[u] = do[u]
    BY <1>2, AudioAssumption DEF Threads
  <2>2. IsFiniteSet(Waiting)' /\ Entered' \in {Entered, Entered + 1}
    BY <1>1, <1>2, <2>1, WaitingSame, WaitingBegun, WaitingRefused
  <2>3. primed' \in Nat
    BY <1>1, <1>2 DEF LevelInv
  <2>4. (Mixing' => Mixing) /\ (Pulling' => Pulling)
    BY <1>2, <2>1, OwnerThread DEF Mixing, Pulling
  <2>5. stage = "jni-load" => loop' = "enter"
    BY <1>1, <1>2 DEF DeviceInv
  <2> QED BY <1>1, <1>2, <2>1, <2>2, <2>3, <2>4, <2>5, CallKeepsLevel
<1>3. size \in {0, BufferBytes} /\ Owner \in Guests
  BY <1>1, AudioAssumption DEF LevelInv
<1>4. CASE CreatePlayer
  <2>1. /\ do[Owner].at = "idle" /\ StartAudio(Owner)
        /\ UNCHANGED <<open, known, level, loop, size, primed, plat, crash>>
    BY <1>4 DEF CreatePlayer, At, restVars, frameVars
  <2>2. /\ do'[Owner].at \in {"idle", "done", "refused", "open"}
        /\ \A u \in Threads \ {Owner} : do'[u] = do[u]
    BY <1>1, <2>1, OwnerThread, StartAudioStep
  <2> QED BY <1>2, <1>3, <2>1, <2>2
<1>5. ASSUME NEW c \in Clients, Register(c) PROVE LInv'
  <2>1. /\ do[Owner].at = "idle" /\ Begin(Owner, "context")
        /\ UNCHANGED <<open, known, level, loop, size, primed>>
    BY <1>5 DEF Register, At
  <2>2. "context" \in CallPlaces
    BY DEF CallPlaces
  <2>3. /\ do'[Owner].at = "context" /\ \A u \in Threads \ {Owner} : do'[u] = do[u]
    BY <1>1, <2>1, <2>2, OwnerThread, BeginCall
  <2> QED BY <1>2, <1>3, <2>1, <2>3
<1>6. CASE RegisterContext
  <2>1. /\ do[Owner].at = "context" /\ End(Owner, TRUE)
        /\ UNCHANGED <<open, known, level, loop, size, primed>>
    BY <1>6 DEF RegisterContext, At
  <2>2. /\ do'[Owner].at \in {"idle", "done", "refused"}
        /\ \A u \in Threads \ {Owner} : do'[u] = do[u]
    BY <1>1, <2>1, OwnerThread, EndCall
  <2> QED BY <1>2, <1>3, <2>1, <2>2
<1>7. CASE DestroyPlayer
  <2>1. /\ do[Owner].at = "idle" /\ Begin(Owner, "drop context")
        /\ UNCHANGED <<open, known, level, loop, size, primed>>
    BY <1>7 DEF DestroyPlayer, At
  <2>2. "drop context" \in CallPlaces
    BY DEF CallPlaces
  <2>3. /\ do'[Owner].at = "drop context" /\ \A u \in Threads \ {Owner} : do'[u] = do[u]
    BY <1>1, <2>1, <2>2, OwnerThread, BeginCall
  <2> QED BY <1>2, <1>3, <2>1, <2>3
<1>8. CASE DestroyRest
  <2>1. /\ UNCHANGED <<open, known, level, loop, primed>>
        /\ \/ do[Owner].at = "drop context" /\ GoOn(Owner, "drop size") /\ size' = size
           \/ do[Owner].at = "drop size" /\ End(Owner, TRUE) /\ size' = 0
    BY <1>8 DEF DestroyRest, At
  <2>2. "drop size" \in CallPlaces
    BY DEF CallPlaces
  <2>3. /\ do'[Owner].at \in {"drop size", "idle", "done", "refused"}
        /\ \A u \in Threads \ {Owner} : do'[u] = do[u]
    BY <1>1, <2>1, <2>2, OwnerThread, GoOnCall, EndCall
  <2> QED BY <1>2, <1>3, <2>1, <2>3
<1>9. ASSUME NEW t \in Guests, Enqueue(t) PROVE LInv'
  <2>1. /\ do[t].at = "idle" /\ QueueCheck(t) /\ primed' = primed + 1
        /\ UNCHANGED <<open, known, level, loop, size, plat, crash>>
    BY <1>9 DEF Enqueue, At, restVars, frameVars
  <2>2. /\ do'[t].at \in {"idle", "done", "refused", "queue"}
        /\ \A u \in Threads \ {t} : do'[u] = do[u]
    BY <1>1, <2>1, OwnerThread, QueueCheckStep
  <2> QED BY <1>2, <1>3, <2>1, <2>2
<1>10. ASSUME NEW t \in Guests, OpenDevice(t) \/ StoreDevice(t) \/ EnqueueSamples(t) \/ EnqueueSize(t)
       PROVE  LInv'
  BY <1>1, <1>10, OwnerThread, OpenKeepsLevel, StoreKeepsLevel, GuestQueuesKeepsLevel, SizeKeepsLevel
<1>11. ASSUME NEW t \in Guests, AskQueued(t) PROVE LInv'
  <2>1. /\ do[t].at = "idle" /\ Begin(t, "ask")
        /\ UNCHANGED <<open, known, level, loop, size, primed>>
    BY <1>11 DEF AskQueued, At, frameVars, soundVars
  <2>2. "ask" \in CallPlaces /\ t \in Threads
    BY OwnerThread DEF CallPlaces
  <2>3. do'[t].at = "ask" /\ \A u \in Threads \ {t} : do'[u] = do[u]
    BY <1>1, <2>1, <2>2, BeginCall
  <2> QED BY <1>2, <1>3, <2>1, <2>3
<1>12. ASSUME NEW t \in Guests, AnswerQueued(t) PROVE LInv'
  <2>1. /\ do[t].at = "ask" /\ t \in Threads
        /\ UNCHANGED <<open, known, level, loop, size, primed>>
    BY <1>12, OwnerThread DEF AnswerQueued, At, frameVars, soundVars, Stray, Crash
  <2>2. do' = do \/ End(t, TRUE)
    BY <1>12 DEF AnswerQueued, Stray, Crash
  <2>3. /\ do'[t].at \in {"ask", "idle", "done", "refused"}
        /\ \A u \in Threads \ {t} : do'[u] = do[u]
    BY <1>1, <2>1, <2>2, EndCall
  <2> QED BY <1>2, <1>3, <2>1, <2>3
<1> QED BY <1>4, <1>5, <1>6, <1>7, <1>8, <1>9, <1>10, <1>11, <1>12 DEF GuestSound

\* The main thread goes on, and looks at the level before it pulls.
LEMMA FrameKeepsLevel ==
    ASSUME LInv, SInv, stage = "game", FrameLoop, UNCHANGED stage
    PROVE  LInv'
<1>1. /\ DeviceInv /\ LevelInv /\ AllowedInv /\ CallInv /\ Main \in Threads
      /\ stage \notin QuietStages /\ stage # "jni-load"
  BY OwnerThread DEF LInv, SInv, QuietStages
<1>2. ASSUME UNCHANGED <<open, known, level, size, primed>>, do'[Main].at # "store" \/ do'[Main] = do[Main],
             \A u \in Threads \ {Main} : do'[u] = do[u],
             Mixing' => Queued <= 2 * FmodBytes + Entered * BufferBytes,
             Pulling' => Queued <= BufferBytes + Entered * BufferBytes
      PROVE  LInv'
  <2>1. IsFiniteSet(Waiting)' /\ Entered' = Entered /\ Queued' = Queued
    <3>1. \A u \in Guests : do'[u].at = "queue" <=> do[u].at = "queue"
      BY <1>2, AudioAssumption DEF Threads
    <3> QED BY <1>1, <1>2, <3>1, WaitingSame DEF Queued
  <2>2. DeviceInv'
    BY <1>1, <1>2, DeviceKept
  <2>3. LevelInv'
    BY <1>1, <1>2, <2>1 DEF LevelInv
  <2>4. AllowedInv'
    BY <1>2, <2>1 DEF AllowedInv
  <2> QED BY <2>2, <2>3, <2>4 DEF LInv
<1>3. /\ Mixing => Queued <= 2 * FmodBytes + Entered * BufferBytes
      /\ Pulling => Queued <= BufferBytes + Entered * BufferBytes
  BY <1>1 DEF AllowedInv
<1>4. Queued \in Nat /\ Entered * BufferBytes \in Nat
  BY <1>1, QueuedNat, BytesNat DEF LevelInv
<1>5. CASE EnterLoop \/ Tick \/ PumpCheck \/ Present
  <2>1. /\ UNCHANGED <<open, known, level, size, primed, do>>
        /\ loop' \notin {"fmod queue", "load", "called"}
    BY <1>5 DEF EnterLoop, Tick, PumpCheck, Present, Frame, soundVars
  <2>2. ~Mixing' /\ ~Pulling'
    BY <2>1 DEF Mixing, Pulling
  <2> QED BY <1>2, <2>1, <2>2
<1>6. CASE FmodStarts
  <2>1. /\ UNCHANGED <<open, known, level, size, primed, plat, crash>>
        /\ loop' = "fmod" /\ StartAudio(Main)
    BY <1>6 DEF FmodStarts, Frame, soundVars, restVars
  <2>2. /\ do'[Main].at \in {"idle", "done", "refused", "open"}
        /\ \A u \in Threads \ {Main} : do'[u] = do[u]
    BY <1>1, <2>1, StartAudioStep
  <2> QED BY <1>2, <2>1, <2>2 DEF Mixing, Pulling
<1>7. CASE FmodAnswered \/ PumpReturns
  <2>1. /\ UNCHANGED <<open, known, level, size, primed>>
        /\ loop' \notin {"fmod queue", "load", "called"} /\ do' = [do EXCEPT ![Main] = Idle]
    BY <1>7 DEF FmodAnswered, PumpReturns, Frame, soundVars
  <2>2. Idle.at = "idle"
    BY DEF Idle
  <2>3. /\ do'[Main].at = "idle" /\ \A u \in Threads \ {Main} : do'[u] = do[u]
    BY <1>1, <2>1, <2>2 DEF CallInv
  <2> QED BY <1>2, <2>1, <2>3 DEF Mixing, Pulling
<1>8. CASE Mixer
  <2>1. /\ UNCHANGED <<open, known, level, size, primed, plat, crash>> /\ loop = "mixer"
        /\ \/ loop' = "pump" /\ UNCHANGED do
           \/ Queued <= 2 * FmodBytes /\ loop' = "fmod queue" /\ QueueCheck(Main)
    BY <1>8 DEF Mixer, Frame, soundVars, restVars
  <2>2. CASE loop' = "pump" /\ UNCHANGED do
    BY <1>2, <2>1, <2>2 DEF Mixing, Pulling
  <2>3. CASE Queued <= 2 * FmodBytes /\ loop' = "fmod queue" /\ QueueCheck(Main)
    <3>1. /\ do'[Main].at \in {"idle", "done", "refused", "queue"}
          /\ \A u \in Threads \ {Main} : do'[u] = do[u]
      BY <1>1, <2>1, <2>3, QueueCheckStep
    <3>2. Queued <= 2 * FmodBytes + Entered * BufferBytes
      <4> DEFINE more == Entered * BufferBytes
      <4>1. more \in Nat /\ Queued \in Nat
        BY <1>4
      <4>2. 2 * FmodBytes \in Nat
        BY BytesNat
      <4>3. Queued <= 2 * FmodBytes
        BY <2>3
      <4> HIDE DEF more
      <4>4. Queued <= 2 * FmodBytes + more
        BY <4>1, <4>2, <4>3
      <4> QED BY <4>4 DEF more
    <3> QED BY <1>2, <2>1, <2>3, <3>1, <3>2 DEF Pulling
  <2> QED BY <2>1, <2>2, <2>3
<1>9. CASE FmodQueue
  <2>1. Mixing /\ do[Main].at = "queue" /\ QueueSamples(Main, FmodBytes, "done")
    BY <1>9 DEF FmodQueue, Mixing, At
  <2> QED BY <2>1, MainQueuesKeepsLevel
<1>10. CASE PumpLevel
  <2>1. /\ UNCHANGED <<open, known, level, size, primed, do>> /\ loop = "level"
        /\ loop' = IF Queued <= size THEN "load" ELSE "present"
    BY <1>10 DEF PumpLevel, Frame, soundVars
  <2>2. size \in {0, BufferBytes}
    BY <1>1 DEF LevelInv
  <2>3. loop' = "load" => Queued <= BufferBytes + Entered * BufferBytes
    BY <1>4, <2>1, <2>2, BytesNat
  <2> QED BY <1>2, <2>1, <2>3 DEF Mixing, Pulling
<1>11. CASE PumpLoad
  <2>1. /\ UNCHANGED <<open, known, level, size, primed, do, loop>>
    BY <1>11 DEF PumpLoad, Frame, soundVars
  <2> QED BY <1>2, <1>3, <2>1 DEF Mixing, Pulling
<1>12. CASE PumpCall
  <2>1. CASE pump.callback = Null
    BY <1>12, <2>1, StrayKeepsLevel DEF PumpCall
  <2>2. CASE pump.callback # Null
    <3>1. /\ UNCHANGED <<open, known, level, size, primed, do>>
          /\ loop = "load" /\ loop' = "called"
      BY <1>12, <2>2 DEF PumpCall, Frame, soundVars
    <3> QED BY <1>2, <1>3, <3>1 DEF Mixing, Pulling
  <2> QED BY <2>1, <2>2
<1>13. CASE CallbackEnqueues
  <2>1. /\ UNCHANGED <<open, known, level, size, primed, plat, crash, loop>>
        /\ loop = "called" /\ do[Main].at = "idle" /\ QueueCheck(Main)
    BY <1>13 DEF CallbackEnqueues, Frame, At, soundVars, restVars
  <2>2. /\ do'[Main].at \in {"idle", "done", "refused", "queue"}
        /\ \A u \in Threads \ {Main} : do'[u] = do[u]
    BY <1>1, <2>1, QueueCheckStep
  <2> QED BY <1>2, <1>3, <2>1, <2>2 DEF Mixing, Pulling
<1>14. CASE OpenDevice(Main) \/ StoreDevice(Main) \/ EnqueueSize(Main)
  BY <1>1, <1>14, OpenKeepsLevel, StoreKeepsLevel, SizeKeepsLevel
<1>15. CASE EnqueueSamples(Main)
  <2>1. do[Main].at = "queue" /\ loop = "called" /\ QueueSamples(Main, BufferBytes, "size")
    BY <1>15 DEF EnqueueSamples, At
  <2> QED BY <2>1, MainQueuesKeepsLevel
<1> QED BY <1>5, <1>6, <1>7, <1>8, <1>9, <1>10, <1>11, <1>12, <1>13, <1>14, <1>15 DEF FrameLoop

LEMMA LevelInit ==
    ASSUME SessionInit PROVE LInv
<1> USE DEF SessionInit, Init, PlatformInit, AudioInit
<1>1. Idle.at = "idle"
  BY DEF Idle
<1>2. Waiting = {}
  BY <1>1, OwnerThread DEF Waiting
<1>3. IsFiniteSet(Waiting) /\ Entered = 0
  BY <1>2, FS_EmptySet DEF Entered
<1>4. Entered * BufferBytes = 0 /\ FmodBytes \in Nat
  BY <1>3, BytesNat
<1>5. LevelInv
  BY <1>3, <1>4 DEF LevelInv
<1>6. DeviceInv
  BY <1>1 DEF DeviceInv, Cleared, QuietStages, PlayStages
<1>7. AllowedInv
  BY DEF AllowedInv
<1> QED BY <1>5, <1>6, <1>7 DEF LInv

LEMMA LevelStep ==
    ASSUME IInv, PInv, SInv, LInv, [SessionNext]_sessionVars PROVE LInv'
<1>1. CASE UNCHANGED sessionVars
  <2>1. UNCHANGED <<stage, open, known, level, loop, do, size, primed>>
    BY <1>1 DEF sessionVars, vars, platformVars, audioVars
  <2> QED BY <2>1, LevelStutter DEF PlayStages
<1>2. CASE MainStep
  BY <1>2, MainKeepsLevel
<1>3. CASE PlatformStep
  BY <1>3, PlatformKeepsLevel
<1>4. CASE SoundStep
  <2>1. UNCHANGED stage
    BY <1>4 DEF SoundStep, vars
  <2> QED BY <1>4, <2>1, DrainKeepsLevel, GuestKeepsLevel, FrameKeepsLevel DEF SoundStep, SoundStages
<1> QED BY <1>1, <1>2, <1>3, <1>4 DEF SessionNext

THEOREM LevelSafe == SessionSpec => []LInv
<1>1. SessionInit => LInv
  BY LevelInit
<1>2. IInv /\ PInv /\ SInv /\ LInv /\ [SessionNext]_sessionVars => LInv'
  BY LevelStep
<1> QED BY <1>1, <1>2, PlatformSafe, SoundSafe, PTL DEF SessionSpec

\* However the mixer, the callback and the guest threads share the device,
\* it never has more queued than either pull allows, but for what guest
\* threads queue on their own account (jni_bridge.c:2411-2425,
\* opensl_bridge.c:278).
THEOREM QueueStaysBounded == SessionSpec => []QueueBounded
<1>1. ASSUME LInv PROVE QueueBounded
  <2> DEFINE pulls == {3 * FmodBytes, 2 * BufferBytes}
             most == CHOOSE p \in pulls : \A q \in pulls : q <= p
  <2>1. 3 * FmodBytes \in Nat /\ 2 * BufferBytes \in Nat
    BY BytesNat
  <2>2. \E p \in pulls : \A q \in pulls : q <= p
    BY <2>1
  <2>3. most \in pulls /\ \A q \in pulls : q <= most
    BY <2>2
  <2>4. most \in Nat /\ 3 * FmodBytes <= most /\ 2 * BufferBytes <= most
    BY <2>1, <2>3
  <2> HIDE DEF most
  <2>5. Entered * BufferBytes \in Nat /\ Entered * BufferBytes <= primed * BufferBytes
        /\ primed * BufferBytes \in Nat
    <3>1. /\ Entered \in Nat /\ primed \in Nat /\ Cardinality(Waiting) \in Nat
          /\ primed = Entered + Cardinality(Waiting)
      BY <1>1, FS_CardinalityType DEF LInv, LevelInv, Entered
    <3>2. primed * BufferBytes = Entered * BufferBytes + Cardinality(Waiting) * BufferBytes
      BY <3>1, BytesNat
    <3> QED BY <3>1, <3>2, BytesNat
  <2>6. ASSUME NEW d \in Devices PROVE level[d] <= most + primed * BufferBytes
    <3>1. /\ level[d] \in Nat
          /\ \/ level[d] <= 3 * FmodBytes + Entered * BufferBytes
             \/ level[d] <= 2 * BufferBytes + Entered * BufferBytes
      BY <1>1 DEF LInv, LevelInv
    <3> QED BY <2>1, <2>4, <2>5, <3>1
  <2> QED BY <2>6 DEF QueueBounded, most
<1> QED BY <1>1, LevelSafe, PTL
-----------------------------------------------------------------------------
(* The guest's GL state.                                                   *)

\* Whatever is captured or drawn, the state is as before.
LEMMA PresentedSame ==
    ASSUME NEW g \in GlStates, NEW capture \in BOOLEAN, NEW cursor \in BOOLEAN
    PROVE  Presented(g, capture, cursor) = g
<1>1. /\ g = [framebuffer |-> g.framebuffer, scissor |-> g.scissor, box |-> g.box,
              color |-> g.color, mask |-> g.mask]
      /\ g.scissor \in BOOLEAN
  BY PlatformAssumption
<1>2. Captured(g) = g
  BY <1>1 DEF Captured
<1>3. CursorDrawn(g) = g
  BY <1>1 DEF CursorDrawn
<1> QED BY <1>2, <1>3 DEF Presented

LEMMA GlSteps ==
    ASSUME gl \in GlStates, SessionNext
    PROVE  gl' \in GlStates /\ (loop = "present" => gl' = gl)
<1>1. CASE MainStep
  BY <1>1 DEF MainStep, platformVars
<1>2. CASE PlatformStep
  BY <1>2 DEF PlatformStep, Probe, ProbeOpen, ProbeInit, ProbeWindow, ProbeContext, ProbeGl,
     ProbeUnwind, ProbeController, ProbeAudio, ProbeQueue, ProbeQuit, Start, StartOpen,
     StartInit, StartWindow, StartContext, StartController, Acquire, Stop, StopAudio,
     StopVideo, StopQuit, StopClose, StopClear, To
<1>3. ASSUME NEW t, OpenDevice(t) \/ StoreDevice(t) \/ EnqueueSamples(t) \/ EnqueueSize(t)
                    \/ Enqueue(t) \/ AskQueued(t) \/ AnswerQueued(t)
      PROVE  gl' = gl
  BY <1>3 DEF OpenDevice, StoreDevice, EnqueueSamples, QueueSamples, EnqueueSize, Enqueue,
     AskQueued, AnswerQueued, Stray, Crash, frameVars
<1>4. CASE GuestSound \/ Drain
  BY <1>3, <1>4 DEF GuestSound, Drain, CreatePlayer, Register, RegisterContext, DestroyPlayer,
     DestroyRest, frameVars
<1>5. CASE FrameLoop
  <2>1. CASE Present
    <3>1. PICK capture, cursor \in BOOLEAN : gl' = Presented(gl, capture, cursor)
      BY <2>1 DEF Present
    <3> QED BY <3>1, PresentedSame
  <2>2. CASE Tick
    BY <2>2 DEF Tick
  <2>3. CASE EnterLoop \/ FmodStarts \/ FmodAnswered \/ Mixer
    BY <2>3 DEF EnterLoop, FmodStarts, FmodAnswered, Mixer
  <2>4. CASE PumpCheck \/ PumpLevel \/ PumpLoad \/ CallbackEnqueues \/ PumpReturns
    BY <2>4 DEF PumpCheck, PumpLevel, PumpLoad, CallbackEnqueues, PumpReturns
  <2>5. CASE PumpCall \/ FmodQueue
    BY <2>5 DEF PumpCall, Crash, FmodQueue, QueueSamples, Stray, frameVars
  <2> QED BY <1>3, <1>5, <2>1, <2>2, <2>3, <2>4, <2>5 DEF FrameLoop
<1> QED BY <1>1, <1>2, <1>4, <1>5 DEF SessionNext, SoundStep

\* Presenting a frame leaves the game's GL state as it was, whatever it is.
THEOREM GlKept == SessionSpec => GuestGlKept
<1>1. SessionInit => gl \in GlStates
  BY DEF SessionInit, PlatformInit
<1>2. gl \in GlStates /\ [SessionNext]_sessionVars => (gl \in GlStates)'
  BY GlSteps DEF sessionVars, platformVars
<1>3. gl \in GlStates /\ [SessionNext]_sessionVars =>
          [loop = "present" => gl' = gl]_<<platformVars, audioVars>>
  BY GlSteps DEF sessionVars, platformVars, audioVars
<1> QED BY <1>1, <1>2, <1>3, PTL DEF SessionSpec, GuestGlKept
=============================================================================
