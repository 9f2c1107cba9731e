--------------------------- MODULE CondBridgeProofs ---------------------------
(***************************************************************************)
(* Proofs about CondBridge for any threads, conditions and heap.           *)
(***************************************************************************)
EXTENDS CondBridge, TLAPS

Notices == {"signal", "broadcast"}

\* A thread in a wait has the mutex until it blocks; one that signals a
\* condition in SignalLocked has it throughout.
Locked(t) ==
    /\ call[t].at # "guest"
    /\ \/ call[t].op \in Waits /\ t \notin blocked \cup woken
       \/ call[t].op \in Notices /\ call[t].g \in SignalLocked

\* Creation is for init, or on first use; what is stored is a host object.
CallInv ==
    \A t \in Threads :
        /\ call[t].at \in {"create", "install"} /\ call[t].op # "init" =>
              call[t].g \in Lazy /\ call[t].op \in Waits \cup Notices
        /\ call[t].at = "install" => call[t].h \in Hosts
        /\ t \in blocked \cup woken => call[t].at = "host" /\ call[t].op \in Waits

IInv ==
    /\ TypeOK
    /\ CallInv
    /\ \A t \in Threads : Locked(t) => owner = t
    /\ LockedNeverRaces

\* The initial state has no call and no race.
LEMMA InitHolds == Init => IInv
BY HostSlotsAssumption, CondAssumption
DEF Init, IInv, TypeOK, CallInv, Locked, LockedNeverRaces, NoCall, CallType

\* Reading the word on the way into a wait or a signal: with the mutex held
\* no other creation is under way, so that no race is marked.
LEMMA EnterKeeps ==
    ASSUME IInv, NEW t \in Threads, NEW g \in Guests, NEW op \in Waits \cup Notices,
           op \in Waits \/ g \in SignalLocked => owner = t,
           Usable(g), g \in Lazy \/ IsHost(slot[g]), Enter(t, op, g, TRUE),
           UNCHANGED <<slot, heap, owner, blocked, woken>>
    PROVE  IInv'
<1> USE HostSlotsAssumption, CondAssumption DEF IInv, Waits, Notices, AtGuest, IsHost
<1>1. TypeOK'
  BY DEF TypeOK, Enter, CallType
<1>2. CallInv'
  BY DEF TypeOK, CallInv, Enter, CallType
<1>3. \A u \in Threads : Locked(u)' => owner' = u
  BY DEF TypeOK, Locked, Enter, CallType
<1>4. LockedNeverRaces'
  <2>1. CASE slot[g] \in Hosts \/ g \in Lazy \ SignalLocked
    BY <2>1 DEF LockedNeverRaces, Enter
  <2>2. CASE slot[g] \notin Hosts /\ g \in SignalLocked
    <3>1. ASSUME NEW u \in Creating(g)
          PROVE  FALSE
      <4>1. /\ u \in Threads /\ call[u].at \in {"create", "install"}
            /\ call[u].op # "init" /\ call[u].g = g
        BY <3>1 DEF Creating, Inside, Usable
      <4>2. Locked(u)
        BY <4>1, <2>2 DEF CallInv, Locked
      <4> QED BY <4>1, <4>2, <2>2 DEF Enter
    <3> QED BY <2>2, <3>1 DEF LockedNeverRaces, Enter
  <2> QED BY <2>1, <2>2
<1> QED BY <1>1, <1>2, <1>3, <1>4

\* Steps between calls, the entries of init and destroy, and creation.
LEMMA OtherEntriesKeep ==
    ASSUME IInv, NEW t \in Threads,
           \/ LockMutex(t) \/ UnlockMutex(t)
           \/ \E g \in Guests : BeginInit(t, g) \/ BeginDestroy(t, g)
           \/ \E h \in Hosts : CreateCond(t, h)
           \/ CreateFails(t) \/ InstallCond(t) \/ InitReturns(t)
    PROVE  IInv'
<1> USE HostSlotsAssumption, CondAssumption
    DEF IInv, TypeOK, CallInv, Locked, LockedNeverRaces, Waits, Notices, CallType,
        AtGuest, IsHost, At
<1>1. CASE LockMutex(t)
  BY <1>1 DEF LockMutex
<1>2. CASE UnlockMutex(t)
  BY <1>2 DEF UnlockMutex
<1>3. ASSUME NEW g \in Guests, BeginInit(t, g)
      PROVE  IInv'
  BY <1>3 DEF BeginInit, EnterInit
<1>4. ASSUME NEW g \in Guests, BeginDestroy(t, g)
      PROVE  IInv'
  BY <1>4 DEF BeginDestroy, Enter
<1>5. ASSUME NEW h \in Hosts, CreateCond(t, h)
      PROVE  IInv'
  <2>1. call[t] \in CallType /\ call[t].at = "create"
    BY <1>5 DEF CreateCond, Allocated
  <2>2. [call[t] EXCEPT !.h = h, !.at = "install"] \in CallType
    BY <2>1
  <2>3. call' = [call EXCEPT ![t] = [call[t] EXCEPT !.h = h, !.at = "install"]]
    BY <1>5 DEF CreateCond, Allocated
  <2>4. call' \in [Threads -> CallType]
    BY <2>2, <2>3
  <2>5. /\ call'[t].at = "install" /\ call'[t].op = call[t].op /\ call'[t].h = h
        /\ call'[t].g = call[t].g
        /\ \A u \in Threads : u # t => call'[u] = call[u]
    BY <2>1, <2>3
  <2>6. UNCHANGED <<slot, raced, owner, blocked, woken>> /\ heap' \subseteq Hosts
    BY <1>5 DEF CreateCond, Allocated
  <2> QED BY <2>1, <2>4, <2>5, <2>6
<1>6. CASE CreateFails(t)
  BY <1>6 DEF CreateFails, NoMemory, Return, NoCall, slotVars
<1>7. CASE InstallCond(t)
  <2>1. call[t] \in CallType /\ call[t].at = "install" /\ call[t].h \in Hosts
    BY <1>7 DEF InstallCond, Install
  <2>2. [call[t] EXCEPT !.at = "host"] \in CallType
    BY <2>1
  <2>3. call' = [call EXCEPT ![t] = [call[t] EXCEPT !.at = "host"]]
    BY <1>7 DEF InstallCond, Install
  <2>4. call' \in [Threads -> CallType]
    BY <2>2, <2>3
  <2>5. /\ call'[t].at = "host" /\ call'[t].op = call[t].op
        /\ call'[t].g = call[t].g
        /\ \A u \in Threads : u # t => call'[u] = call[u]
    BY <2>1, <2>3
  <2>6. /\ UNCHANGED <<heap, raced, owner, blocked, woken>>
        /\ slot' \in [Guests -> Hosts \cup Words]
    BY <1>7, <2>1 DEF InstallCond, Install
  <2> QED BY <2>1, <2>4, <2>5, <2>6
<1>8. CASE InitReturns(t)
  BY <1>8 DEF InitReturns, Return, NoCall
<1> QED BY <1>1, <1>2, <1>3, <1>4, <1>5, <1>6, <1>7, <1>8

\* Steps on the host condition.
LEMMA HostStepsKeep ==
    ASSUME IInv, NEW t \in Threads,
           \/ Block(t) \/ WakeUnasked(t) \/ Resume(t)
           \/ Signal(t) \/ Broadcast(t) \/ Destroy(t)
    PROVE  IInv'
<1> USE HostSlotsAssumption, CondAssumption
    DEF IInv, TypeOK, CallInv, Locked, LockedNeverRaces, Waits, Notices, CallType, At,
        Return, NoCall, Queue
<1>1. CASE Block(t)
  BY <1>1 DEF Block
<1>2. CASE WakeUnasked(t)
  BY <1>2 DEF WakeUnasked
<1>3. CASE Resume(t)
  BY <1>3 DEF Resume
<1>4. CASE Signal(t)
  BY <1>4 DEF Signal
<1>5. CASE Broadcast(t)
  BY <1>5 DEF Broadcast
<1>6. CASE Destroy(t)
  <2>1. call[t] \in CallType /\ NoCall \in CallType
    BY <1>6
  <2>2. call' = [call EXCEPT ![t] = NoCall]
    BY <1>6 DEF Destroy
  <2>3. call' \in [Threads -> CallType]
    BY <2>1, <2>2
  <2>4. /\ call'[t].at = "guest" /\ call'[t].op = "none"
        /\ \A u \in Threads : u # t => call'[u] = call[u]
    BY <2>1, <2>2
  <2>5. /\ UNCHANGED <<raced, owner, blocked, woken>>
        /\ heap' \subseteq Hosts /\ slot' \in [Guests -> Hosts \cup Words]
        /\ t \notin blocked \cup woken
    BY <1>6, <2>1 DEF Destroy
  <2> QED BY <2>3, <2>4, <2>5
<1> QED BY <1>1, <1>2, <1>3, <1>4, <1>5, <1>6

\* Every step keeps the invariant.
LEMMA StepKeeps == IInv /\ [Next]_vars => IInv'
<1> SUFFICES ASSUME IInv, [Next]_vars
             PROVE  IInv'
  OBVIOUS
<1>1. CASE UNCHANGED vars
  BY <1>1 DEF vars, IInv, TypeOK, CallInv, Locked, LockedNeverRaces
<1>2. ASSUME NEW t \in Threads, NEW g \in Guests, NEW op \in Waits, BeginWait(t, g, op)
      PROVE  IInv'
  BY <1>2, EnterKeeps DEF BeginWait
<1>3. ASSUME NEW t \in Threads, NEW g \in Guests, NEW op \in Notices, BeginSignal(t, g, op)
      PROVE  IInv'
  BY <1>3, EnterKeeps DEF BeginSignal, Notices, Waits
<1>4. CASE Next
  <2> PICK t \in Threads : Step(t)
    BY <1>4 DEF Next
  <2> QED BY <1>2, <1>3, OtherEntriesKeep, HostStepsKeep DEF Step, Notices
<1> QED BY <1>1, <1>4

\* The invariant holds of every behaviour.
THEOREM Invariance == Spec => []IInv
BY InitHolds, StepKeeps, PTL DEF Spec

\* The bridge's condition calls keep their types, and no thread is both
\* blocked and woken.
THEOREM TypeCorrect == Spec => []TypeOK
<1>1. IInv => TypeOK
  BY DEF IInv
<1> QED BY <1>1, Invariance, PTL

\* Guests that signal with the mutex held, or that initialise their
\* conditions, never race in the unlocked creation of compat_cond_get.
THEOREM NeverRaces == Spec => []LockedNeverRaces
<1>1. IInv => LockedNeverRaces
  BY DEF IInv
<1> QED BY <1>1, Invariance, PTL
-----------------------------------------------------------------------------
(* Host conditions are never used after they were freed.                   *)

HasHost(t) == call[t].at \in {"install", "host"}

\* A host condition belongs to one guest condition, whose calls alone reach
\* it, and whoever initialises or destroys a condition is alone with it.
BelongInv ==
    /\ \A t \in Threads : call[t].at # "guest" => call[t].g \in Guests
    /\ \A t \in Threads : HasHost(t) => call[t].h \in Hosts
    /\ \A g, f \in Guests : IsHost(slot[g]) /\ slot[g] = slot[f] => g = f
    /\ \A t \in Threads, g \in Guests : HasHost(t) /\ slot[g] = call[t].h => call[t].g = g
    /\ \A t, u \in Threads : HasHost(t) /\ HasHost(u) /\ call[t].h = call[u].h =>
          call[t].g = call[u].g
    /\ \A t \in Threads : call[t].op \in {"init", "destroy"} /\ call[t].at # "guest" =>
          \A u \in Threads \ {t} : call[u].at = "guest" \/ call[u].g # call[t].g

RefInv == NoDanglingHost /\ BelongInv

\* Reading the word.
LEMMA EnterRefs ==
    ASSUME TypeOK, RefInv, NEW t \in Threads, NEW g \in Guests, NEW op \in Ops, NEW create,
           Enter(t, op, g, create), UNCHANGED <<slot, heap>>,
           Usable(g), op \in {"init", "destroy"} => Inside(g) = {}
    PROVE  RefInv'
<1>1. /\ call'[t].op = op /\ call'[t].g = g
      /\ call'[t].at = "create" \/ (call'[t].at = "host" /\ call'[t].h = slot[g] /\ slot[g] \in Hosts)
      /\ \A u \in Threads \ {t} : call'[u] = call[u]
  BY DEF Enter, TypeOK, IsHost
<1>2. \A u \in Threads \ {t} : call[u].at # "guest" /\ call[u].g = g =>
          call[u].op \notin {"init", "destroy"} /\ op \notin {"init", "destroy"}
  BY DEF Usable, Inside
<1>3. NoDanglingHost'
  BY <1>1 DEF RefInv, NoDanglingHost, IsHost
<1>4. BelongInv'
  BY <1>1, <1>2 DEF RefInv, BelongInv, HasHost, IsHost
<1> QED BY <1>3, <1>4 DEF RefInv

\* A call that returns reaches nothing any more.
LEMMA ReturnRefs ==
    ASSUME TypeOK, RefInv, NEW t \in Threads, Return(t), UNCHANGED <<slot, heap>>
    PROVE  RefInv'
<1>1. call'[t].at = "guest" /\ \A u \in Threads \ {t} : call'[u] = call[u]
  BY DEF Return, NoCall, TypeOK
<1> QED BY <1>1 DEF RefInv, NoDanglingHost, BelongInv, HasHost, IsHost

LEMMA RefSteps ==
    ASSUME IInv, RefInv, NEW t \in Threads, Step(t)
    PROVE  RefInv'
<1> USE HostSlotsAssumption, CondAssumption DEF IInv
<1>1. CASE LockMutex(t) \/ UnlockMutex(t) \/ Block(t) \/ WakeUnasked(t)
  BY <1>1 DEF LockMutex, UnlockMutex, Block, WakeUnasked, RefInv, NoDanglingHost, BelongInv,
     HasHost, IsHost
<1>2. ASSUME NEW g \in Guests, BeginInit(t, g) PROVE RefInv'
  <2>1. /\ call'[t].op = "init" /\ call'[t].g = g /\ call'[t].at = "create"
        /\ \A u \in Threads \ {t} : call'[u] = call[u] /\ (call[u].at = "guest" \/ call[u].g # g)
        /\ \A f \in Guests : slot'[f] = IF f = g THEN "empty" ELSE slot[f]
        /\ heap' = heap /\ "empty" \notin Hosts
    BY <1>2 DEF BeginInit, EnterInit, TypeOK, Inside
  <2> QED BY <2>1 DEF RefInv, NoDanglingHost, BelongInv, HasHost, IsHost
<1>3. ASSUME NEW g \in Guests,
             \/ \E op \in Waits : BeginWait(t, g, op)
             \/ \E op \in {"signal", "broadcast"} : BeginSignal(t, g, op)
      PROVE  RefInv'
  BY <1>3, EnterRefs DEF BeginWait, BeginSignal, Waits
<1>4. ASSUME NEW g \in Guests, BeginDestroy(t, g) PROVE RefInv'
  <2>1. Usable(g)
    BY <1>4 DEF BeginDestroy, Usable
  <2> QED BY <1>4, <2>1, EnterRefs DEF BeginDestroy
<1>5. ASSUME NEW h \in Hosts, CreateCond(t, h) PROVE RefInv'
  <2>1. /\ h \notin heap /\ heap' = heap \cup {h} /\ slot' = slot
        /\ call[t].at = "create"
        /\ call'[t].h = h /\ call'[t].at = "install"
        /\ call'[t].op = call[t].op /\ call'[t].g = call[t].g
        /\ \A u \in Threads \ {t} : call'[u] = call[u]
    BY <1>5 DEF CreateCond, Allocated, TypeOK, CallType
  <2> QED BY <2>1 DEF RefInv, NoDanglingHost, BelongInv, HasHost, IsHost
<1>6. CASE CreateFails(t)
  BY <1>6, ReturnRefs DEF CreateFails, NoMemory, slotVars
<1>7. CASE InstallCond(t)
  <2>1. /\ heap' = heap /\ call[t].at = "install"
        /\ call'[t].h = call[t].h /\ call'[t].at = "host"
        /\ call'[t].op = call[t].op /\ call'[t].g = call[t].g
        /\ \A u \in Threads \ {t} : call'[u] = call[u]
    BY <1>7 DEF InstallCond, Install, TypeOK, CallType
  <2>2. \A f \in Guests : slot'[f] = IF f = call[t].g THEN call[t].h ELSE slot[f]
    BY <1>7 DEF InstallCond, Install, TypeOK
  <2> QED BY <2>1, <2>2 DEF RefInv, NoDanglingHost, BelongInv, HasHost, IsHost
<1>8. CASE InitReturns(t) \/ Resume(t) \/ Signal(t) \/ Broadcast(t)
  BY <1>8, ReturnRefs DEF InitReturns, Resume, Signal, Broadcast
<1>9. CASE Destroy(t)
  <2>1. /\ call[t].at = "host" /\ call[t].op = "destroy" /\ heap' = heap \ {call[t].h}
        /\ call'[t].at = "guest" /\ \A u \in Threads \ {t} : call'[u] = call[u]
    BY <1>9 DEF Destroy, At, Return, NoCall, TypeOK
  <2>2. \A f \in Guests : slot'[f] = IF f = call[t].g THEN "empty" ELSE slot[f]
    BY <1>9 DEF Destroy, TypeOK
  <2>3. "empty" \notin Hosts
    OBVIOUS
  <2>4. \A u \in Threads \ {t} : HasHost(u) => call[u].h # call[t].h
    BY <2>1 DEF RefInv, BelongInv, HasHost
  <2> QED BY <2>1, <2>2, <2>3, <2>4 DEF RefInv, NoDanglingHost, BelongInv, HasHost, IsHost
<1> QED BY <1>1, <1>2, <1>3, <1>4, <1>5, <1>6, <1>7, <1>8, <1>9 DEF Step

\* The invariant of references holds of every behaviour.
LEMMA RefInvariance == Spec => []RefInv
<1>1. Init => RefInv
  BY HostSlotsAssumption, CondAssumption
  DEF Init, RefInv, NoDanglingHost, BelongInv, HasHost, IsHost, NoCall
<1>2. IInv /\ RefInv /\ [Next]_vars => RefInv'
  <2> SUFFICES ASSUME IInv, RefInv, [Next]_vars PROVE RefInv'
    OBVIOUS
  <2>1. CASE UNCHANGED vars
    BY <2>1 DEF RefInv, NoDanglingHost, BelongInv, HasHost, IsHost, vars
  <2> QED BY <2>1, RefSteps DEF Next
<1> QED BY <1>1, <1>2, Invariance, PTL DEF Spec

\* No guest word and no call, not even one that lost a first-use race, ever
\* reaches a host condition that was freed.
THEOREM NeverDangling == Spec => []NoDanglingHost
<1>1. RefInv => NoDanglingHost
  BY DEF RefInv
<1> QED BY <1>1, RefInvariance, PTL
-----------------------------------------------------------------------------
(* Whom a signal reaches.                                                  *)

\* While the first uses of a condition do not overlap, at most one thread
\* creates its host condition, and every call has the one its word holds.
FreshInv ==
    \A t \in Threads : call[t].g \in Guests \ raced =>
        /\ call[t].at \in {"create", "install"} =>
              /\ ~IsHost(slot[call[t].g])
              /\ \A u \in Threads \ {t} :
                    call[u].g = call[t].g => call[u].at \notin {"create", "install"}
        /\ call[t].at = "host" => slot[call[t].g] = call[t].h

\* Reading the word: a second creation is marked as a race.
LEMMA EnterFresh ==
    ASSUME TypeOK, FreshInv, NEW t \in Threads, NEW g \in Guests, NEW op \in Ops, NEW create,
           Enter(t, op, g, create), UNCHANGED <<slot, heap>>
    PROVE  FreshInv'
<1>1. /\ call'[t].op = op /\ call'[t].g = g
      /\ \A u \in Threads \ {t} : call'[u] = call[u]
  BY DEF Enter, TypeOK
<1>2. CASE IsHost(slot[g])
  <2>1. call'[t].at = "host" /\ call'[t].h = slot[g] /\ raced' = raced
    BY <1>2 DEF Enter, TypeOK
  <2> QED BY <1>1, <1>2, <2>1 DEF FreshInv, IsHost
<1>3. CASE ~IsHost(slot[g])
  <2>1. call'[t].at = "create" /\ raced \subseteq raced'
    BY <1>3 DEF Enter, TypeOK
  <2>2. g \notin raced' =>
            \A u \in Threads : call[u].g = g => call[u].at \notin {"create", "install"}
    <3>1. g \notin raced' => Creating(g) = {}
      BY <1>3 DEF Enter
    <3> QED BY <3>1 DEF Creating, Inside
  <2> QED BY <1>1, <1>3, <2>1, <2>2 DEF FreshInv, IsHost
<1> QED BY <1>2, <1>3

\* A call that returns.
LEMMA ReturnFresh ==
    ASSUME TypeOK, FreshInv, NEW t \in Threads, Return(t), UNCHANGED <<slot, raced>>
    PROVE  FreshInv'
<1>1. /\ call'[t].at = "guest" /\ call'[t].g = None
      /\ \A u \in Threads \ {t} : call'[u] = call[u]
  BY DEF Return, NoCall, TypeOK
<1> QED BY <1>1, HostSlotsAssumption DEF FreshInv, IsHost

LEMMA FreshSteps ==
    ASSUME IInv, RefInv, FreshInv, NEW t \in Threads, Step(t)
    PROVE  FreshInv'
<1> USE HostSlotsAssumption, CondAssumption DEF IInv
<1>1. CASE LockMutex(t) \/ UnlockMutex(t) \/ Block(t) \/ WakeUnasked(t)
  BY <1>1 DEF LockMutex, UnlockMutex, Block, WakeUnasked, FreshInv, IsHost
<1>2. ASSUME NEW g \in Guests, BeginInit(t, g) PROVE FreshInv'
  <2>1. /\ call'[t].g = g /\ call'[t].at = "create" /\ raced' = raced
        /\ \A u \in Threads \ {t} : call'[u] = call[u] /\ (call[u].at = "guest" \/ call[u].g # g)
        /\ \A f \in Guests : slot'[f] = IF f = g THEN "empty" ELSE slot[f]
        /\ "empty" \notin Hosts
    BY <1>2 DEF BeginInit, EnterInit, TypeOK, Inside
  <2> QED BY <2>1 DEF FreshInv, IsHost
<1>3. ASSUME NEW g \in Guests,
             \/ \E op \in Waits : BeginWait(t, g, op)
             \/ \E op \in {"signal", "broadcast"} : BeginSignal(t, g, op)
             \/ BeginDestroy(t, g)
      PROVE  FreshInv'
  BY <1>3, EnterFresh DEF BeginWait, BeginSignal, BeginDestroy, Waits
<1>4. ASSUME NEW h \in Hosts, CreateCond(t, h) PROVE FreshInv'
  <2>1. /\ slot' = slot /\ raced' = raced /\ call[t].at = "create"
        /\ call'[t].at = "install" /\ call'[t].g = call[t].g
        /\ \A u \in Threads \ {t} : call'[u] = call[u]
    BY <1>4 DEF CreateCond, Allocated, TypeOK, CallType
  <2> QED BY <2>1 DEF FreshInv, IsHost
<1>5. CASE CreateFails(t)
  BY <1>5, ReturnFresh DEF CreateFails, NoMemory, slotVars
<1>6. CASE InstallCond(t)
  <2>1. /\ raced' = raced /\ call[t].at = "install" /\ call[t].g \in Guests
        /\ call'[t].h = call[t].h /\ call'[t].at = "host" /\ call'[t].g = call[t].g
        /\ \A u \in Threads \ {t} : call'[u] = call[u]
    BY <1>6 DEF InstallCond, Install, TypeOK, CallType, RefInv, BelongInv
  <2>2. \A f \in Guests : slot'[f] = IF f = call[t].g THEN call[t].h ELSE slot[f]
    BY <1>6 DEF InstallCond, Install, TypeOK
  <2>3. call[t].g \notin raced =>
            \A u \in Threads \ {t} : call[u].g = call[t].g => call[u].at = "guest"
    <3>1. SUFFICES ASSUME call[t].g \notin raced, NEW u \in Threads \ {t},
                          call[u].g = call[t].g, call[u].at # "guest"
                   PROVE  FALSE
      OBVIOUS
    <3>2. call[u].at = "host"
      BY <2>1, <3>1 DEF FreshInv, TypeOK, CallType
    <3>3. call[u].h \in Hosts
      BY <3>2 DEF RefInv, BelongInv, HasHost
    <3> QED BY <2>1, <3>1, <3>2, <3>3 DEF FreshInv, IsHost
  <2> QED BY <2>1, <2>2, <2>3 DEF FreshInv, IsHost
<1>7. CASE InitReturns(t) \/ Resume(t) \/ Signal(t) \/ Broadcast(t)
  BY <1>7, ReturnFresh DEF InitReturns, Resume, Signal, Broadcast
<1>8. CASE Destroy(t)
  <2>1. /\ call[t].at = "host" /\ call[t].op = "destroy" /\ raced' = raced
        /\ call'[t].at = "guest" /\ call'[t].g = None
        /\ \A u \in Threads \ {t} : call'[u] = call[u]
    BY <1>8 DEF Destroy, At, Return, NoCall, TypeOK
  <2>2. \A f \in Guests : slot'[f] = IF f = call[t].g THEN "empty" ELSE slot[f]
    BY <1>8 DEF Destroy, TypeOK
  <2>3. \A u \in Threads \ {t} : call[u].at = "guest" \/ call[u].g # call[t].g
    BY <2>1 DEF RefInv, BelongInv
  <2> QED BY <2>1, <2>2, <2>3 DEF FreshInv, IsHost
<1> QED BY <1>1, <1>2, <1>3, <1>4, <1>5, <1>6, <1>7, <1>8 DEF Step

\* The three invariants together hold of every behaviour.
LEMMA ReachInvariance == Spec => [](IInv /\ RefInv /\ FreshInv)
<1>1. Init => FreshInv
  BY HostSlotsAssumption DEF Init, FreshInv, NoCall
<1>2. IInv /\ RefInv /\ FreshInv /\ [Next]_vars => FreshInv'
  <2> SUFFICES ASSUME IInv, RefInv, FreshInv, [Next]_vars PROVE FreshInv'
    OBVIOUS
  <2>1. CASE UNCHANGED vars
    BY <2>1 DEF FreshInv, IsHost, vars
  <2> QED BY <2>1, FreshSteps DEF Next
<1> QED BY <1>1, <1>2, RefInvariance, Invariance, PTL DEF Spec

\* A signal on a condition whose first uses did not race wakes a thread that
\* waits on it, when there is one, and a broadcast wakes all of them.
THEOREM SignalsReachWaiters == Spec => SignalsReach
<1> DEFINE Reach ==
      \A t \in Threads : call[t].g \notin raced =>
          /\ Signal(t) /\ BlockedOn(call[t].g) # {} => woken' # woken
          /\ Broadcast(t) => BlockedOn(call[t].g) \subseteq woken'
<1>1. IInv /\ RefInv /\ FreshInv /\ [Next]_vars => [Reach]_vars
  <2> SUFFICES ASSUME IInv, RefInv, FreshInv, NEW t \in Threads, call[t].g \notin raced,
                      Signal(t) \/ Broadcast(t)
               PROVE  /\ Signal(t) /\ BlockedOn(call[t].g) # {} => woken' # woken
                      /\ Broadcast(t) => BlockedOn(call[t].g) \subseteq woken'
    OBVIOUS
  <2>1. call[t].at = "host" /\ call[t].g \in Guests
    BY DEF Signal, Broadcast, At, RefInv, BelongInv
  <2>2. \A u \in BlockedOn(call[t].g) : u \in Queue(call[t].h)
    <3> SUFFICES ASSUME NEW u \in BlockedOn(call[t].g)
                 PROVE  u \in Queue(call[t].h)
      OBVIOUS
    <3>1. u \in Threads /\ u \in blocked /\ call[u].g = call[t].g /\ call[u].at = "host"
      BY DEF BlockedOn, IInv, TypeOK, CallInv
    <3>2. call[u].h = slot[call[t].g] /\ call[t].h = slot[call[t].g]
      BY <2>1, <3>1 DEF FreshInv
    <3> QED BY <3>1, <3>2 DEF Queue
  <2>3. Queue(call[t].h) \cap woken = {}
    BY DEF Queue, IInv, TypeOK
  <2>4. Signal(t) /\ BlockedOn(call[t].g) # {} => woken' # woken
    <3> SUFFICES ASSUME Signal(t), BlockedOn(call[t].g) # {}
                 PROVE  woken' # woken
      OBVIOUS
    <3>1. Queue(call[t].h) # {}
      BY <2>2
    <3>2. PICK u \in Queue(call[t].h) : woken' = woken \cup {u}
      BY <3>1 DEF Signal
    <3> QED BY <3>2, <2>3
  <2>5. Broadcast(t) => BlockedOn(call[t].g) \subseteq woken'
    BY <2>2 DEF Broadcast
  <2> QED BY <2>4, <2>5
<1>2. SignalsReach <=> [][Reach]_vars
  BY PTL DEF SignalsReach
<1> HIDE DEF Reach
<1> QED BY <1>1, <1>2, ReachInvariance, PTL DEF Spec

\* A signal or a broadcast wakes no thread that waits on another condition,
\* whatever addresses calloc hands out again and whichever uses raced.
THEOREM SignalsWakeTheirOwn == Spec => WakesItsOwn
<1> DEFINE Own ==
      \A t \in Threads : Signal(t) \/ Broadcast(t) =>
          \A u \in woken' \ woken : call[u].g = call[t].g
<1>1. IInv /\ RefInv /\ FreshInv /\ [Next]_vars => [Own]_vars
  <2> SUFFICES ASSUME IInv, RefInv, NEW t \in Threads, Signal(t) \/ Broadcast(t),
                      NEW u \in woken' \ woken
               PROVE  call[u].g = call[t].g
    OBVIOUS
  <2>1. call[t].at = "host"
    BY DEF Signal, Broadcast, At
  <2>2. u \in Queue(call[t].h)
    BY DEF Signal, Broadcast
  <2>3. u \in Threads /\ call[u].at = "host" /\ call[u].h = call[t].h
    BY <2>2 DEF Queue, IInv, TypeOK, CallInv
  <2> QED BY <2>1, <2>3 DEF RefInv, BelongInv, HasHost
<1>2. WakesItsOwn <=> [][Own]_vars
  BY PTL DEF WakesItsOwn
<1> HIDE DEF Own
<1> QED BY <1>1, <1>2, ReachInvariance, PTL DEF Spec
=============================================================================
