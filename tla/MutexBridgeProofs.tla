-------------------------- MODULE MutexBridgeProofs --------------------------
(***************************************************************************)
(* Proofs about MutexBridge for any threads, guest mutexes and heap.       *)
(***************************************************************************)
EXTENDS MutexBridge, TLAPS

\* A call past the read of the word.
Busy(t) == call[t].at # "guest"
OnHost(t) == call[t].at \in {"install", "host"}

\* Where a call can be.
CallInv ==
    \A t \in Threads :
        /\ Busy(t) => call[t].g \in Guests
        /\ call[t].at = "create" => call[t].h \in Words
        /\ OnHost(t) => call[t].h \in heap
        /\ call[t].op \in {"unlock", "destroy"} => call[t].at \in {"guest", "host"}
        /\ Busy(t) /\ call[t].op = "unlock" => held[t][call[t].g] > 0
        /\ Busy(t) /\ call[t].op \in {"init", "destroy"} =>
              \A u \in Threads : Busy(u) /\ call[u].g = call[t].g => u = t

\* A host object belongs to one guest mutex: no two words and no call on
\* another mutex share it.
PrivateInv ==
    /\ \A g \in Guests : IsHost(slot[g]) => slot[g] \in heap
    /\ \A f, g \in Guests : IsHost(slot[g]) /\ slot[f] = slot[g] => f = g
    /\ \A t \in Threads : OnHost(t) =>
          \A g \in Guests : slot[g] = call[t].h => g = call[t].g
    /\ \A t, u \in Threads :
          OnHost(t) /\ OnHost(u) /\ call[t].h = call[u].h => call[t].g = call[u].g

\* An object not yet stored is known to its creator only, and free.
FreshInv ==
    \A t \in Threads : call[t].at = "install" =>
        /\ \A g \in Guests : slot[g] # call[t].h
        /\ \A u \in Threads : OnHost(u) /\ call[u].h = call[t].h => u = t
        /\ owner[call[t].h] = None

\* Without a race a creation is alone, and a call is on the current object.
UnracedInv ==
    \A t \in Threads : Busy(t) /\ call[t].g \notin raced =>
        /\ call[t].at = "host" => slot[call[t].g] = call[t].h
        /\ call[t].at \in {"create", "install"} =>
              /\ ~IsHost(slot[call[t].g])
              /\ \A u \in Threads : Busy(u) /\ call[u].g = call[t].g => u = t

\* Owner and depth of a host mutex.
OwnerInv ==
    \A h \in heap :
        /\ owner[h] = None <=> count[h] = 0
        /\ kind[h] # "recursive" => count[h] \in {0, 1}

IInv ==
    /\ TypeOK
    /\ CallInv
    /\ PrivateInv
    /\ FreshInv
    /\ UnracedInv
    /\ OwnerInv
    /\ HostAgreesWithGuest

-----------------------------------------------------------------------------
(* The entry points move thread t into a call on g and change no mutex.    *)

Entered(t, g) ==
    /\ call' \in [Threads -> CallType]
    /\ \A u \in Threads : u # t => call'[u] = call[u]
    /\ call[t].at = "guest"
    /\ call'[t].g = g
    /\ call'[t].at \in {"create", "host"}
    /\ call'[t].at = "create" => call'[t].h \in Words
    /\ call'[t].at = "host" => IsHost(slot[g]) /\ call'[t].h = slot[g]
    /\ UNCHANGED <<heap, kind, owner, count, held>>

Other(u, t, g) == u # t /\ call[u].at # "guest" /\ call[u].g = g

\* What an entry must know to keep the invariant: an exclusive operation
\* enters alone, nobody enters during one, unlock and destroy do not
\* create, and a creation is alone or marks the race.
EntryRules(t, g) ==
    /\ call'[t].op \in {"unlock", "destroy"} => call'[t].at = "host"
    /\ call'[t].op = "unlock" => held[t][g] > 0
    /\ \A u \in Threads : Other(u, t, g) =>
          /\ call'[t].op \notin {"init", "destroy"}
          /\ call[u].op \notin {"init", "destroy"}
          /\ call'[t].at = "create" /\ g \notin raced' => call[u].at = "host"
    /\ \A f \in Guests : slot'[f] \in Hosts \/ slot[f] \in Hosts => slot'[f] = slot[f]
    /\ slot' \in [Guests -> Hosts \cup Words]
    /\ raced \subseteq raced' /\ raced' \subseteq Guests
    /\ call'[t].at = "create" => slot[g] \notin Hosts

\* An entry that only changes call keeps the invariant.
LEMMA EntryKeeps ==
    ASSUME IInv, NEW t \in Threads, NEW g \in Guests, Entered(t, g), EntryRules(t, g)
    PROVE  IInv'
<1> USE HostSlotsAssumption DEF IInv, Busy, OnHost, IsHost
<1>1. TypeOK'
  BY DEF TypeOK, Entered, EntryRules
<1>2. CallInv'
  BY MutexAssumption DEF CallInv, TypeOK, PrivateInv, Entered, EntryRules, Other
<1>3. /\ \A f \in Guests : slot'[f] \in Hosts => slot'[f] = slot[f]
      /\ \A f \in Guests : slot[f] \in Hosts => slot'[f] = slot[f]
  BY DEF EntryRules
<1>4. \A u \in Threads : call'[u].at \in {"install", "host"} =>
         \/ u # t /\ call'[u] = call[u]
         \/ u = t /\ slot[g] \in Hosts /\ call'[u].h = slot[g]
            /\ call'[u].g = g /\ call'[u].at = "host"
  BY DEF Entered
<1>5. PrivateInv'
  <2>1. \A f \in Guests : slot'[f] \in Hosts => slot'[f] \in heap'
    BY <1>3 DEF PrivateInv, Entered
  <2>2. \A f, e \in Guests : slot'[e] \in Hosts /\ slot'[f] = slot'[e] => f = e
    BY <1>3 DEF PrivateInv
  <2>3. ASSUME NEW u \in Threads, call'[u].at \in {"install", "host"}, NEW f \in Guests,
               slot'[f] = call'[u].h
        PROVE  f = call'[u].g
    <3>1. CASE u # t
      <4>1. call[u].h \in Hosts
        BY <1>4, <2>3, <3>1 DEF CallInv, TypeOK
      <4> QED BY <1>3, <1>4, <2>3, <3>1, <4>1 DEF PrivateInv
    <3>2. CASE u = t
      BY <1>3, <1>4, <2>3, <3>2 DEF PrivateInv
    <3> QED BY <3>1, <3>2
  <2>4. ASSUME NEW u \in Threads, NEW v \in Threads,
               call'[u].at \in {"install", "host"}, call'[v].at \in {"install", "host"},
               call'[u].h = call'[v].h
        PROVE  call'[u].g = call'[v].g
    BY <1>4, <2>4 DEF PrivateInv
  <2> QED BY <2>1, <2>2, <2>3, <2>4 DEF PrivateInv
<1>6. FreshInv'
  <2> SUFFICES ASSUME NEW u \in Threads, call'[u].at = "install"
               PROVE  /\ \A f \in Guests : slot'[f] # call'[u].h
                      /\ \A v \in Threads : call'[v].at \in {"install", "host"}
                            /\ call'[v].h = call'[u].h => v = u
                      /\ owner'[call'[u].h] = None
    BY DEF FreshInv
  <2>1. u # t /\ call'[u] = call[u] /\ call[u].h \in Hosts
    BY <1>4 DEF CallInv, TypeOK
  <2> QED BY <2>1, <1>3, <1>4 DEF FreshInv, Entered
<1>7. UnracedInv'
  <2> SUFFICES ASSUME NEW u \in Threads, call'[u].at # "guest", call'[u].g \notin raced'
               PROVE  /\ call'[u].at = "host" => slot'[call'[u].g] = call'[u].h
                      /\ call'[u].at \in {"create", "install"} =>
                           /\ ~(slot'[call'[u].g] \in Hosts)
                           /\ \A v \in Threads : call'[v].at # "guest"
                                 /\ call'[v].g = call'[u].g => v = u
    BY DEF UnracedInv
  <2>1. call'[u].g \in Guests /\ call'[u].g \notin raced
    BY <1>2 DEF CallInv, EntryRules
  <2>2. CASE u = t
    <3>1. call'[u].at = "host" => slot'[g] = call'[u].h
      BY <2>2, <1>3, <1>4 DEF Entered
    <3>2. ASSUME call'[u].at = "create", NEW v \in Threads, v # t, call[v].at # "guest",
                 call[v].g = g
          PROVE  FALSE
      <4>1. call[v].at = "host" /\ slot[g] \notin Hosts
        BY <3>2, <2>2 DEF EntryRules, Other, Entered
      <4> QED BY <4>1, <3>2, <2>1, <2>2 DEF UnracedInv, CallInv, TypeOK, Entered
    <3> QED BY <3>1, <3>2, <2>2, <1>3 DEF Entered, EntryRules
  <2>3. CASE u # t
    <3>1. call'[u] = call[u]
      BY <2>3 DEF Entered
    <3>2. CASE call[u].at = "host"
      <4>1. call[u].h \in Hosts /\ slot[call[u].g] = call[u].h
        BY <2>1, <3>1, <3>2 DEF UnracedInv, CallInv, TypeOK
      <4> QED BY <4>1, <3>1, <3>2, <2>1, <1>3
    <3>3. CASE call[u].at \in {"create", "install"}
      <4>1. /\ slot[call[u].g] \notin Hosts
            /\ \A v \in Threads : call[v].at # "guest" /\ call[v].g = call[u].g => v = u
        BY <2>1, <3>1, <3>3 DEF UnracedInv
      <4>2. call[u].g # g
        BY <2>1, <2>3, <3>1, <3>3, <4>1 DEF EntryRules, Other, Entered
      <4> QED BY <1>3, <2>1, <3>1, <3>3, <4>1, <4>2 DEF Entered
    <3> QED BY <3>1, <3>2, <3>3 DEF TypeOK, CallType
  <2> QED BY <2>2, <2>3
<1>8. OwnerInv'
  BY DEF OwnerInv, Entered
<1>9. HostAgreesWithGuest'
  BY <1>3 DEF HostAgreesWithGuest, Entered, EntryRules
<1> QED BY <1>1, <1>2, <1>5, <1>6, <1>7, <1>8, <1>9

\* BeginInit keeps the invariant.
LEMMA BeginInitKeeps ==
    ASSUME IInv, NEW t \in Threads, NEW g \in Guests, NEW type \in Words,
           BeginInit(t, g, type)
    PROVE  IInv'
<1> USE HostSlotsAssumption, MutexAssumption DEF BeginInit, EnterInit, AtGuest, IsHost
<1>1. Entered(t, g)
  BY DEF Entered, IInv, TypeOK, CallType
<1>2. EntryRules(t, g)
  BY DEF EntryRules, Other, Inside, Cleared, IInv, TypeOK
<1> QED BY <1>1, <1>2, EntryKeeps

\* Where a call is after the word was read.
LEMMA EnterEntered ==
    ASSUME IInv, NEW t \in Threads, NEW g \in Guests, NEW op \in Ops,
           NEW create \in BOOLEAN, Enter(t, op, g, create),
           UNCHANGED <<slot, heap, kind, owner, count, held>>
    PROVE  /\ Entered(t, g)
           /\ call'[t].op = op
           /\ call'[t].at = "create" => create /\ slot[g] \notin Hosts
           /\ raced \subseteq raced' /\ raced' \subseteq Guests
           /\ call'[t].at = "create" /\ g \notin raced' => Creating(g) = {}
<1> USE HostSlotsAssumption, MutexAssumption DEF Enter, AtGuest, IsHost, IInv, TypeOK
<1>1. CASE slot[g] \in Hosts
  <2>1. call' = [call EXCEPT ![t] =
                    [op |-> op, g |-> g, h |-> slot[g], at |-> "host"]]
        /\ raced' = raced
    BY <1>1
  <2>2. [op |-> op, g |-> g, h |-> slot[g], at |-> "host"] \in CallType
    BY DEF CallType
  <2> QED BY <1>1, <2>1, <2>2 DEF Entered
<1>2. CASE slot[g] \notin Hosts
  <2>1. /\ create
        /\ call' = [call EXCEPT ![t] =
                      [op |-> op, g |-> g, h |-> slot[g], at |-> "create"]]
        /\ raced' = IF Creating(g) = {} THEN raced ELSE raced \cup {g}
    BY <1>2
  <2>2. [op |-> op, g |-> g, h |-> slot[g], at |-> "create"] \in CallType
    BY DEF CallType
  <2> QED BY <1>2, <2>1, <2>2 DEF Entered
<1> QED BY <1>1, <1>2

\* BeginLock keeps the invariant.
LEMMA BeginLockKeeps ==
    ASSUME IInv, NEW t \in Threads, NEW g \in Guests, NEW op \in {"lock", "trylock"},
           BeginLock(t, g, op)
    PROVE  IInv'
<1>1. /\ Entered(t, g)
      /\ call'[t].op = op
      /\ call'[t].at = "create" => slot[g] \notin Hosts
      /\ raced \subseteq raced' /\ raced' \subseteq Guests
      /\ call'[t].at = "create" /\ g \notin raced' => Creating(g) = {}
  BY EnterEntered, MutexAssumption DEF BeginLock
<1>2. \A u \in Threads : Other(u, t, g) => u \in Inside(g)
  BY DEF Other, Inside
<1>3. \A u \in Threads : Other(u, t, g) /\ Creating(g) = {} => call[u].at = "host"
  BY <1>2 DEF Creating, Inside, IInv, TypeOK, CallType
<1>4. EntryRules(t, g)
  BY <1>1, <1>2, <1>3 DEF EntryRules, BeginLock, Usable, IInv, TypeOK
<1> QED BY <1>1, <1>4, EntryKeeps

\* BeginUnlock keeps the invariant.
LEMMA BeginUnlockKeeps ==
    ASSUME IInv, NEW t \in Threads, NEW g \in Guests, BeginUnlock(t, g)
    PROVE  IInv'
<1>1. /\ Entered(t, g)
      /\ call'[t].op = "unlock"
      /\ call'[t].at # "create"
      /\ raced \subseteq raced' /\ raced' \subseteq Guests
  BY EnterEntered, MutexAssumption DEF BeginUnlock
<1>2. \A u \in Threads : Other(u, t, g) => u \in Inside(g)
  BY DEF Other, Inside
<1>3. EntryRules(t, g)
  BY <1>1, <1>2 DEF EntryRules, Entered, BeginUnlock, Usable, IInv, TypeOK
<1> QED BY <1>1, <1>3, EntryKeeps

\* BeginDestroy keeps the invariant.
LEMMA BeginDestroyKeeps ==
    ASSUME IInv, NEW t \in Threads, NEW g \in Guests, BeginDestroy(t, g)
    PROVE  IInv'
<1>1. /\ Entered(t, g)
      /\ call'[t].op = "destroy"
      /\ call'[t].at # "create"
      /\ raced \subseteq raced' /\ raced' \subseteq Guests
  BY EnterEntered, MutexAssumption DEF BeginDestroy
<1>2. \A u \in Threads : ~Other(u, t, g)
  BY DEF BeginDestroy, Other, Inside
<1>3. EntryRules(t, g)
  BY <1>1, <1>2 DEF EntryRules, Entered, BeginDestroy, IInv, TypeOK
<1> QED BY <1>1, <1>3, EntryKeeps
-----------------------------------------------------------------------------
(* The creation of a host mutex, and the operations on it.               *)

\* UnlockEmpty keeps the invariant.
LEMMA UnlockEmptyKeeps ==
    ASSUME IInv, NEW t \in Threads, NEW g \in Guests, UnlockEmpty(t, g)
    PROVE  IInv'
<1> USE HostSlotsAssumption, MutexAssumption DEF IInv, Busy, OnHost, IsHost, UnlockEmpty, EnterEmpty, AtGuest
<1>1. TypeOK'
  BY DEF TypeOK, CallType
<1>2. CallInv'
  BY DEF CallInv, TypeOK
<1>3. PrivateInv'
  BY DEF PrivateInv, CallInv, FreshInv, TypeOK
<1>4. FreshInv'
  BY DEF FreshInv, PrivateInv, CallInv, TypeOK
<1>5. UnracedInv'
  BY DEF UnracedInv, CallInv, PrivateInv, TypeOK
<1>6. OwnerInv'
  BY DEF OwnerInv, CallInv, TypeOK
<1>7. HostAgreesWithGuest'
  BY DEF HostAgreesWithGuest, TypeOK
<1> QED BY <1>1, <1>2, <1>3, <1>4, <1>5, <1>6, <1>7

\* CreateMutex keeps the invariant.
LEMMA CreateMutexKeeps ==
    ASSUME IInv, NEW t \in Threads, NEW h \in Hosts, CreateMutex(t, h)
    PROVE  IInv'
<1> USE HostSlotsAssumption, MutexAssumption DEF IInv, Busy, OnHost, IsHost, CreateMutex, Allocated
<1>a. call[t].g \in Guests /\ call[t].h \in Words
  BY DEF CallInv
<1>1. TypeOK'
  <2>1. call[t] \in CallType
    BY DEF TypeOK
  <2>2. [call[t] EXCEPT !.h = h, !.at = "install"] \in CallType
    BY <2>1 DEF CallType
  <2>3. call' = [call EXCEPT ![t] = [call[t] EXCEPT !.h = h, !.at = "install"]]
    OBVIOUS
  <2> QED BY <1>a, <2>2, <2>3 DEF TypeOK
<1>2. CallInv'
  BY <1>a DEF CallInv, TypeOK
<1>3. PrivateInv'
  BY <1>a DEF PrivateInv, CallInv, FreshInv, TypeOK
<1>4. FreshInv'
  BY <1>a DEF FreshInv, PrivateInv, CallInv, TypeOK
<1>5. UnracedInv'
  BY <1>a DEF UnracedInv, CallInv, PrivateInv, TypeOK
<1>6. OwnerInv'
  BY <1>a DEF OwnerInv, CallInv, TypeOK
<1>7. HostAgreesWithGuest'
  BY <1>a DEF HostAgreesWithGuest, UnracedInv, PrivateInv, CallInv, OwnerInv, FreshInv, TypeOK
<1> QED BY <1>1, <1>2, <1>3, <1>4, <1>5, <1>6, <1>7

\* CreateFails keeps the invariant.
LEMMA CreateFailsKeeps ==
    ASSUME IInv, NEW t \in Threads, CreateFails(t)
    PROVE  IInv'
<1> USE HostSlotsAssumption, MutexAssumption DEF IInv, Busy, OnHost, IsHost, CreateFails, NoMemory, Return, NoCall, slotVars
<1>1. TypeOK'
  BY DEF TypeOK, CallType
<1>2. CallInv'
  BY DEF CallInv, TypeOK
<1>3. PrivateInv'
  BY DEF PrivateInv, CallInv, FreshInv, TypeOK
<1>4. FreshInv'
  BY DEF FreshInv, PrivateInv, CallInv, TypeOK
<1>5. UnracedInv'
  BY DEF UnracedInv, CallInv, PrivateInv, TypeOK
<1>6. OwnerInv'
  BY DEF OwnerInv, CallInv, TypeOK
<1>7. HostAgreesWithGuest'
  BY DEF HostAgreesWithGuest, UnracedInv, PrivateInv, CallInv, OwnerInv, FreshInv, TypeOK
<1> QED BY <1>1, <1>2, <1>3, <1>4, <1>5, <1>6, <1>7

\* InstallMutex keeps the invariant.
LEMMA InstallMutexKeeps ==
    ASSUME IInv, NEW t \in Threads, InstallMutex(t)
    PROVE  IInv'
<1> USE HostSlotsAssumption, MutexAssumption DEF IInv, Busy, OnHost, IsHost, InstallMutex, Install
<1>a. call[t].g \in Guests /\ call[t].h \in Hosts /\ call[t].h \in heap
  BY DEF CallInv, TypeOK
<1>1. TypeOK'
  <2>1. call' \in [Threads -> CallType]
    <3>1. call[t] \in CallType
      BY DEF TypeOK
    <3>2. [call[t] EXCEPT !.at = "host"] \in CallType
      BY <3>1 DEF CallType
    <3>3. call' = [call EXCEPT ![t] = [call[t] EXCEPT !.at = "host"]]
      OBVIOUS
    <3> QED BY <3>2, <3>3 DEF TypeOK
  <2>2. slot' \in [Guests -> Hosts \cup Words]
    BY <1>a DEF TypeOK
  <2> QED BY <2>1, <2>2 DEF TypeOK
<1>2. CallInv'
  BY <1>a DEF CallInv, TypeOK
<1>3. PrivateInv'
  BY <1>a DEF PrivateInv, CallInv, FreshInv, TypeOK
<1>4. FreshInv'
  BY <1>a DEF FreshInv, PrivateInv, CallInv, TypeOK
<1>5. UnracedInv'
  BY <1>a DEF UnracedInv, CallInv, PrivateInv, TypeOK
<1>6. OwnerInv'
  BY <1>a DEF OwnerInv, CallInv, TypeOK
<1>7. HostAgreesWithGuest'
  BY <1>a DEF HostAgreesWithGuest, UnracedInv, PrivateInv, CallInv, OwnerInv, FreshInv, TypeOK
<1> QED BY <1>1, <1>2, <1>3, <1>4, <1>5, <1>6, <1>7

\* InitReturns keeps the invariant.
LEMMA InitReturnsKeeps ==
    ASSUME IInv, NEW t \in Threads, InitReturns(t)
    PROVE  IInv'
<1> USE HostSlotsAssumption, MutexAssumption DEF IInv, Busy, OnHost, IsHost, InitReturns, At, Return, NoCall
<1>1. TypeOK'
  BY DEF TypeOK, CallType
<1>2. CallInv'
  BY DEF CallInv, TypeOK
<1>3. PrivateInv'
  BY DEF PrivateInv, CallInv, FreshInv, TypeOK
<1>4. FreshInv'
  BY DEF FreshInv, PrivateInv, CallInv, TypeOK
<1>5. UnracedInv'
  BY DEF UnracedInv, CallInv, PrivateInv, TypeOK
<1>6. OwnerInv'
  BY DEF OwnerInv, CallInv, TypeOK
<1>7. HostAgreesWithGuest'
  BY DEF HostAgreesWithGuest, UnracedInv, PrivateInv, CallInv, OwnerInv, FreshInv, TypeOK
<1> QED BY <1>1, <1>2, <1>3, <1>4, <1>5, <1>6, <1>7

\* Acquire keeps the invariant.
LEMMA AcquireKeeps ==
    ASSUME IInv, NEW t \in Threads, Acquire(t)
    PROVE  IInv'
<1> USE HostSlotsAssumption, MutexAssumption DEF IInv, Busy, OnHost, IsHost, Acquire, At, Return, NoCall
<1>a. call[t].g \in Guests /\ call[t].h \in Hosts /\ call[t].h \in heap
  BY DEF CallInv, TypeOK
<1>1. TypeOK'
  <2>1. call' \in [Threads -> CallType]
    BY DEF TypeOK, CallType
  <2>2. owner' \in [Hosts -> Threads \cup {None}]
    BY <1>a DEF TypeOK
  <2>3. count' \in [Hosts -> Nat]
    BY <1>a DEF TypeOK
  <2>4. held' \in [Threads -> [Guests -> Nat]]
    <3>1. held[t] \in [Guests -> Nat] /\ held[t][call[t].g] \in Nat
      BY <1>a DEF TypeOK
    <3>2. [held[t] EXCEPT ![call[t].g] = @ + 1] \in [Guests -> Nat]
      BY <1>a, <3>1
    <3>3. held' = [held EXCEPT ![t] = [held[t] EXCEPT ![call[t].g] = @ + 1]]
      BY <3>1
    <3> QED BY <3>2, <3>3 DEF TypeOK
  <2> QED BY <2>1, <2>2, <2>3, <2>4 DEF TypeOK
<1>2. CallInv'
  BY <1>a DEF CallInv, TypeOK
<1>3. PrivateInv'
  BY <1>a DEF PrivateInv, CallInv, FreshInv, TypeOK
<1>4. FreshInv'
  BY <1>a DEF FreshInv, PrivateInv, CallInv, TypeOK
<1>5. UnracedInv'
  BY <1>a DEF UnracedInv, CallInv, PrivateInv, TypeOK
<1>6. OwnerInv'
  BY <1>a DEF OwnerInv, CallInv, TypeOK
<1>7. HostAgreesWithGuest'
  BY <1>a DEF HostAgreesWithGuest, UnracedInv, PrivateInv, CallInv, OwnerInv, FreshInv, TypeOK
<1> QED BY <1>1, <1>2, <1>3, <1>4, <1>5, <1>6, <1>7

\* Refuse keeps the invariant.
LEMMA RefuseKeeps ==
    ASSUME IInv, NEW t \in Threads, Refuse(t)
    PROVE  IInv'
<1> USE HostSlotsAssumption, MutexAssumption DEF IInv, Busy, OnHost, IsHost, Refuse, At, Return, NoCall
<1>1. TypeOK'
  BY DEF TypeOK, CallType
<1>2. CallInv'
  BY DEF CallInv, TypeOK
<1>3. PrivateInv'
  BY DEF PrivateInv, CallInv, FreshInv, TypeOK
<1>4. FreshInv'
  BY DEF FreshInv, PrivateInv, CallInv, TypeOK
<1>5. UnracedInv'
  BY DEF UnracedInv, CallInv, PrivateInv, TypeOK
<1>6. OwnerInv'
  BY DEF OwnerInv, CallInv, TypeOK
<1>7. HostAgreesWithGuest'
  BY DEF HostAgreesWithGuest, UnracedInv, PrivateInv, CallInv, OwnerInv, FreshInv, TypeOK
<1> QED BY <1>1, <1>2, <1>3, <1>4, <1>5, <1>6, <1>7

\* Unlock keeps the invariant.
LEMMA UnlockKeeps ==
    ASSUME IInv, NEW t \in Threads, Unlock(t)
    PROVE  IInv'
<1> USE HostSlotsAssumption, MutexAssumption DEF IInv, Busy, OnHost, IsHost, Unlock, At, Return, NoCall
<1>a. call[t].g \in Guests /\ call[t].h \in Hosts /\ call[t].h \in heap
  BY DEF CallInv, TypeOK
<1>b. owner[call[t].h] = t => count[call[t].h] # 0
  BY <1>a DEF OwnerInv
<1>c. held[t][call[t].g] > 0
  BY DEF CallInv
<1>1. TypeOK'
  <2>1. call' \in [Threads -> CallType]
    BY DEF TypeOK, CallType
  <2>2. owner' \in [Hosts -> Threads \cup {None}]
    BY <1>a DEF TypeOK
  <2>3. count' \in [Hosts -> Nat]
    BY <1>a, <1>b DEF TypeOK
  <2>4. held' \in [Threads -> [Guests -> Nat]]
    <3>1. held[t] \in [Guests -> Nat] /\ held[t][call[t].g] \in Nat
      BY <1>a DEF TypeOK
    <3>2. [held[t] EXCEPT ![call[t].g] = @ - 1] \in [Guests -> Nat]
      BY <1>a, <3>1, <1>c
    <3>3. held' = [held EXCEPT ![t] = [held[t] EXCEPT ![call[t].g] = @ - 1]]
      BY <3>1
    <3> QED BY <3>2, <3>3 DEF TypeOK
  <2> QED BY <2>1, <2>2, <2>3, <2>4 DEF TypeOK
<1>2. CallInv'
  BY <1>a, <1>b, <1>c DEF CallInv, TypeOK
<1>3. PrivateInv'
  BY SMTT(40), <1>a, <1>b, <1>c DEF PrivateInv, CallInv, FreshInv, TypeOK
<1>4. FreshInv'
  BY <1>a, <1>b, <1>c DEF FreshInv, PrivateInv, CallInv, TypeOK
<1>5. UnracedInv'
  BY <1>a, <1>b, <1>c DEF UnracedInv, CallInv, PrivateInv, TypeOK
<1>6. OwnerInv'
  <2>1. ASSUME NEW h \in heap
        PROVE  /\ owner'[h] = None <=> count'[h] = 0
               /\ kind'[h] # "recursive" => count'[h] \in {0, 1}
    <3>1. CASE h # call[t].h
      BY <3>1, <1>a DEF OwnerInv, TypeOK
    <3>2. CASE h = call[t].h /\ ~(kind[h] = "normal" \/ owner[h] = t)
      BY <3>2, <1>a DEF OwnerInv, TypeOK
    <3>3. CASE h = call[t].h /\ kind[h] = "recursive" /\ owner[h] = t
      <4>1. count[h] \in Nat /\ count[h] # 0 /\ owner[h] # None
        BY <3>3, <1>a, <1>b DEF TypeOK
      <4>2. count'[h] = count[h] - 1
            /\ owner'[h] = IF count[h] - 1 = 0 THEN None ELSE owner[h]
        BY <3>3, <1>a DEF TypeOK
      <4> QED BY <3>3, <4>1, <4>2
    <3>4. CASE h = call[t].h /\ kind[h] # "recursive" /\ (kind[h] = "normal" \/ owner[h] = t)
      <4>1. count'[h] = 0 /\ owner'[h] = None
        BY <3>4, <1>a DEF TypeOK
      <4> QED BY <3>4, <4>1
    <3> QED BY <3>1, <3>2, <3>3, <3>4
  <2> QED BY <2>1 DEF OwnerInv
<1>7. HostAgreesWithGuest'
  BY <1>a, <1>b, <1>c DEF HostAgreesWithGuest, UnracedInv, PrivateInv, CallInv, OwnerInv, FreshInv, TypeOK
<1> QED BY <1>1, <1>2, <1>3, <1>4, <1>5, <1>6, <1>7

\* Destroy keeps the invariant.
LEMMA DestroyKeeps ==
    ASSUME IInv, NEW t \in Threads, Destroy(t)
    PROVE  IInv'
<1> USE HostSlotsAssumption, MutexAssumption DEF IInv, Busy, OnHost, IsHost, Destroy, At, Return, NoCall, Cleared
<1>a. call[t].g \in Guests /\ call[t].h \in Hosts /\ call[t].h \in heap
  BY DEF CallInv, TypeOK
<1>b. \A u \in Threads : u # t /\ call[u].at # "guest" => call[u].g # call[t].g
  BY DEF CallInv
<1>c. \A u \in Threads : u # t /\ call[u].at \in {"install", "host"} => call[u].h # call[t].h
  BY <1>a, <1>b DEF PrivateInv
<1>1. TypeOK'
  BY <1>a, <1>b, <1>c DEF TypeOK, CallType
<1>2. CallInv'
  BY <1>a, <1>b, <1>c DEF CallInv, TypeOK
<1>3. PrivateInv'
  <2>1. /\ ~OnHost(t)'
        /\ \A u \in Threads : u # t => call'[u] = call[u]
    BY DEF TypeOK
  <2>2. CASE owner[call[t].h] # None
    <3>1. UNCHANGED <<slot, heap>>
      BY <2>2
    <3> QED BY <2>1, <3>1 DEF PrivateInv
  <2>3. CASE owner[call[t].h] = None
    <3>1. /\ heap' = heap \ {call[t].h}
          /\ slot' \in [Guests -> Hosts \cup Words]
          /\ ~IsHost(slot'[call[t].g])
          /\ \A g \in Guests : g # call[t].g => slot'[g] = slot[g]
      BY <2>3, <1>a DEF TypeOK
    <3>2. \A g \in Guests : slot[g] = call[t].h => g = call[t].g
      BY <1>a DEF PrivateInv, CallInv
    <3> HIDE DEF Destroy
    <3>3. (\A g \in Guests : IsHost(slot[g]) => slot[g] \in heap)'
      BY <3>1, <3>2 DEF PrivateInv
    <3>4. (\A f, g \in Guests : IsHost(slot[g]) /\ slot[f] = slot[g] => f = g)'
      BY <3>1 DEF PrivateInv
    <3>5. ASSUME NEW u \in Threads, OnHost(u)',
                 NEW g \in Guests, slot'[g] = call'[u].h
          PROVE  g = call'[u].g
      <4>1. u # t /\ call'[u] = call[u] /\ OnHost(u)
        BY <2>1, <3>5
      <4>2. IsHost(call[u].h)
        BY <4>1 DEF CallInv, TypeOK
      <4> QED BY <3>1, <3>5, <4>1, <4>2 DEF PrivateInv
    <3>6. (\A u, v \in Threads :
             OnHost(u) /\ OnHost(v) /\ call[u].h = call[v].h => call[u].g = call[v].g)'
      BY <2>1 DEF PrivateInv
    <3> QED BY <3>3, <3>4, <3>5, <3>6 DEF PrivateInv
  <2> QED BY <2>2, <2>3
<1>4. FreshInv'
  BY <1>a, <1>b, <1>c DEF FreshInv, PrivateInv, CallInv, TypeOK
<1>5. UnracedInv'
  BY <1>a, <1>b, <1>c DEF UnracedInv, CallInv, PrivateInv, TypeOK
<1>6. OwnerInv'
  BY <1>a, <1>b, <1>c DEF OwnerInv, CallInv, TypeOK
<1>7. HostAgreesWithGuest'
  BY <1>a, <1>b, <1>c DEF HostAgreesWithGuest, UnracedInv, PrivateInv, CallInv, OwnerInv, FreshInv, TypeOK
<1> QED BY <1>1, <1>2, <1>3, <1>4, <1>5, <1>6, <1>7
-----------------------------------------------------------------------------
(* The theorems.                                                           *)

\* The invariant holds initially.
LEMMA InitIInv == Init => IInv
  BY HostSlotsAssumption, MutexAssumption
     DEF Init, NoCall, IInv, TypeOK, CallType, CallInv, PrivateInv, FreshInv, UnracedInv,
         OwnerInv, HostAgreesWithGuest, Busy, OnHost, IsHost

\* Every step keeps the invariant.
LEMMA NextIInv == IInv /\ [Next]_vars => IInv'
<1> SUFFICES ASSUME IInv, [Next]_vars
             PROVE  IInv'
  OBVIOUS
<1>1. ASSUME NEW t \in Threads, Step(t)
      PROVE  IInv'
  <2>1. ASSUME NEW g \in Guests, NEW type \in Words, BeginInit(t, g, type)
        PROVE  IInv'
    BY <2>1, BeginInitKeeps
  <2>2. ASSUME NEW g \in Guests, NEW op \in {"lock", "trylock"}, BeginLock(t, g, op)
        PROVE  IInv'
    BY <2>2, BeginLockKeeps
  <2>3. ASSUME NEW g \in Guests, BeginUnlock(t, g)
        PROVE  IInv'
    BY <2>3, BeginUnlockKeeps
  <2>4. ASSUME NEW g \in Guests, UnlockEmpty(t, g)
        PROVE  IInv'
    BY <2>4, UnlockEmptyKeeps
  <2>5. ASSUME NEW g \in Guests, BeginDestroy(t, g)
        PROVE  IInv'
    BY <2>5, BeginDestroyKeeps
  <2>6. ASSUME NEW h \in Hosts, CreateMutex(t, h)
        PROVE  IInv'
    BY <2>6, CreateMutexKeeps
  <2>7. CASE CreateFails(t)
    BY <2>7, CreateFailsKeeps
  <2>8. CASE InstallMutex(t)
    BY <2>8, InstallMutexKeeps
  <2>9. CASE InitReturns(t)
    BY <2>9, InitReturnsKeeps
  <2>10. CASE Acquire(t)
    BY <2>10, AcquireKeeps
  <2>11. CASE Refuse(t)
    BY <2>11, RefuseKeeps
  <2>12. CASE Unlock(t)
    BY <2>12, UnlockKeeps
  <2>13. CASE Destroy(t)
    BY <2>13, DestroyKeeps
  <2> QED
    BY <1>1, <2>1, <2>2, <2>3, <2>4, <2>5, <2>6, <2>7, <2>8, <2>9, <2>10, <2>11,
       <2>12, <2>13 DEF Step
<1>2. CASE UNCHANGED vars
  BY <1>2 DEF vars, IInv, TypeOK, CallInv, PrivateInv, FreshInv, UnracedInv, OwnerInv,
              HostAgreesWithGuest, Busy, OnHost, IsHost
<1> QED BY <1>1, <1>2 DEF Next

\* The inductive invariant holds in every reachable state.
THEOREM Invariance == Spec => []IInv
  BY InitIInv, NextIInv, PTL DEF Spec

\* Every variable keeps its type.
THEOREM TypeCorrect == Spec => []TypeOK
<1>1. IInv => TypeOK
  BY DEF IInv
<1> QED BY <1>1, Invariance, PTL

\* On a mutex without a first-use race the host object and the guest agree
\* who holds it and how deep.
THEOREM HostAgreement == Spec => []HostAgreesWithGuest
<1>1. IInv => HostAgreesWithGuest
  BY DEF IInv
<1> QED BY <1>1, Invariance, PTL

\* Mutual exclusion holds on every guest mutex whose first uses did not
\* overlap, whatever happened to the others.
THEOREM Exclusion == Spec => []ExclusionUnlessRaced
<1>1. IInv => ExclusionUnlessRaced
  BY HostSlotsAssumption DEF IInv, HostAgreesWithGuest, ExclusionUnlessRaced, Holds, TypeOK
<1> QED BY <1>1, Invariance, PTL

\* What a call on g that returns from the host mutex tells thread t.
Told(t, g) ==
    LET busy == \E u \in Threads : Holds(u, g) IN
    /\ call[t].op \in {"lock", "trylock"} =>
          IF held'[t][g] = held[t][g] THEN busy
          ELSE \A u \in Threads : Holds(u, g) => u = t
    /\ call[t].op = "unlock" => (HolderOf(g)' = None <=> held'[t][g] = 0)
    /\ call[t].op = "destroy" => (IsHost(slot'[g]) <=> busy)

\* Only the thread's own step makes its call return.
LEMMA OwnReturn ==
    ASSUME IInv, Next, NEW t \in Threads, call[t].at = "host", AtGuest(t)'
    PROVE  InitReturns(t) \/ Acquire(t) \/ Refuse(t) \/ Unlock(t) \/ Destroy(t)
<1>1. call \in [Threads -> CallType] /\ call'[t].at = "guest"
  BY DEF IInv, TypeOK, AtGuest
<1>2. PICK u \in Threads : Step(u)
  BY DEF Next
<1>3. u = t
  <2>1. ASSUME NEW g \in Guests,
               \/ \E type \in Words : BeginInit(u, g, type)
               \/ \E op \in {"lock", "trylock"} : BeginLock(u, g, op)
               \/ BeginUnlock(u, g) \/ UnlockEmpty(u, g) \/ BeginDestroy(u, g)
        PROVE  u = t
    BY <1>1, <2>1 DEF BeginInit, BeginLock, BeginUnlock, UnlockEmpty, BeginDestroy, Enter, EnterInit
  <2>2. ASSUME NEW h \in Hosts, CreateMutex(u, h) PROVE u = t
    BY <1>1, <2>2 DEF CreateMutex, Allocated
  <2>3. CASE InstallMutex(u)
    BY <1>1, <2>3 DEF InstallMutex, Install
  <2>4. CASE CreateFails(u) \/ InitReturns(u) \/ Acquire(u) \/ Refuse(u) \/ Unlock(u) \/ Destroy(u)
    BY <1>1, <2>4 DEF CreateFails, NoMemory, InitReturns, Acquire, Refuse, Unlock, Destroy, Return
  <2> QED BY <1>2, <2>1, <2>2, <2>3, <2>4 DEF Step
<1>4. ~AtGuest(t) /\ call[t].at \notin {"create", "install"}
  BY DEF AtGuest
<1> QED
  BY <1>2, <1>3, <1>4 DEF Step, BeginInit, BeginLock, BeginUnlock, UnlockEmpty, BeginDestroy,
     EnterEmpty, Enter, EnterInit, CreateMutex, Allocated, CreateFails, NoMemory, InstallMutex, Install

LEMMA ToldTrue ==
    ASSUME IInv, Next, NEW t \in Threads, NEW g \in Guests \ raced,
           call[t].at = "host", call[t].g = g, AtGuest(t)'
    PROVE  Told(t, g)
<1> DEFINE h == call[t].h
<1>1. /\ h \in Hosts /\ h \in heap /\ slot[g] = h
      /\ slot \in [Guests -> Hosts \cup Words]
      /\ held \in [Threads -> [Guests -> Nat]]
      /\ owner \in [Hosts -> Threads \cup {None}] /\ count \in [Hosts -> Nat]
      /\ None \notin Threads /\ Hosts \cap Words = {} /\ "normal" \in Words
  BY HostSlotsAssumption, MutexAssumption
     DEF IInv, TypeOK, CallInv, UnracedInv, Busy, OnHost
<1>2. \A u \in Threads : held[u][g] = IF owner[h] = u THEN count[h] ELSE 0
  BY <1>1 DEF IInv, HostAgreesWithGuest, IsHost
<1>3. /\ owner[h] = None <=> count[h] = 0
      /\ kind[h] # "recursive" => count[h] \in {0, 1}
  BY <1>1 DEF IInv, OwnerInv
<1>4. \A u \in Threads : Holds(u, g) <=> owner[h] = u
  BY <1>1, <1>2, <1>3 DEF Holds
<1>5. CASE InitReturns(t)
  BY <1>5 DEF InitReturns, At, Told
<1>6. CASE Acquire(t)
  <2>1. call[t].op \in {"lock", "trylock"} /\ owner[h] \in {None, t}
    BY <1>6 DEF Acquire, At
  <2>2. held'[t][g] = held[t][g] + 1
    BY <1>1, <1>6 DEF Acquire
  <2>3. held'[t][g] # held[t][g]
    BY <1>1, <2>2
  <2> QED BY <1>1, <1>4, <2>1, <2>3 DEF Told
<1>7. CASE Refuse(t)
  <2>1. call[t].op \in {"lock", "trylock"} /\ owner[h] # None
    BY <1>1, <1>7 DEF Refuse, At
  <2>2. owner[h] \in Threads /\ Holds(owner[h], g)
    BY <1>1, <1>4, <2>1
  <2>3. held'[t][g] = held[t][g]
    BY <1>7 DEF Refuse
  <2> QED BY <2>1, <2>2, <2>3 DEF Told
<1>8. CASE Unlock(t)
  <2>1. call[t].op = "unlock" /\ held[t][g] > 0 /\ UNCHANGED slot
    BY <1>8 DEF Unlock, At, IInv, CallInv, Busy
  <2>2. owner[h] = t /\ count[h] = held[t][g] /\ count[h] \in Nat \ {0}
    BY <1>1, <1>2, <2>1
  <2>3. /\ owner'[h] = IF kind[h] = "recursive" /\ count[h] # 1 THEN t ELSE None
        /\ held'[t][g] = held[t][g] - 1
    BY <1>1, <1>8, <2>2 DEF Unlock
  <2>4. kind[h] # "recursive" => count[h] = 1
    BY <1>3, <2>2
  <2>5. HolderOf(g)' = owner'[h]
    BY <1>1, <2>1 DEF HolderOf, IsHost
  <2> QED BY <1>1, <2>1, <2>2, <2>3, <2>4, <2>5 DEF Told
<1>9. CASE Destroy(t)
  <2>1. call[t].op = "destroy"
    BY <1>9 DEF Destroy, At
  <2>2. IsHost(slot'[g]) <=> owner[h] # None
    BY <1>1, <1>9 DEF Destroy, IsHost, Cleared
  <2>3. (\E u \in Threads : Holds(u, g)) <=> owner[h] # None
    BY <1>1, <1>4
  <2> QED BY <2>1, <2>2, <2>3 DEF Told
<1> QED BY <1>5, <1>6, <1>7, <1>8, <1>9, OwnReturn

\* The host answers for what the guest threads hold: a lock is granted only
\* while no other thread has the mutex and refused (EBUSY, EDEADLK) only while
\* somebody has it, the last unlock leaves it free, and destroy gives the
\* object up just when nobody has it, all without a first-use race.
LocksAnswerTrue ==
    [][\A t \in Threads, g \in Guests \ raced :
          call[t].at = "host" /\ call[t].g = g /\ AtGuest(t)' => Told(t, g)]_vars

\* Every lock, try, unlock and destroy on a mutex without a first-use race
\* is answered by what the guest threads hold (compat_bridge.c:585-640).
THEOREM Answers == Spec => LocksAnswerTrue
<1> DEFINE AllTold == \A t \in Threads, g \in Guests \ raced :
                         call[t].at = "host" /\ call[t].g = g /\ AtGuest(t)' => Told(t, g)
<1>1. IInv /\ [Next]_vars => [AllTold]_vars
  <2> SUFFICES ASSUME IInv, Next PROVE AllTold
    OBVIOUS
  <2> QED BY ToldTrue
<1> QED BY <1>1, Invariance, PTL DEF Spec, LocksAnswerTrue

\* No guest word and no call in flight refers to a freed host mutex.
THEOREM NoDangling == Spec => []NoDanglingHost
<1>1. IInv => NoDanglingHost
  BY DEF IInv, CallInv, PrivateInv, OnHost, NoDanglingHost
<1> QED BY <1>1, Invariance, PTL

\* Only an init creates the host mutex of a prepared guest mutex, so that its
\* creation never races.
Calm ==
    /\ raced \subseteq Lazy
    /\ \A t \in Threads :
          call[t].at = "create" /\ call[t].op # "init" => call[t].g \in Lazy

\* Prepared mutexes never race.
LEMMA CalmInvariance == Spec => []Calm
<1> USE DEF Calm
<1>1. Init => Calm
  BY DEF Init, NoCall
<1>2. IInv /\ Calm /\ [Next]_vars => Calm'
  <2> SUFFICES ASSUME IInv, Calm, [Next]_vars
               PROVE  Calm'
    OBVIOUS
  <2> USE DEF IInv, TypeOK
  <2>1. ASSUME NEW t \in Threads, Step(t)
        PROVE  Calm'
    <3>1. CASE \E g \in Guests, type \in Words : BeginInit(t, g, type)
      BY <3>1 DEF BeginInit, EnterInit
    <3>2. CASE \E g \in Guests : \/ \E op \in {"lock", "trylock"} : BeginLock(t, g, op)
                                  \/ BeginUnlock(t, g)
                                  \/ BeginDestroy(t, g)
      BY <3>2 DEF BeginLock, BeginUnlock, BeginDestroy, Enter, IsHost
    <3>3. CASE \E g \in Guests : UnlockEmpty(t, g)
      BY <3>3 DEF UnlockEmpty
    <3>4. CASE \E h \in Hosts : CreateMutex(t, h)
      BY <3>4 DEF CreateMutex, Allocated
    <3>5. CASE CreateFails(t)
      BY <3>5 DEF CreateFails, NoMemory, Return, NoCall, slotVars
    <3>6. CASE InstallMutex(t)
      BY <3>6 DEF InstallMutex, Install
    <3>7. CASE InitReturns(t) \/ Acquire(t) \/ Refuse(t) \/ Unlock(t) \/ Destroy(t)
      BY <3>7 DEF InitReturns, Acquire, Refuse, Unlock, Destroy, Return, NoCall
    <3> QED BY <2>1, <3>1, <3>2, <3>3, <3>4, <3>5, <3>6, <3>7 DEF Step
  <2>2. CASE UNCHANGED vars
    BY <2>2 DEF vars
  <2> QED BY <2>1, <2>2 DEF Next
<1> QED BY <1>1, <1>2, Invariance, PTL DEF Spec

\* A guest mutex that is initialised before it is shared excludes without a
\* proviso.
THEOREM PreparedExclusion == Spec => []PreparedExcludes
<1>1. IInv /\ Calm => PreparedExcludes
  BY HostSlotsAssumption
     DEF Calm, IInv, HostAgreesWithGuest, PreparedExcludes, Prepared, Holds, TypeOK
<1> QED BY <1>1, CalmInvariance, Invariance, PTL

\* ... and behaves as the abstract one: a successful lock is a Take, an unlock
\* a Give, and every other step of the bridge is invisible, as is every step
\* on a lazy mutex.
THEOREM PreparedRefinement == Spec => ImplementsGuestMutex
<1> DEFINE Same == \A g \in Prepared :
                      /\ HolderOf(g)' = HolderOf(g) /\ DepthOf(g)' = DepthOf(g)
                      /\ \A t \in Threads : held'[t][g] = held[t][g]
<1>1. Init => Mutex!Init
  BY HostSlotsAssumption DEF Init, Mutex!Init, HolderOf, DepthOf, IsHost, Prepared
<1>2. IInv /\ Calm /\ [Next]_vars => [Mutex!Next]_(Mutex!mvars)
  <2> SUFFICES ASSUME IInv, Calm, [Next]_vars
               PROVE  Mutex!Next \/ UNCHANGED Mutex!mvars
    OBVIOUS
  <2> USE HostSlotsAssumption, MutexAssumption
  <2>a. Same => UNCHANGED Mutex!mvars
    BY DEF Mutex!mvars
  <2>b. Prepared \subseteq Guests
    BY DEF Prepared
  <2>1. ASSUME NEW t \in Threads, Step(t)
        PROVE  Mutex!Next \/ UNCHANGED Mutex!mvars
    <3> DEFINE g == call[t].g
               h == call[t].h
    <3>1. CASE \E f \in Guests :
                 \/ \E op \in {"lock", "trylock"} : BeginLock(t, f, op)
                 \/ BeginUnlock(t, f) \/ BeginDestroy(t, f)
      <4>1. Same
        BY <2>b, <3>1 DEF BeginLock, BeginUnlock, BeginDestroy, HolderOf, DepthOf, IsHost
      <4> QED BY <2>a, <4>1
    <3>2. CASE CreateFails(t) \/ InitReturns(t) \/ Refuse(t)
      <4>1. Same
        BY <2>b, <3>2 DEF CreateFails, NoMemory, slotVars, InitReturns, Refuse, HolderOf, DepthOf, IsHost
      <4> QED BY <2>a, <4>1
    <3>3. CASE \E f \in Guests, type \in Words : BeginInit(t, f, type)
      <4>1. Same
        BY <2>b, <3>3 DEF BeginInit, EnterInit, Cleared, HolderOf, DepthOf, IsHost, IInv, TypeOK
      <4> QED BY <2>a, <4>1
    <3>10. CASE \E f \in Guests : UnlockEmpty(t, f)
      <4>1. PICK f \in Guests : UnlockEmpty(t, f)
        BY <3>10
      <4>2. f \notin Prepared
        BY <4>1 DEF UnlockEmpty, EnterEmpty, IInv, HostAgreesWithGuest, Calm, Prepared
      <4>3. Same
        BY <2>b, <4>1, <4>2 DEF UnlockEmpty, HolderOf, DepthOf, IsHost, IInv, TypeOK
      <4> QED BY <2>a, <4>3
    <3>4. ASSUME NEW k \in Hosts, CreateMutex(t, k)
          PROVE  UNCHANGED Mutex!mvars
      <4>1. \A f \in Guests : IsHost(slot[f]) => slot[f] # k
        BY <3>4 DEF CreateMutex, Allocated, IInv, PrivateInv
      <4>2. Same
        BY <2>b, <3>4, <4>1 DEF CreateMutex, HolderOf, DepthOf, IsHost, IInv, TypeOK
      <4> QED BY <2>a, <4>2
    <3>5. CASE InstallMutex(t)
      <4>1. g \in Guests /\ h \in Hosts /\ h \in heap /\ owner[h] = None
        BY <3>5 DEF InstallMutex, Install, IInv, CallInv, TypeOK, FreshInv, Busy, OnHost
      <4>2. count[h] = 0
        BY <4>1 DEF IInv, OwnerInv
      <4>3. g \in Prepared => ~IsHost(slot[g])
        BY <3>5 DEF InstallMutex, Install, IInv, UnracedInv, Calm, Busy, Prepared
      <4>4. Same
        BY <2>b, <3>5, <4>1, <4>2, <4>3
           DEF InstallMutex, Install, HolderOf, DepthOf, IsHost, IInv, TypeOK
      <4> QED BY <2>a, <4>4
    <3>6. ASSUME call[t].at = "host"
          PROVE  /\ g \in Guests /\ h \in Hosts /\ h \in heap
                 /\ g \in Prepared => slot[g] = h
                 /\ \A f \in Guests : slot[f] = h => f = g
      BY <3>6 DEF IInv, CallInv, PrivateInv, UnracedInv, Calm, Busy, OnHost, TypeOK, Prepared
    <3>7. CASE Destroy(t)
      <4>1. owner[h] = None => count[h] = 0
        BY <3>6, <3>7 DEF Destroy, At, IInv, OwnerInv
      <4>2. Same
        BY <2>b, <3>6, <3>7, <4>1
           DEF Destroy, At, Cleared, HolderOf, DepthOf, IsHost, IInv, TypeOK
      <4> QED BY <2>a, <4>2
    <3>8. CASE Acquire(t)
      <4>1. call[t].at = "host"
        BY <3>8 DEF Acquire, At
      <4>2. CASE g \notin Prepared
        <5>1. Same
          BY <2>b, <3>6, <3>8, <4>1, <4>2 DEF Acquire, HolderOf, DepthOf, IsHost, IInv, TypeOK
        <5> QED BY <2>a, <5>1
      <4>3. CASE g \in Prepared
        <5>1. HolderOf(g) \in {None, t}
          BY <3>6, <3>8, <4>1, <4>3 DEF Acquire, HolderOf, IsHost
        <5>2. \A f \in Prepared :
                 /\ HolderOf(f)' = IF f = g THEN t ELSE HolderOf(f)
                 /\ DepthOf(f)' = IF f = g THEN DepthOf(f) + 1 ELSE DepthOf(f)
          BY <2>b, <3>6, <3>8, <4>1, <4>3
             DEF Acquire, HolderOf, DepthOf, IsHost, IInv, TypeOK
        <5>3. \A u \in Threads, f \in Prepared :
                 held'[u][f] = IF u = t /\ f = g THEN held[u][f] + 1 ELSE held[u][f]
          BY <2>b, <3>8, <4>3 DEF Acquire, IInv, TypeOK
        <5>4. PICK f \in Prepared : f = g
          BY <4>3
        <5>5. Mutex!Take(t, f)
          <6>1. [p \in Prepared |-> HolderOf(p)]'
                   = [[p \in Prepared |-> HolderOf(p)] EXCEPT ![f] = t]
            BY <5>2, <5>4 DEF Prepared
          <6>2. [p \in Prepared |-> DepthOf(p)]'
                   = [[p \in Prepared |-> DepthOf(p)] EXCEPT ![f] = @ + 1]
            BY <5>2, <5>4 DEF Prepared
          <6>3. [u \in Threads |-> [p \in Prepared |-> held[u][p]]]'
                   = [[u \in Threads |-> [p \in Prepared |-> held[u][p]]]
                        EXCEPT ![t][f] = @ + 1]
            <7> DEFINE d == held[t][f] + 1
            <7>1. \A u \in Threads, p \in Prepared :
                     held'[u][p] = IF u = t /\ p = f THEN d ELSE held[u][p]
              BY <5>3, <5>4
            <7>2. [u \in Threads |-> [p \in Prepared |-> held'[u][p]]]
                     = [[u \in Threads |-> [p \in Prepared |-> held[u][p]]]
                          EXCEPT ![t][f] = d]
              <8> DEFINE A == [u \in Threads |-> [p \in Prepared |-> held[u][p]]]
                         B == [u \in Threads |-> [p \in Prepared |-> held'[u][p]]]
              <8> HIDE DEF d
              <8>1. B[t] = [A[t] EXCEPT ![f] = d]
                BY <7>1
              <8>2. \A u \in Threads : u # t => B[u] = A[u]
                BY <7>1
              <8>3. [A EXCEPT ![t][f] = d] = [A EXCEPT ![t] = [A[t] EXCEPT ![f] = d]]
                OBVIOUS
              <8>4. B = [u \in Threads |-> IF u = t THEN [A[t] EXCEPT ![f] = d] ELSE A[u]]
                BY <8>1, <8>2
              <8> QED BY <8>3, <8>4
            <7>3. [u \in Threads |-> [p \in Prepared |-> held[u][p]]][t][f] = held[t][f]
              OBVIOUS
            <7> QED BY <7>2, <7>3 DEF Prepared
          <6> QED BY <5>1, <5>4, <6>1, <6>2, <6>3 DEF Mutex!Take
        <5> QED BY <5>5 DEF Mutex!Next
      <4> QED BY <4>2, <4>3
    <3>9. CASE Unlock(t)
      <4>1. call[t].at = "host" /\ call[t].op = "unlock"
        BY <3>9 DEF Unlock, At
      <4>2. CASE g \notin Prepared
        <5>1. Same
          BY <2>b, <3>6, <3>9, <4>1, <4>2 DEF Unlock, HolderOf, DepthOf, IsHost, IInv, TypeOK
        <5> QED BY <2>a, <5>1
      <4>3. CASE g \in Prepared
        <5>1. held[t][g] > 0
          BY <4>1 DEF IInv, CallInv, Busy
        <5>2. owner[h] = t /\ count[h] \in Nat \ {0}
          BY <3>6, <4>1, <4>3, <5>1
             DEF IInv, HostAgreesWithGuest, Calm, IsHost, TypeOK, Prepared
        <5>3. kind[h] # "recursive" => count[h] = 1
          BY <3>6, <4>1, <5>2 DEF IInv, OwnerInv
        <5>4. /\ count' = [count EXCEPT ![h] = count[h] - 1]
              /\ owner' = [owner EXCEPT ![h] = IF count[h] = 1 THEN None ELSE t]
              /\ slot' = slot
          BY <3>6, <3>9, <4>1, <5>2, <5>3 DEF Unlock, IInv, TypeOK
        <5>5. \A f \in Prepared :
                 /\ HolderOf(f)' = IF f # g THEN HolderOf(f)
                                   ELSE IF count[h] = 1 THEN None ELSE t
                 /\ DepthOf(f)' = IF f # g THEN DepthOf(f) ELSE count[h] - 1
          BY <2>b, <3>6, <4>1, <4>3, <5>4 DEF HolderOf, DepthOf, IsHost, IInv, TypeOK
        <5>6. HolderOf(g) = t /\ DepthOf(g) = count[h]
          BY <3>6, <4>1, <4>3, <5>2 DEF HolderOf, DepthOf, IsHost
        <5>7. \A u \in Threads, f \in Prepared :
                 held'[u][f] = IF u = t /\ f = g THEN held[u][f] - 1 ELSE held[u][f]
          BY <2>b, <3>9, <4>3 DEF Unlock, IInv, TypeOK
        <5>8. PICK f \in Prepared : f = g
          BY <4>3
        <5>9. Mutex!Give(t, f)
          <6>1. [p \in Prepared |-> DepthOf(p)]'
                   = [[p \in Prepared |-> DepthOf(p)] EXCEPT ![f] = @ - 1]
            BY <5>5, <5>6, <5>8 DEF Prepared
          <6>2. [p \in Prepared |-> HolderOf(p)]'
                   = [[p \in Prepared |-> HolderOf(p)]
                        EXCEPT ![f] = IF DepthOf(f) = 1 THEN None ELSE t]
            BY <5>5, <5>6, <5>8 DEF Prepared
          <6>3. [u \in Threads |-> [p \in Prepared |-> held[u][p]]]'
                   = [[u \in Threads |-> [p \in Prepared |-> held[u][p]]]
                        EXCEPT ![t][f] = @ - 1]
            <7> DEFINE d == held[t][f] - 1
            <7>1. \A u \in Threads, p \in Prepared :
                     held'[u][p] = IF u = t /\ p = f THEN d ELSE held[u][p]
              BY <5>7, <5>8
            <7>2. [u \in Threads |-> [p \in Prepared |-> held'[u][p]]]
                     = [[u \in Threads |-> [p \in Prepared |-> held[u][p]]]
                          EXCEPT ![t][f] = d]
              <8> DEFINE A == [u \in Threads |-> [p \in Prepared |-> held[u][p]]]
                         B == [u \in Threads |-> [p \in Prepared |-> held'[u][p]]]
              <8> HIDE DEF d
              <8>1. B[t] = [A[t] EXCEPT ![f] = d]
                BY <7>1
              <8>2. \A u \in Threads : u # t => B[u] = A[u]
                BY <7>1
              <8>3. [A EXCEPT ![t][f] = d] = [A EXCEPT ![t] = [A[t] EXCEPT ![f] = d]]
                OBVIOUS
              <8>4. B = [u \in Threads |-> IF u = t THEN [A[t] EXCEPT ![f] = d] ELSE A[u]]
                BY <8>1, <8>2
              <8> QED BY <8>3, <8>4
            <7>3. [u \in Threads |-> [p \in Prepared |-> held[u][p]]][t][f] = held[t][f]
              OBVIOUS
            <7> QED BY <7>2, <7>3 DEF Prepared
          <6> QED BY <5>6, <5>8, <6>1, <6>2, <6>3 DEF Mutex!Give
        <5> QED BY <5>9 DEF Mutex!Next
      <4> QED BY <4>2, <4>3
    <3> QED BY <2>1, <3>1, <3>2, <3>3, <3>4, <3>5, <3>7, <3>8, <3>9, <3>10 DEF Step
  <2>2. CASE UNCHANGED vars
    <3>1. Same
      BY <2>2 DEF vars, HolderOf, DepthOf, IsHost
    <3> QED BY <2>a, <3>1
  <2> QED BY <2>1, <2>2 DEF Next
<1> QED BY <1>1, <1>2, CalmInvariance, Invariance, PTL
        DEF Spec, ImplementsGuestMutex, Mutex!Spec
=============================================================================
