----------------------------- MODULE MutexBridge -----------------------------
(***************************************************************************)
(* pthread_mutex_init, destroy, lock, trylock and unlock as the bridge     *)
(* offers them to guest code, over host mutexes found through HostSlots.   *)
(*                                                                         *)
(* The guest follows POSIX: it initialises and destroys a mutex while no   *)
(* other thread is inside a call on it, unlocks what it locked, does not   *)
(* initialise a mutex twice and does not relock a normal mutex it holds.   *)
(***************************************************************************)
EXTENDS HostSlots

CONSTANTS Lazy,     (* guest mutexes that may be locked when they are only *)
                    (* initialised statically (PTHREAD_MUTEX_INITIALIZER); *)
                    (* the others are locked after pthread_mutex_init      *)
          MaxHold   (* bound on the depth of a recursive lock              *)

ASSUME MutexAssumption ==
    /\ Lazy \subseteq Guests
    /\ MaxHold \in Nat \ {0}
    /\ Words = {"normal", "recursive", "errorcheck"}
    /\ Ops = {"none", "init", "destroy", "lock", "trylock", "unlock"}

VARIABLES kind,   (* kind[h]: type the host mutex was initialised with     *)
          owner,  (* owner[h]: thread that owns the host mutex             *)
          count,  (* count[h]: recursion depth of the owner                *)
          held    (* held[t][g]: locks of g that succeeded for t and that  *)
                  (* t has not unlocked yet, as the guest sees it          *)

vars == <<slot, heap, call, raced, kind, owner, count, held>>

\* Nobody may call into g while it is being initialised or destroyed.
Usable(g) == \A t \in Inside(g) : call[t].op \notin {"init", "destroy"}

\* The word 0 encodes a normal mutex.
Cleared == "normal"

\* The type the guest gave g.
TypeOf(g) == IF IsHost(slot[g]) THEN kind[slot[g]] ELSE slot[g]

At(t, op) == call[t].at = "host" /\ call[t].op = op

TypeOK ==
    /\ slot \in [Guests -> Hosts \cup Words]
    /\ heap \subseteq Hosts
    /\ call \in [Threads -> CallType]
    /\ raced \subseteq Guests
    /\ kind \in [Hosts -> Words]
    /\ owner \in [Hosts -> Threads \cup {None}]
    /\ count \in [Hosts -> Nat]
    /\ held \in [Threads -> [Guests -> Nat]]

\* Guest memory starts with any static initialiser, and no host object.
Init ==
    /\ slot \in [Guests -> Words]
    /\ heap = {}
    /\ call = [t \in Threads |-> NoCall]
    /\ raced = {}
    /\ kind = [h \in Hosts |-> "normal"]
    /\ owner = [h \in Hosts |-> None]
    /\ count = [h \in Hosts |-> 0]
    /\ held = [t \in Threads |-> [g \in Guests |-> 0]]
-----------------------------------------------------------------------------
(* Entry points, up to the read of the guest word.                         *)

\* compat_pthread_mutex_init with attribute type `type`.
BeginInit(t, g, type) ==
    /\ ~IsHost(slot[g])
    /\ Inside(g) = {}
    /\ EnterInit(t, "init", g, Cleared, type)
    /\ UNCHANGED <<heap, raced, kind, owner, count, held>>

\* compat_pthread_mutex_lock and _trylock create on first use.
BeginLock(t, g, op) ==
    /\ Usable(g)
    /\ g \in Lazy \/ IsHost(slot[g])
    /\ held[t][g] < MaxHold
    /\ op = "lock" /\ TypeOf(g) = "normal" => held[t][g] = 0
    /\ Enter(t, op, g, TRUE)
    /\ UNCHANGED <<slot, heap, kind, owner, count, held>>

\* compat_pthread_mutex_unlock does not create.
BeginUnlock(t, g) ==
    /\ Usable(g)
    /\ held[t][g] > 0
    /\ Enter(t, "unlock", g, FALSE)
    /\ UNCHANGED <<slot, heap, kind, owner, count, held>>

\* ... and returns EINVAL on an empty word: the guest has left its section.
UnlockEmpty(t, g) ==
    /\ Usable(g)
    /\ held[t][g] > 0
    /\ EnterEmpty(t, g)
    /\ held' = [held EXCEPT ![t][g] = @ - 1]
    /\ UNCHANGED <<slot, heap, call, raced, kind, owner, count>>

\* compat_pthread_mutex_destroy does not create; on an empty word it
\* returns 0 and changes nothing.
BeginDestroy(t, g) ==
    /\ Inside(g) = {}
    /\ Enter(t, "destroy", g, FALSE)
    /\ UNCHANGED <<slot, heap, kind, owner, count, held>>
-----------------------------------------------------------------------------
(* Creation.                                                               *)

\* A host mutex of the type in the attribute or encoded in the word.
CreateMutex(t, h) ==
    /\ Allocated(t, h)
    /\ kind' = [kind EXCEPT ![h] = call[t].h]
    /\ owner' = [owner EXCEPT ![h] = None]
    /\ count' = [count EXCEPT ![h] = 0]
    /\ UNCHANGED <<slot, raced, held>>

CreateFails(t) == NoMemory(t) /\ UNCHANGED <<kind, owner, count, held>>

\* Mutant: the address is not stored, so the next call creates again.
InstallForgotten(t) ==
    /\ call[t].at = "install"
    /\ call' = [call EXCEPT ![t].at = "host"]
    /\ UNCHANGED <<slot, heap, raced, kind, owner, count, held>>

InstallMutex(t) == Install(t) /\ UNCHANGED <<kind, owner, count, held>>

InitReturns(t) ==
    /\ At(t, "init")
    /\ Return(t)
    /\ UNCHANGED <<slot, heap, raced, kind, owner, count, held>>
-----------------------------------------------------------------------------
(* The host mutex.                                                         *)

\* lock or trylock gets a free mutex, or one it may take again.
Acquire(t) ==
    LET h == call[t].h IN
    /\ At(t, "lock") \/ At(t, "trylock")
    /\ \/ owner[h] = None
       \/ owner[h] = t /\ kind[h] = "recursive"
    /\ owner' = [owner EXCEPT ![h] = t]
    /\ count' = [count EXCEPT ![h] = @ + 1]
    /\ held' = [held EXCEPT ![t][call[t].g] = @ + 1]
    /\ Return(t)
    /\ UNCHANGED <<slot, heap, raced, kind>>

\* EBUSY from trylock, EDEADLK from an error-checking mutex.
Refuse(t) ==
    LET h == call[t].h IN
    /\ \/ At(t, "trylock") /\ owner[h] # None
          /\ ~(owner[h] = t /\ kind[h] = "recursive")
       \/ At(t, "lock") /\ owner[h] = t /\ kind[h] = "errorcheck"
    /\ Return(t)
    /\ UNCHANGED <<slot, heap, raced, kind, owner, count, held>>

\* A normal host mutex is released whoever calls; the other types answer
\* EPERM to a thread that does not own them.
Unlock(t) ==
    LET h == call[t].h
        permitted == kind[h] = "normal" \/ owner[h] = t
        left == IF kind[h] = "recursive" THEN count[h] - 1 ELSE 0
    IN
    /\ At(t, "unlock")
    /\ IF permitted
       THEN /\ count' = [count EXCEPT ![h] = left]
            /\ owner' = [owner EXCEPT ![h] = IF left = 0 THEN None ELSE @]
       ELSE UNCHANGED <<owner, count>>
    /\ held' = [held EXCEPT ![t][call[t].g] = @ - 1]
    /\ Return(t)
    /\ UNCHANGED <<slot, heap, raced, kind>>

\* Mutant: the object is freed and the word cleared whatever the host says.
DestroyIgnoringBusy(t) ==
    /\ At(t, "destroy")
    /\ heap' = heap \ {call[t].h}
    /\ slot' = [slot EXCEPT ![call[t].g] = Cleared]
    /\ Return(t)
    /\ UNCHANGED <<raced, kind, owner, count, held>>

\* Mutant: the object is freed and the word left in place.
DestroyKeepingWord(t) ==
    /\ At(t, "destroy")
    /\ heap' = IF owner[call[t].h] # None THEN heap ELSE heap \ {call[t].h}
    /\ Return(t)
    /\ UNCHANGED <<slot, raced, kind, owner, count, held>>

\* The host refuses (EBUSY) while the mutex is owned; else the object is
\* freed and the word cleared.
Destroy(t) ==
    LET h == call[t].h IN
    /\ At(t, "destroy")
    /\ IF owner[h] # None
       THEN UNCHANGED <<slot, heap>>
       ELSE /\ heap' = heap \ {h}
            /\ slot' = [slot EXCEPT ![call[t].g] = Cleared]
    /\ Return(t)
    /\ UNCHANGED <<raced, kind, owner, count, held>>
-----------------------------------------------------------------------------
Step(t) ==
    \/ \E g \in Guests :
          \/ \E type \in Words : BeginInit(t, g, type)
          \/ \E op \in {"lock", "trylock"} : BeginLock(t, g, op)
          \/ BeginUnlock(t, g)
          \/ UnlockEmpty(t, g)
          \/ BeginDestroy(t, g)
    \/ \E h \in Hosts : CreateMutex(t, h)
    \/ CreateFails(t)
    \/ InstallMutex(t)
    \/ InitReturns(t)
    \/ Acquire(t)
    \/ Refuse(t)
    \/ Unlock(t)
    \/ Destroy(t)

Next == \E t \in Threads : Step(t)

Spec == Init /\ [][Next]_vars
-----------------------------------------------------------------------------
Holds(t, g) == held[t][g] > 0

\* Two guest threads are never both between a successful lock and the unlock
\* of the same guest mutex, unless two first uses of that mutex overlapped
\* (compat_bridge.c:547-566); a race on one guest mutex never harms another.
ExclusionUnlessRaced ==
    \A g \in Guests \ raced :
        \A t, u \in Threads : Holds(t, g) /\ Holds(u, g) => t = u

\* No call reaches a freed host mutex and no guest word points to one:
\* destroy frees the object and clears the word, also after a race.
NoDanglingHost ==
    /\ \A g \in Guests : IsHost(slot[g]) => slot[g] \in heap
    /\ \A t \in Threads : call[t].at \in {"install", "host"} => call[t].h \in heap

\* The state of the host mutex is the state the guest believes in: on a
\* mutex without a first-use race the owner and depth of the host object
\* are those of the guest's successful calls, and no object means no holder.
HostAgreesWithGuest ==
    \A g \in Guests \ raced : \A t \in Threads :
        held[t][g] = IF IsHost(slot[g]) /\ owner[slot[g]] = t
                     THEN count[slot[g]] ELSE 0

HolderOf(g) == IF IsHost(slot[g]) THEN owner[slot[g]] ELSE None
DepthOf(g) == IF IsHost(slot[g]) THEN count[slot[g]] ELSE 0

\* Guest mutexes that are initialised before they are shared.
Prepared == Guests \ Lazy

\* Two guest threads are never both inside a prepared mutex.
PreparedExcludes ==
    \A g \in Prepared : \A t, u \in Threads : Holds(t, g) /\ Holds(u, g) => t = u

\* Prepared mutexes are mutexes: whatever the host objects are created, freed
\* and reused for, and whatever races there are on the others, every prepared
\* guest mutex behaves as GuestMutex.
Mutex == INSTANCE GuestMutex
         WITH Guests <- Prepared,
              holder <- [g \in Prepared |-> HolderOf(g)],
              depth <- [g \in Prepared |-> DepthOf(g)],
              inside <- [t \in Threads |-> [g \in Prepared |-> held[t][g]]]

ImplementsGuestMutex == Mutex!Spec
=============================================================================
