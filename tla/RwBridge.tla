------------------------------- MODULE RwBridge -------------------------------
(***************************************************************************)
(* pthread_rwlock_init, destroy, rdlock, wrlock and unlock as the bridge   *)
(* offers them to guest code (runtime/src/compat_bridge.c:693-748), over   *)
(* host locks found through HostSlots.  The bridge has no entry for the    *)
(* try and timed variants.                                                 *)
(*                                                                         *)
(* The guest follows POSIX: it unlocks what it has locked, does not lock   *)
(* for reading what it reads already, and initialises and destroys a lock  *)
(* that nobody holds while no thread is inside a call on it.               *)
(*                                                                         *)
(* Words is {0}: whatever a lock without a host object holds is read as    *)
(* "none yet".                                                             *)
(***************************************************************************)
EXTENDS HostSlots, Integers

VARIABLES writer,   (* writer[h]: thread that has host lock h for writing  *)
          readers,  (* readers[h]: how often h is locked for reading; below*)
                    (* zero when unlocks went to a lock nobody had         *)
          holds     (* holds[g][t]: what t has of g, as the guest sees it  *)

lockVars == <<writer, readers, holds>>
vars == <<slotVars, call, lockVars>>

RwTypeOK ==
    /\ slot \in [Guests -> Hosts \cup {0}]
    /\ heap \subseteq Hosts /\ call \in [Threads -> CallType] /\ raced \subseteq Guests
    /\ writer \in [Hosts -> Threads \cup {None}] /\ readers \in [Hosts -> Int]
    /\ holds \in [Guests -> [Threads -> {"nothing", "read", "write"}]]

Init ==
    /\ slot = [g \in Guests |-> 0] /\ heap = {}
    /\ call = [t \in Threads |-> NoCall] /\ raced = {}
    /\ writer = [h \in Hosts |-> None] /\ readers = [h \in Hosts |-> 0]
    /\ holds = [g \in Guests |-> [t \in Threads |-> "nothing"]]

Free(g) == Inside(g) = {} /\ \A t \in Threads : holds[g][t] = "nothing"
Usable(g) == \A t \in Inside(g) : call[t].op \notin {"init", "destroy"}
At(t, op) == call[t].at = "host" /\ call[t].op = op
Gets(t, what) == holds' = [holds EXCEPT ![call[t].g][t] = what]
-----------------------------------------------------------------------------
BeginInit(t, g) ==
    /\ Free(g) /\ ~IsHost(slot[g])
    /\ EnterInit(t, "init", g, 0, 0)
    /\ UNCHANGED <<heap, raced, lockVars>>

BeginLock(t, g, op) ==
    /\ Usable(g)
    /\ op = "rdlock" => holds[g][t] # "read"
    /\ Enter(t, op, g, TRUE)
    /\ UNCHANGED <<slot, heap, lockVars>>

BeginUnlock(t, g) ==
    /\ Usable(g) /\ holds[g][t] # "nothing"
    /\ Enter(t, "unlock", g, FALSE)
    /\ UNCHANGED <<slot, heap, lockVars>>

BeginDestroy(t, g) ==
    /\ Free(g)
    /\ Enter(t, "destroy", g, FALSE)
    /\ UNCHANGED <<slot, heap, lockVars>>
-----------------------------------------------------------------------------
CreateLock(t, h) ==
    /\ Allocated(t, h)
    /\ writer' = [writer EXCEPT ![h] = None]
    /\ readers' = [readers EXCEPT ![h] = 0]
    /\ UNCHANGED <<slot, raced, holds>>

CreateFails(t) == NoMemory(t) /\ UNCHANGED lockVars

InstallLock(t) == Install(t) /\ UNCHANGED lockVars

InitReturns(t) ==
    /\ At(t, "init")
    /\ Return(t)
    /\ UNCHANGED <<slotVars, lockVars>>

\* EDEADLK to who has it for writing; else it waits for the writer to go.
ReadLock(t) ==
    LET h == call[t].h IN
    /\ At(t, "rdlock") /\ writer[h] \in {None, t}
    /\ IF writer[h] = t THEN UNCHANGED <<readers, holds>>
       ELSE readers' = [readers EXCEPT ![h] = @ + 1] /\ Gets(t, "read")
    /\ Return(t)
    /\ UNCHANGED <<slotVars, writer>>

\* Mutant: a writer does not wait for readers.
WriteLockOverReaders(t) ==
    LET h == call[t].h IN
    /\ At(t, "wrlock") /\ writer[h] = None
    /\ writer' = [writer EXCEPT ![h] = t] /\ Gets(t, "write")
    /\ Return(t)
    /\ UNCHANGED <<slotVars, readers>>

\* EDEADLK to the writer; else it waits until all others are gone, which
\* for a thread that reads is never.
WriteLock(t) ==
    LET h == call[t].h IN
    /\ At(t, "wrlock")
    /\ \/ writer[h] = t /\ UNCHANGED <<writer, holds>>
       \/ /\ writer[h] = None /\ readers[h] = 0
          /\ writer' = [writer EXCEPT ![h] = t] /\ Gets(t, "write")
    /\ Return(t)
    /\ UNCHANGED <<slotVars, readers>>

\* glibc: the writer's unlock ends the writing, any other ends a reading,
\* whoever's it is.
Unlock(t) ==
    LET h == call[t].h IN
    /\ At(t, "unlock")
    /\ IF writer[h] = t THEN writer' = [writer EXCEPT ![h] = None] /\ UNCHANGED readers
       ELSE readers' = [readers EXCEPT ![h] = @ - 1] /\ UNCHANGED writer
    /\ Gets(t, "nothing")
    /\ Return(t)
    /\ UNCHANGED slotVars

\* Mutant: the guest's words are not cleared.
DestroyKeepingWord(t) ==
    /\ At(t, "destroy")
    /\ heap' = heap \ {call[t].h}
    /\ Return(t)
    /\ UNCHANGED <<slot, raced, lockVars>>

\* glibc does not refuse to destroy a lock.
Destroy(t) ==
    /\ At(t, "destroy")
    /\ heap' = heap \ {call[t].h}
    /\ slot' = [slot EXCEPT ![call[t].g] = 0]
    /\ Return(t)
    /\ UNCHANGED <<raced, lockVars>>

Next ==
    \E t \in Threads :
        \/ \E g \in Guests :
              \/ BeginInit(t, g) \/ BeginUnlock(t, g) \/ BeginDestroy(t, g)
              \/ \E op \in {"rdlock", "wrlock"} : BeginLock(t, g, op)
        \/ \E h \in Hosts : CreateLock(t, h)
        \/ CreateFails(t) \/ InstallLock(t) \/ InitReturns(t)
        \/ ReadLock(t) \/ WriteLock(t) \/ Unlock(t) \/ Destroy(t)

Spec == Init /\ [][Next]_vars
-----------------------------------------------------------------------------
Readers(g) == {t \in Threads : holds[g][t] = "read"}
Writers(g) == {t \in Threads : holds[g][t] = "write"}

\* Readers exclude writers and writers each other, and the host lock counts
\* what the guest holds, from creation on first use over destruction to the
\* reuse of the address, unless first uses of the lock overlapped
\* (compat_bridge.c:693-712); and no call ever reaches a freed host lock.
LocksSound ==
    /\ \A g \in Guests \ raced :
          /\ Writers(g) # {} => Cardinality(Writers(g)) = 1 /\ Readers(g) = {}
          /\ IsHost(slot[g]) =>
                /\ readers[slot[g]] = Cardinality(Readers(g))
                /\ Writers(g) = {writer[slot[g]]} \ {None}
    /\ \A g \in Guests : IsHost(slot[g]) => slot[g] \in heap
    /\ \A t \in Threads : call[t].at \in {"install", "host"} => call[t].h \in heap
=============================================================================
