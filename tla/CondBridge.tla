------------------------------ MODULE CondBridge ------------------------------
(***************************************************************************)
(* pthread_cond_init, destroy, wait, timedwait, signal and broadcast as    *)
(* the bridge offers them to guest code, over host condition variables     *)
(* found through HostSlots.                                                *)
(*                                                                         *)
(* The guest uses its conditions as monitors do: every wait holds the one  *)
(* guest mutex, which has a host object already and excludes (module       *)
(* MutexBridge); a signal is sent with or without it.  Conditions are      *)
(* initialised and destroyed while no thread is inside a call on them.     *)
(***************************************************************************)
EXTENDS HostSlots

CONSTANTS Lazy,         (* conditions that are used when they are only     *)
                        (* initialised statically                          *)
          SignalLocked  (* conditions that are signalled with the mutex    *)
                        (* held                                            *)

ASSUME CondAssumption ==
    /\ Lazy \subseteq Guests
    /\ SignalLocked \subseteq Guests
    /\ Words = {"empty"}
    /\ Ops = {"none", "init", "destroy", "wait", "timedwait", "signal", "broadcast"}

VARIABLES owner,    (* thread that holds the guest mutex                   *)
          blocked,  (* threads blocked on the host condition of their call *)
          woken     (* threads woken, that wait for the mutex              *)

vars == <<slot, heap, call, raced, owner, blocked, woken>>

Usable(g) == \A t \in Inside(g) : call[t].op \notin {"init", "destroy"}

\* Thread t has the host condition and acts on it next.
At(t, ops) ==
    call[t].at = "host" /\ call[t].op \in ops /\ t \notin blocked \cup woken

Waits == {"wait", "timedwait"}

\* Threads blocked in a wait on guest condition g.
BlockedOn(g) == {t \in blocked : call[t].g = g}

\* Threads blocked on the host condition h.
Queue(h) == {t \in blocked : call[t].h = h}

TypeOK ==
    /\ slot \in [Guests -> Hosts \cup Words]
    /\ heap \subseteq Hosts
    /\ call \in [Threads -> CallType]
    /\ raced \subseteq Guests
    /\ owner \in Threads \cup {None}
    /\ blocked \subseteq Threads /\ woken \subseteq Threads
    /\ blocked \cap woken = {}

Init ==
    /\ slot = [g \in Guests |-> "empty"]
    /\ heap = {}
    /\ call = [t \in Threads |-> NoCall]
    /\ raced = {}
    /\ owner = None
    /\ blocked = {} /\ woken = {}
-----------------------------------------------------------------------------
(* The guest mutex between calls on conditions.                            *)

LockMutex(t) ==
    /\ AtGuest(t)
    /\ owner = None
    /\ owner' = t
    /\ UNCHANGED <<slot, heap, call, raced, blocked, woken>>

UnlockMutex(t) ==
    /\ AtGuest(t)
    /\ owner = t
    /\ owner' = None
    /\ UNCHANGED <<slot, heap, call, raced, blocked, woken>>
-----------------------------------------------------------------------------
(* Entry points, up to the read of the guest word.                         *)

BeginInit(t, g) ==
    /\ ~IsHost(slot[g])
    /\ Inside(g) = {}
    /\ EnterInit(t, "init", g, "empty", "empty")
    /\ UNCHANGED <<heap, raced, owner, blocked, woken>>

\* Mutant: the mutex is given up before the condition is looked up.
BeginWaitUnlocking(t, g, op) ==
    /\ owner = t
    /\ Usable(g)
    /\ g \in Lazy \/ IsHost(slot[g])
    /\ Enter(t, op, g, TRUE)
    /\ owner' = None
    /\ UNCHANGED <<slot, heap, blocked, woken>>

\* compat_pthread_cond_wait and _timedwait create on first use.
BeginWait(t, g, op) ==
    /\ owner = t
    /\ Usable(g)
    /\ g \in Lazy \/ IsHost(slot[g])
    /\ Enter(t, op, g, TRUE)
    /\ UNCHANGED <<slot, heap, owner, blocked, woken>>

\* compat_pthread_cond_signal and _broadcast create on first use, too.
BeginSignal(t, g, op) ==
    /\ g \in SignalLocked => owner = t
    /\ Usable(g)
    /\ g \in Lazy \/ IsHost(slot[g])
    /\ Enter(t, op, g, TRUE)
    /\ UNCHANGED <<slot, heap, owner, blocked, woken>>

\* compat_pthread_cond_destroy does not create; on an empty word it returns
\* 0 and changes nothing.
BeginDestroy(t, g) ==
    /\ Inside(g) = {}
    /\ Enter(t, "destroy", g, FALSE)
    /\ UNCHANGED <<slot, heap, owner, blocked, woken>>
-----------------------------------------------------------------------------
(* Creation.                                                               *)

CreateCond(t, h) == Allocated(t, h) /\ UNCHANGED <<slot, raced, owner, blocked, woken>>

CreateFails(t) == NoMemory(t) /\ UNCHANGED <<owner, blocked, woken>>

\* Mutant: the address is not stored, so the next call creates again.
InstallForgotten(t) ==
    /\ call[t].at = "install"
    /\ call' = [call EXCEPT ![t].at = "host"]
    /\ UNCHANGED <<slot, heap, raced, owner, blocked, woken>>

InstallCond(t) == Install(t) /\ UNCHANGED <<owner, blocked, woken>>

InitReturns(t) ==
    /\ At(t, {"init"})
    /\ Return(t)
    /\ UNCHANGED <<slot, heap, raced, owner, blocked, woken>>
-----------------------------------------------------------------------------
(* The host condition.                                                     *)

\* The host releases the mutex and blocks the thread in one step.
Block(t) ==
    /\ At(t, Waits)
    /\ owner' = None
    /\ blocked' = blocked \cup {t}
    /\ UNCHANGED <<slot, heap, call, raced, woken>>

\* The time-out of pthread_cond_timedwait, or a wake-up nobody sent.
WakeUnasked(t) ==
    /\ t \in blocked
    /\ blocked' = blocked \ {t}
    /\ woken' = woken \cup {t}
    /\ UNCHANGED <<slot, heap, call, raced, owner>>

\* The wait returns with the mutex.
Resume(t) ==
    /\ t \in woken
    /\ owner = None
    /\ owner' = t
    /\ woken' = woken \ {t}
    /\ Return(t)
    /\ UNCHANGED <<slot, heap, raced, blocked>>

\* Mutant: one host condition serves all guests.
SignalAnyone(t) ==
    /\ At(t, {"signal"})
    /\ \/ blocked = {} /\ UNCHANGED <<blocked, woken>>
       \/ \E u \in blocked : blocked' = blocked \ {u} /\ woken' = woken \cup {u}
    /\ Return(t)
    /\ UNCHANGED <<slot, heap, raced, owner>>

\* pthread_cond_signal wakes one thread that is blocked, if there is one.
Signal(t) ==
    /\ At(t, {"signal"})
    /\ \/ Queue(call[t].h) = {} /\ UNCHANGED <<blocked, woken>>
       \/ \E u \in Queue(call[t].h) :
             blocked' = blocked \ {u} /\ woken' = woken \cup {u}
    /\ Return(t)
    /\ UNCHANGED <<slot, heap, raced, owner>>

\* pthread_cond_broadcast wakes them all.
Broadcast(t) ==
    /\ At(t, {"broadcast"})
    /\ blocked' = blocked \ Queue(call[t].h)
    /\ woken' = woken \cup Queue(call[t].h)
    /\ Return(t)
    /\ UNCHANGED <<slot, heap, raced, owner>>

\* Mutant: the word is left in place.
DestroyKeepingWord(t) ==
    /\ At(t, {"destroy"})
    /\ heap' = heap \ {call[t].h}
    /\ Return(t)
    /\ UNCHANGED <<slot, raced, owner, blocked, woken>>

\* The object is freed and the word cleared.
Destroy(t) ==
    /\ At(t, {"destroy"})
    /\ heap' = heap \ {call[t].h}
    /\ slot' = [slot EXCEPT ![call[t].g] = "empty"]
    /\ Return(t)
    /\ UNCHANGED <<raced, owner, blocked, woken>>
-----------------------------------------------------------------------------
Step(t) ==
    \/ LockMutex(t) \/ UnlockMutex(t)
    \/ \E g \in Guests :
          \/ BeginInit(t, g)
          \/ \E op \in Waits : BeginWait(t, g, op)
          \/ \E op \in {"signal", "broadcast"} : BeginSignal(t, g, op)
          \/ BeginDestroy(t, g)
    \/ \E h \in Hosts : CreateCond(t, h)
    \/ CreateFails(t) \/ InstallCond(t) \/ InitReturns(t)
    \/ Block(t) \/ WakeUnasked(t) \/ Resume(t)
    \/ Signal(t) \/ Broadcast(t)
    \/ Destroy(t)

Next == \E t \in Threads : Step(t)

Spec == Init /\ [][Next]_vars
-----------------------------------------------------------------------------
\* Signals reach: a signal on g wakes a thread that waits on g, when there
\* is one, and a broadcast wakes all of them; only on a condition whose
\* first uses raced can they go to a host object nobody waits on.
SignalsReach ==
    [][\A t \in Threads : call[t].g \notin raced =>
          /\ Signal(t) /\ BlockedOn(call[t].g) # {} => woken' # woken
          /\ Broadcast(t) => BlockedOn(call[t].g) \subseteq woken']_vars

\* A signal wakes no thread that waits on another condition, although host
\* addresses are reused and lost objects are left behind by races.
WakesItsOwn ==
    [][\A t \in Threads : Signal(t) \/ Broadcast(t) =>
          \A u \in woken' \ woken : call[u].g = call[t].g]_vars

\* The host condition a thread is blocked on exists.
NoDanglingHost ==
    /\ \A g \in Guests : IsHost(slot[g]) => slot[g] \in heap
    /\ \A t \in Threads : call[t].at \in {"install", "host"} => call[t].h \in heap

\* Signalling with the mutex held makes creation on first use safe: every
\* creation then happens under the mutex and no two overlap.
LockedNeverRaces == raced \subseteq Lazy \ SignalLocked
=============================================================================
