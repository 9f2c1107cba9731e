------------------------------ MODULE SemBridge ------------------------------
(***************************************************************************)
(* sem_init, destroy, wait, trywait, timedwait, post and getvalue as the   *)
(* bridge offers them to guest code, over host semaphores found through    *)
(* HostSlots.  A semaphore in zeroed guest memory is made on first use,    *)
(* with no token.                                                          *)
(*                                                                         *)
(* The guest follows POSIX: it initialises and destroys a semaphore while  *)
(* no thread is inside a call on it, and does not initialise it twice.     *)
(***************************************************************************)
EXTENDS HostSlots, Integers

CONSTANTS LazyUse,  (* guests use semaphores they did not initialise       *)
          MaxValue  (* SEM_VALUE_MAX                                       *)

ASSUME SemAssumption ==
    /\ LazyUse \in BOOLEAN
    /\ MaxValue \in Nat \ {0}
    /\ Words = 0..MaxValue
    /\ Ops = {"none", "init", "destroy", "wait", "trywait", "timedwait", "post", "getvalue"}

VARIABLES value,  (* value[h]: tokens in the host semaphore                *)
          tokens  (* tokens[g]: the initial value of g and its posts, less *)
                  (* the waits that got one, as the guest counts them      *)

vars == <<slot, heap, call, raced, value, tokens>>

\* Nobody may call into g while it is being initialised or destroyed.
Usable(g) == \A t \in Inside(g) : call[t].op \notin {"init", "destroy"}

At(t, ops) == call[t].at = "host" /\ call[t].op \in ops

TypeOK ==
    /\ slot \in [Guests -> Hosts \cup {0}]
    /\ heap \subseteq Hosts
    /\ call \in [Threads -> CallType]
    /\ raced \subseteq Guests
    /\ value \in [Hosts -> 0..MaxValue]
    /\ tokens \in [Guests -> Int]

\* Guest memory is zeroed: no host object, and 0 the value made from it.
Init ==
    /\ slot = [g \in Guests |-> 0]
    /\ heap = {}
    /\ call = [t \in Threads |-> NoCall]
    /\ raced = {}
    /\ value = [h \in Hosts |-> 0]
    /\ tokens = [g \in Guests |-> 0]
-----------------------------------------------------------------------------
(* Entry points, up to the read of the guest word.                         *)

\* compat_sem_init(g, 0, v); a shared semaphore is refused at once.
BeginInit(t, g, v) ==
    /\ ~IsHost(slot[g])
    /\ Inside(g) = {}
    /\ EnterInit(t, "init", g, 0, v)
    /\ UNCHANGED <<heap, raced, value, tokens>>

\* The other entry points create on first use, but for destroy, which
\* returns 0 on an empty word and changes nothing.
BeginUse(t, g, op) ==
    /\ Usable(g)
    /\ LazyUse \/ IsHost(slot[g])
    /\ Enter(t, op, g, TRUE)
    /\ UNCHANGED <<slot, heap, value, tokens>>

BeginDestroy(t, g) ==
    /\ Inside(g) = {}
    /\ Enter(t, "destroy", g, FALSE)
    /\ UNCHANGED <<slot, heap, value, tokens>>
-----------------------------------------------------------------------------
(* Creation.                                                               *)

\* A host semaphore with the value of sem_init, or none on first use.
CreateSem(t, h) ==
    /\ Allocated(t, h)
    /\ value' = [value EXCEPT ![h] = call[t].h]
    /\ UNCHANGED <<slot, raced, tokens>>

CreateFails(t) == NoMemory(t) /\ UNCHANGED <<value, tokens>>

\* Mutant: the address is not stored, so the next call creates again.
InstallForgotten(t) ==
    /\ call[t].at = "install"
    /\ tokens' = IF call[t].op = "init"
                 THEN [tokens EXCEPT ![call[t].g] = value[call[t].h]] ELSE tokens
    /\ call' = [call EXCEPT ![t].at = "host"]
    /\ UNCHANGED <<slot, heap, raced, value>>

InstallSem(t) ==
    /\ Install(t)
    /\ tokens' = IF call[t].op = "init"
                 THEN [tokens EXCEPT ![call[t].g] = value[call[t].h]] ELSE tokens
    /\ UNCHANGED value

\* sem_init returns; sem_getvalue reads and returns.
ReturnUnchanged(t) ==
    /\ At(t, {"init", "getvalue"})
    /\ Return(t)
    /\ UNCHANGED <<slot, heap, raced, value, tokens>>
-----------------------------------------------------------------------------
(* The host semaphore.                                                     *)

\* A wait of any kind takes a token; sem_wait blocks until there is one.
TakeToken(t) ==
    LET h == call[t].h IN
    /\ At(t, {"wait", "trywait", "timedwait"})
    /\ value[h] > 0
    /\ value' = [value EXCEPT ![h] = @ - 1]
    /\ tokens' = [tokens EXCEPT ![call[t].g] = @ - 1]
    /\ Return(t)
    /\ UNCHANGED <<slot, heap, raced>>

\* Mutant: a wait that timed out tells the guest it got a token.
GiveUpAsTaken(t) ==
    /\ At(t, {"trywait", "timedwait"})
    /\ value[call[t].h] = 0
    /\ tokens' = [tokens EXCEPT ![call[t].g] = @ - 1]
    /\ Return(t)
    /\ UNCHANGED <<slot, heap, raced, value>>

\* EAGAIN at once, or ETIMEDOUT after a while.
GiveUp(t) ==
    /\ At(t, {"trywait", "timedwait"})
    /\ value[call[t].h] = 0
    /\ Return(t)
    /\ UNCHANGED <<slot, heap, raced, value, tokens>>

\* sem_post; EOVERFLOW at SEM_VALUE_MAX.
Post(t) ==
    LET h == call[t].h IN
    /\ At(t, {"post"})
    /\ IF value[h] < MaxValue
       THEN /\ value' = [value EXCEPT ![h] = @ + 1]
            /\ tokens' = [tokens EXCEPT ![call[t].g] = @ + 1]
       ELSE UNCHANGED <<value, tokens>>
    /\ Return(t)
    /\ UNCHANGED <<slot, heap, raced>>

\* Mutant: the word is left in place.
DestroyKeepingWord(t) ==
    /\ At(t, {"destroy"})
    /\ heap' = heap \ {call[t].h}
    /\ tokens' = [tokens EXCEPT ![call[t].g] = 0]
    /\ Return(t)
    /\ UNCHANGED <<slot, raced, value>>

\* sem_destroy succeeds: the object is freed and the word cleared.
Destroy(t) ==
    /\ At(t, {"destroy"})
    /\ heap' = heap \ {call[t].h}
    /\ slot' = [slot EXCEPT ![call[t].g] = 0]
    /\ tokens' = [tokens EXCEPT ![call[t].g] = 0]
    /\ Return(t)
    /\ UNCHANGED <<raced, value>>
-----------------------------------------------------------------------------
\* The steps of a call after its entry.
Inner(t) ==
    \/ \E h \in Hosts : CreateSem(t, h)
    \/ CreateFails(t)
    \/ InstallSem(t)
    \/ ReturnUnchanged(t)
    \/ TakeToken(t)
    \/ GiveUp(t)
    \/ Post(t)
    \/ Destroy(t)

Step(t) ==
    \/ \E g \in Guests :
          \/ \E v \in Words : BeginInit(t, g, v)
          \/ \E op \in {"wait", "trywait", "timedwait", "post", "getvalue"} : BeginUse(t, g, op)
          \/ BeginDestroy(t, g)
    \/ Inner(t)

Next == \E t \in Threads : Step(t)

Spec == Init /\ [][Next]_vars

\* A thread inside a call is scheduled, and the host semaphore serves a
\* waiter when it has a token.
FairSpec == Spec /\ \A t \in Threads : WF_vars(Inner(t))
-----------------------------------------------------------------------------
\* The host semaphore holds the tokens the guest counts: on a semaphore
\* without a first-use race nothing posted is lost and nothing is added,
\* through creation on first use, destruction and reuse of the address.  A
\* race can lose tokens and never makes one: no more waits succeed than
\* were posted (compat_bridge.c:750-860).
TokensConserved ==
    /\ \A g \in Guests \ raced :
          tokens[g] = IF IsHost(slot[g]) THEN value[slot[g]] ELSE 0
    /\ \A g \in Guests : tokens[g] >= 0

\* No call reaches a freed host semaphore and no guest word points to one.
NoDanglingHost ==
    /\ \A g \in Guests : IsHost(slot[g]) => slot[g] \in heap
    /\ \A t \in Threads : call[t].at \in {"install", "host"} => call[t].h \in heap

Waits(t, g) == At(t, {"wait"}) /\ call[t].g = g

\* A token never lies beside a blocked sem_wait for ever: the waiter gets
\* it or another takes the last one, unless the first uses raced.
TokenFindsWaiter ==
    \A t \in Threads, g \in Guests :
        (Waits(t, g) /\ tokens[g] > 0) ~>
            (~Waits(t, g) \/ tokens[g] = 0 \/ g \in raced)
=============================================================================
