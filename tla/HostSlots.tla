------------------------------ MODULE HostSlots ------------------------------
(***************************************************************************)
(* How the bridge finds the host object behind a guest synchronisation     *)
(* object (runtime/src/compat_bridge.c).  A guest pthread_mutex_t,         *)
(* pthread_cond_t, pthread_rwlock_t or sem_t is a word in guest memory; a  *)
(* word above 0xffff is taken for the address of a calloc'ed host object,  *)
(* any other word for an object that has none yet.  The four getters share *)
(* one shape: read the word, and when it is small and the caller asks for  *)
(* creation, calloc and initialise a host object and store its address.    *)
(* Reading, creating and storing are separate steps: no lock and no atomic *)
(* exchange guards the word.                                               *)
(*                                                                         *)
(* A small word is kept as the mutex type it encodes ("normal" is 0).      *)
(***************************************************************************)
EXTENDS Naturals, FiniteSets

CONSTANTS Ops,      (* names of the entry points                           *)
          Threads,  (* guest threads                                       *)
          Guests,   (* guest synchronisation objects, by address           *)
          Hosts,    (* heap addresses calloc can return                    *)
          Words,    (* the small words a guest object can hold             *)
          None      (* no guest, host or thread                           *)

ASSUME HostSlotsAssumption ==
    /\ Threads # {}
    /\ Hosts \cap Words = {}
    /\ None \notin Threads \cup Guests \cup Hosts \cup Words

VARIABLES slot,   (* slot[g]: the word in guest memory                     *)
          heap,   (* host objects that are calloc'ed and not freed         *)
          call,   (* call[t]: the bridge call thread t is in               *)
          raced   (* history: guests whose first uses overlapped           *)

slotVars == <<slot, heap, raced>>

\* A thread that runs guest code is in no call.
NoCall == [op |-> "none", g |-> None, h |-> None, at |-> "guest"]

CallType == [op : Ops, g : Guests \cup {None}, h : Hosts \cup Words \cup {None},
             at : {"guest", "create", "install", "host"}]

AtGuest(t) == call[t].at = "guest"

\* raw > 0xffff: the word is a host address.
IsHost(raw) == raw \in Hosts

\* Threads inside a bridge call on g.
Inside(g) == {t \in Threads : call[t].at # "guest" /\ call[t].g = g}

\* Threads between reading an empty word of g and storing the host object.
Creating(g) == {t \in Inside(g) : call[t].at \in {"create", "install"}}

\* First step of every call: read the word.  With a host address the call
\* goes on to the host object, else to the creation when `create` is set.
Enter(t, op, g, create) ==
    /\ AtGuest(t)
    /\ IF IsHost(slot[g])
       THEN /\ call' = [call EXCEPT ![t] =
                          [op |-> op, g |-> g, h |-> slot[g], at |-> "host"]]
            /\ UNCHANGED raced
       ELSE /\ create
            /\ call' = [call EXCEPT ![t] =
                          [op |-> op, g |-> g, h |-> slot[g], at |-> "create"]]
            /\ raced' = IF Creating(g) = {} THEN raced ELSE raced \cup {g}

\* The unlock and destroy entry points do not create: on an empty word they
\* return at once (EINVAL, or 0 for destroy).
EnterEmpty(t, g) == AtGuest(t) /\ ~IsHost(slot[g])

\* An init entry point clears the word before it calls the getter; the
\* attribute asks for a type.
EnterInit(t, op, g, cleared, type) ==
    /\ AtGuest(t)
    /\ slot' = [slot EXCEPT ![g] = cleared]
    /\ call' = [call EXCEPT ![t] =
                  [op |-> op, g |-> g, h |-> type, at |-> "create"]]

\* calloc and the host init function succeed.  call[t].h, the word read
\* in `Enter` or the attribute of an init, tells which type of object is made.
Allocated(t, h) ==
    /\ call[t].at = "create"
    /\ h \notin heap
    /\ heap' = heap \cup {h}
    /\ call' = [call EXCEPT ![t].h = h, ![t].at = "install"]

\* The call returns to the guest.
Return(t) == call' = [call EXCEPT ![t] = NoCall]

\* calloc fails: the call returns ENOMEM.
NoMemory(t) ==
    /\ call[t].at = "create"
    /\ Return(t)
    /\ UNCHANGED slotVars

\* set_guest_slot: the address is stored whatever the word holds by now.
Install(t) ==
    /\ call[t].at = "install"
    /\ slot' = [slot EXCEPT ![call[t].g] = call[t].h]
    /\ call' = [call EXCEPT ![t].at = "host"]
    /\ UNCHANGED <<heap, raced>>
=============================================================================
