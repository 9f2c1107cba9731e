------------------------------ MODULE SharedState ------------------------------
(***************************************************************************)
(* What guest threads share in the bridges without a lock: semaphores,     *)
(* read-write locks, the JNI registries and the OBB index.  The four share *)
(* no state, so a behaviour is about one of them; read-write locks and     *)
(* semaphores are used by all threads, the others by some.                 *)
(***************************************************************************)
EXTENDS SemBridge, Sequences

CONSTANTS Pair,        (* threads that look up and list                    *)
          Keys,        (* the methods and fields they look up              *)
          Cut,         (* names as their entries hold them                 *)
          CutSignature,(* and signatures                                   *)
          Capacity,    (* entries of the registries                        *)
          MaxLookups,  (* bound on lookups                                 *)
          Archives,    (* OBBs                                             *)
          Requests,    (* directories they list                            *)
          Most,        (* bound on the entries of an OBB                   *)
          IntLimit     (* 2^31                                             *)

VARIABLES side,  (* what this behaviour is about *)
          rwSlot, rwHeap, rwCall, rwRaced, writer, readers, holds,
          entries, count, look, ids, lookups, contended, overlapped,
          archive, index, state, buffer, room, list

rwVars == <<rwSlot, rwHeap, rwCall, rwRaced, writer, readers, holds>>
jniVars == <<entries, count, look, ids, lookups, contended, overlapped>>
obbVars == <<archive, index, state, buffer, room, list>>

Rw == INSTANCE RwBridge WITH
    Ops <- {"none", "init", "destroy", "rdlock", "wrlock", "unlock"}, Words <- {0},
    slot <- rwSlot, heap <- rwHeap, call <- rwCall, raced <- rwRaced

Jni == INSTANCE JniRegistry WITH Threads <- Pair

Obb == INSTANCE ObbIndex WITH Threads <- Pair

\* Guest code asks with names and signatures that are not empty, and what
\* snprintf has cut fits its entry from then on (jni_bridge.c:743-746).
ASSUME RegistryAssumption ==
    /\ None \notin Keys
    /\ \A k \in Keys :
          k.table \in Jni!Tables /\ k.name # "" /\ k.signature # "" /\ k.static \in BOOLEAN
    /\ \A j, k \in Keys :
          /\ k.name = Cut[j.name] => Cut[k.name] = k.name
          /\ k.table = j.table /\ k.signature = CutSignature[j.table][j.signature] =>
                CutSignature[k.table][k.signature] = k.signature
    /\ Capacity \in [Jni!Tables -> Nat] /\ MaxLookups \in Nat

\* The archives are those of the game: no path occurs twice in one, and no
\* component of a path is empty.  nfsmw_obb_open checks neither
\* (obb_index.c:113-150), and a path that occurs twice has the size of its
\* first entry.
ASSUME ArchiveAssumption ==
    /\ Requests \subseteq Seq(STRING) /\ Most \in Nat
    /\ \A a \in Archives :
          /\ a.entries \in Seq([path : Seq(STRING), directory : BOOLEAN, size : Nat])
          /\ Len(a.entries) <= Most
          /\ \A i \in DOMAIN a.entries :
                /\ \A k \in DOMAIN a.entries[i].path : a.entries[i].path[k] # ""
                /\ \A j \in DOMAIN a.entries :
                      a.entries[i].path = a.entries[j].path => a.entries[i] = a.entries[j]

SharedInit ==
    /\ side \in {"semaphores", "locks", "registries", "archive"}
    /\ Init /\ Rw!Init /\ Jni!Init /\ Obb!Init

SharedNext ==
    /\ UNCHANGED side
    /\ \/ side = "semaphores" /\ Next /\ UNCHANGED <<rwVars, jniVars, obbVars>>
       \/ side = "locks" /\ Rw!Next /\ UNCHANGED <<vars, jniVars, obbVars>>
       \/ side = "registries" /\ Jni!Next /\ UNCHANGED <<vars, rwVars, obbVars>>
       \/ side = "archive" /\ Obb!Next /\ UNCHANGED <<vars, rwVars, jniVars>>

sharedVars == <<side, vars, rwVars, jniVars, obbVars>>

\* A thread inside a semaphore call is scheduled, as in SemBridge.
SharedSpec ==
    /\ SharedInit
    /\ [][SharedNext]_sharedVars
    /\ \A t \in Threads : WF_vars(Inner(t))
-----------------------------------------------------------------------------
\* LocksSound of RwBridge: read-write locks exclude as the guest thinks.
LocksSound == Rw!LocksSound

\* IdsNameTheirMethods of JniRegistry: ids dispatch to what was looked up.
IdsNameTheirMethods == Jni!IdsNameTheirMethods

\* ListingsSound of ObbIndex: listings are of the whole directory.
ListingsSound == Obb!ListingsSound
=============================================================================
