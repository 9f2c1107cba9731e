------------------------------ MODULE JniRegistry ------------------------------
(***************************************************************************)
(* The registries behind GetMethodID, GetStaticMethodID, GetFieldID and    *)
(* GetStaticFieldID (runtime/src/jni_bridge.c:724-776 and 1386-1434): a    *)
(* lookup searches its table and appends what is not there; the id is the  *)
(* address of the entry, and a call dispatches on the name that the entry  *)
(* holds by then.  Guest threads look up without a lock: reading the count,*)
(* storing it and filling the entry field by field are steps of their own. *)
(***************************************************************************)
EXTENDS Naturals

CONSTANTS Threads,     (* guest threads                                    *)
          Keys,        (* what is looked up: table, name, signature, static*)
          Cut,         (* Cut[n]: what snprintf leaves of name n           *)
          CutSignature,(* CutSignature[table][s]: and of signature s, for  *)
                       (* which methods have more room than fields         *)
          Capacity,    (* Capacity[table]                                  *)
          MaxLookups,  (* bound on lookups                                 *)
          None         (* no key                                           *)

Tables == {"methods", "fields"}
Blank == [name |-> "", signature |-> "", static |-> FALSE]

VARIABLES entries,     (* entries[table][i]; memory goes on past the end  *)
          count,       (* method_count and field_count                     *)
          look,        (* look[t]: the lookup thread t is in               *)
          ids,         (* history: <<key, entry>> that lookups returned    *)
          lookups,     (* history: how many there were                     *)
          contended,   (* history: keys looked up while another thread was *)
                       (* looking up the same or one alike                 *)
          overlapped   (* history: tables that two threads grew at a time  *)

vars == <<entries, count, look, ids, lookups, contended, overlapped>>

NoLook == [at |-> "guest", key |-> None, i |-> 0]

\* initialize_tables
Init ==
    /\ entries = [table \in Tables |-> [i \in 0..MaxLookups |-> Blank]]
    /\ count = [table \in Tables |-> 0]
    /\ look = [t \in Threads |-> NoLook]
    /\ ids = {} /\ lookups = 0 /\ contended = {} /\ overlapped = {}

KeyOf(t) == look[t].key
TableOf(t) == look[t].key.table
In(t, place) == look[t].at = place
GoTo(t, place) == look' = [look EXCEPT ![t].at = place]

\* as_method, as_field and the name a call dispatches on.
Dispatched(table, i) == IF i < count[table] THEN entries[table][i].name ELSE ""

\* The stored name and signature are compared with those that are asked for.
Matches(t) ==
    LET k == KeyOf(t)
    IN  entries[k.table][look[t].i] =
            [name |-> k.name, signature |-> k.signature, static |-> k.static]

\* The entries of j and k are equal until is_static is stored, which is
\* last: what is left of their names and signatures is the same.
Alike(j, k) ==
    /\ j.table = k.table /\ Cut[j.name] = Cut[k.name]
    /\ CutSignature[j.table][j.signature] = CutSignature[k.table][k.signature]

\* The entry of k holds all of it.
Fits(k) == Cut[k.name] = k.name /\ CutSignature[k.table][k.signature] = k.signature

LookUp(t, k) ==
    /\ In(t, "guest") /\ lookups < MaxLookups
    /\ look' = [look EXCEPT ![t] = [at |-> "search", key |-> k, i |-> 0]]
    /\ lookups' = lookups + 1
    /\ contended' = IF \E u \in Threads : ~In(u, "guest") /\ Alike(KeyOf(u), k)
                    THEN contended \cup {j \in Keys : Alike(j, k)} ELSE contended
    /\ UNCHANGED <<entries, count, ids, overlapped>>

LookUpMethod(t, k) == k.table = "methods" /\ LookUp(t, k)
LookUpField(t, k) == k.table = "fields" /\ LookUp(t, k)

Answer(t) ==
    /\ ids' = ids \cup {<<KeyOf(t), look[t].i>>}
    /\ look' = [look EXCEPT ![t] = NoLook]

\* One turn of the search; the count is read again every time.
Search(t) ==
    /\ In(t, "search")
    /\ IF look[t].i >= count[TableOf(t)] THEN GoTo(t, "grow") /\ UNCHANGED ids
       ELSE IF Matches(t) THEN Answer(t)
       ELSE look' = [look EXCEPT ![t].i = @ + 1] /\ UNCHANGED ids
    /\ UNCHANGED <<entries, count, lookups, contended, overlapped>>

Growing(table) == {t \in Threads : look[t].at \in {"claim", "store"} /\ TableOf(t) = table}

\* Mutant of Grow: one entry past the capacity.
GrowPast(t) ==
    /\ In(t, "grow") /\ count[TableOf(t)] # Capacity[TableOf(t)] + 1
    /\ GoTo(t, "claim")
    /\ overlapped' = IF Growing(TableOf(t)) = {} THEN overlapped ELSE overlapped \cup {TableOf(t)}
    /\ UNCHANGED <<entries, count, ids, lookups, contended>>

\* A full table aborts the process: the thread stays here.
Grow(t) ==
    /\ In(t, "grow") /\ count[TableOf(t)] # Capacity[TableOf(t)]
    /\ GoTo(t, "claim")
    /\ overlapped' = IF Growing(TableOf(t)) = {} THEN overlapped ELSE overlapped \cup {TableOf(t)}
    /\ UNCHANGED <<entries, count, ids, lookups, contended>>

\* method_count++ reads the count ...
Claim(t) ==
    /\ In(t, "claim")
    /\ look' = [look EXCEPT ![t].at = "store", ![t].i = count[TableOf(t)]]
    /\ UNCHANGED <<entries, count, ids, lookups, contended, overlapped>>

\* ... and stores it.
Store(t) ==
    /\ In(t, "store")
    /\ count' = [count EXCEPT ![TableOf(t)] = look[t].i + 1]
    /\ GoTo(t, "name")
    /\ UNCHANGED <<entries, ids, lookups, contended, overlapped>>

\* The name, the signature and is_static of the entry.
Write(t, field, value) == entries' = [entries EXCEPT ![TableOf(t)][look[t].i][field] = value]

Fill(t) ==
    /\ \/ In(t, "name") /\ Write(t, "name", Cut[KeyOf(t).name]) /\ GoTo(t, "signature")
          /\ UNCHANGED ids
       \/ In(t, "signature") /\ GoTo(t, "static") /\ UNCHANGED ids
          /\ Write(t, "signature", CutSignature[TableOf(t)][KeyOf(t).signature])
       \/ In(t, "static") /\ Write(t, "static", KeyOf(t).static) /\ Answer(t)
    /\ UNCHANGED <<count, lookups, contended, overlapped>>

Next ==
    \E t \in Threads :
        \/ \E k \in Keys : LookUpMethod(t, k) \/ LookUpField(t, k)
        \/ Search(t) \/ Grow(t) \/ Claim(t) \/ Store(t) \/ Fill(t)

Spec == Init /\ [][Next]_vars
-----------------------------------------------------------------------------
\* An id dispatches to the name it was looked up by, as far as the entry
\* holds it, and lies in its table; and whoever looks a method up gets the
\* one id, unless its name or its signature was cut or two threads looked
\* it, its static counterpart or one that is cut to the same up at a time.
\* Only where two threads grew a table at a time is all of this off
\* (jni_bridge.c:730-751).
IdsNameTheirMethods ==
    \A pair \in ids :
        LET k == pair[1]
            i == pair[2]
        IN  k.table \notin overlapped =>
                /\ i < Capacity[k.table] /\ Dispatched(k.table, i) = Cut[k.name]
                /\ Fits(k) /\ k \notin contended => \A other \in ids : other[1] = k => other[2] = i
=============================================================================
