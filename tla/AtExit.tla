-------------------------------- MODULE AtExit --------------------------------
(***************************************************************************)
(* The C++ destructor registry the bridge offers as __cxa_atexit,          *)
(* __cxa_thread_atexit_impl and __cxa_finalize (compat_bridge.c).  A pass  *)
(* of __cxa_finalize holds atexit_lock while it looks for the next entry   *)
(* and releases it while the destructor runs, so that destructors and      *)
(* other threads can register and finalize in between.  One action is one  *)
(* stretch of code under the lock.                                         *)
(***************************************************************************)
EXTENDS Naturals, Sequences

CONSTANTS Threads,   (* guest threads                                      *)
          Main,      (* the thread that runs main()                        *)
          Dsos,      (* __dso_handle values                                *)
          AnyDso,    (* the NULL handle: every object                      *)
          Capacity,  (* ATEXIT_CAPACITY                                    *)
          MaxDepth   (* bound on passes nested in one thread               *)

ASSUME AtExitAssumption ==
    /\ Main \in Threads
    /\ AnyDso \notin Dsos
    /\ Capacity \in Nat \ {0}
    /\ MaxDepth \in Nat \ {0}

VARIABLES entries,  (* atexit_entries[0 .. atexit_count - 1]               *)
          passes,   (* passes[t]: the passes of __cxa_finalize on t's      *)
                    (* stack, each in the destructor of entry `index`      *)
          phase,    (* of the process: "guest" code, "finalizing" in       *)
                    (* nfsmw_compat_finalize, "finalized" after it         *)
          starts    (* history: how often each entry's destructor started  *)

vars == <<entries, passes, phase, starts>>

Entry == [dso : Dsos, active : BOOLEAN]
Pass == [dso : Dsos \cup {AnyDso}, index : 1..Capacity, start : 1..Capacity]

TypeOK ==
    /\ entries \in Seq(Entry) /\ Len(entries) <= Capacity
    /\ passes \in [Threads -> Seq(Pass)]
    /\ phase \in {"guest", "finalizing", "finalized"}
    /\ starts \in [1..Capacity -> Nat]

Init ==
    /\ entries = <<>>
    /\ passes = [t \in Threads |-> <<>>]
    /\ phase = "guest"
    /\ starts = [i \in 1..Capacity |-> 0]

\* Guest code runs on t: the main thread runs it during nfsmw_compat_finalize
\* only inside a destructor, and the process exits soon after.
InGuest(t) == t = Main => phase = "guest" \/ passes[t] # <<>>

Matches(dso, i) == dso = AnyDso \/ entries[i].dso = dso

\* Entries below position n (1-based) a pass for dso still has to run.
Pending(dso, n) == {i \in 1..n : entries[i].active /\ Matches(dso, i)}

\* Mutant: off by one in the capacity check.
RegisterPastEnd(t, dso) ==
    /\ InGuest(t)
    /\ Len(entries) <= Capacity
    /\ entries' = Append(entries, [dso |-> dso, active |-> TRUE])
    /\ UNCHANGED <<passes, phase, starts>>

\* compat_cxa_atexit; a full registry answers -1 and changes nothing.
\* Handlers of thread-local objects (compat_cxa_thread_atexit) go to the
\* same registry.
Register(t, dso) ==
    /\ InGuest(t)
    /\ Len(entries) < Capacity
    /\ entries' = Append(entries, [dso |-> dso, active |-> TRUE])
    /\ UNCHANGED <<passes, phase, starts>>

\* Mutant: the entry is not marked before its destructor runs.
RunUnmarked(t, outer, dso, n, start) ==
    \E i \in Pending(dso, n) :
        /\ \A j \in Pending(dso, n) : j <= i
        /\ starts' = [starts EXCEPT ![i] = @ + 1]
        /\ passes' = [passes EXCEPT ![t] =
              Append(outer, [dso |-> dso, index |-> i, start |-> start])]
        /\ UNCHANGED entries

\* Mutant: the scan goes up instead of down.
RunOldest(t, outer, dso, n, start) ==
    \E i \in Pending(dso, n) :
        /\ \A j \in Pending(dso, n) : i <= j
        /\ entries' = [entries EXCEPT ![i].active = FALSE]
        /\ starts' = [starts EXCEPT ![i] = @ + 1]
        /\ passes' = [passes EXCEPT ![t] =
              Append(outer, [dso |-> dso, index |-> i, start |-> start])]

\* The scan of a pass, from position n down: the newest pending entry is
\* marked inactive, the lock released and its destructor entered, ...
RunNewest(t, outer, dso, n, start) ==
    \E i \in Pending(dso, n) :
        /\ \A j \in Pending(dso, n) : j <= i
        /\ entries' = [entries EXCEPT ![i].active = FALSE]
        /\ starts' = [starts EXCEPT ![i] = @ + 1]
        /\ passes' = [passes EXCEPT ![t] =
              Append(outer, [dso |-> dso, index |-> i, start |-> start])]

\* ... or nothing is left and the pass returns.
PassEnds(t, outer, dso, n) ==
    /\ Pending(dso, n) = {}
    /\ passes' = [passes EXCEPT ![t] = outer]
    /\ UNCHANGED <<entries, starts>>

Scan(t, outer, dso, n, start) ==
    RunNewest(t, outer, dso, n, start) \/ PassEnds(t, outer, dso, n)

\* __cxa_finalize(dso) called by guest code, a destructor included.  The
\* pass covers the entries registered by now.
Finalize(t, dso) ==
    /\ InGuest(t)
    /\ Len(passes[t]) < MaxDepth
    /\ Scan(t, passes[t], dso, Len(entries), Len(entries))
    /\ UNCHANGED phase

\* nfsmw_compat_finalize, called once by main() after the guest returned.
CompatFinalize ==
    /\ phase = "guest"
    /\ passes[Main] = <<>>
    /\ Scan(Main, <<>>, AnyDso, Len(entries), Len(entries))
    /\ phase' = IF passes'[Main] = <<>> THEN "finalized" ELSE "finalizing"

\* Mutant: the entry below the one that ran is skipped.
DestructorReturnsSkipping(t) ==
    /\ passes[t] # <<>>
    /\ LET depth == Len(passes[t])
           pass == passes[t][depth]
       IN  Scan(t, SubSeq(passes[t], 1, depth - 1), pass.dso, pass.index - 2, pass.start)
    /\ phase' = IF t = Main /\ phase = "finalizing" /\ passes'[t] = <<>>
                THEN "finalized" ELSE phase

\* A destructor returns into its pass, which goes on below its entry.
DestructorReturns(t) ==
    /\ passes[t] # <<>>
    /\ LET depth == Len(passes[t])
           pass == passes[t][depth]
       IN  Scan(t, SubSeq(passes[t], 1, depth - 1), pass.dso, pass.index - 1, pass.start)
    /\ phase' = IF t = Main /\ phase = "finalizing" /\ passes'[t] = <<>>
                THEN "finalized" ELSE phase

Next ==
    \/ \E t \in Threads, dso \in Dsos : Register(t, dso)
    \/ \E t \in Threads, dso \in Dsos \cup {AnyDso} : Finalize(t, dso)
    \/ CompatFinalize
    \/ \E t \in Threads : DestructorReturns(t)

Spec == Init /\ [][Next]_vars
-----------------------------------------------------------------------------
\* A destructor never starts twice, whichever threads and nested passes
\* finalize concurrently: an entry is marked under the lock before its
\* destructor runs, and started exactly when it is marked.  No entry lies
\* past the end of the table, however registrations and passes interleave.
StartedOnce ==
    /\ Len(entries) <= Capacity
    /\ \A i \in 1..Capacity :
          starts[i] = IF i <= Len(entries) /\ ~entries[i].active THEN 1 ELSE 0

\* Reverse order: while a pass runs the destructor of an entry, no newer
\* entry it covers is still waiting, in any interleaving with other passes.
NewerFirst ==
    \A t \in Threads : \A k \in 1..Len(passes[t]) :
        LET pass == passes[t][k] IN
        \A j \in pass.index + 1 .. pass.start :
            Matches(pass.dso, j) => ~entries[j].active

\* A pass that returns leaves no entry behind that was registered for its
\* dso before the pass began: each has been started by it or by another.
PassComplete ==
    [][\A t \in Threads : Len(passes'[t]) < Len(passes[t]) =>
          LET pass == passes[t][Len(passes[t])] IN
          \A j \in 1..pass.start : Matches(pass.dso, j) => ~entries'[j].active]_vars
=============================================================================
