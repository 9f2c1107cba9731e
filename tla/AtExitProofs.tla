----------------------------- MODULE AtExitProofs -----------------------------
(***************************************************************************)
(* Proofs about AtExit for any threads, shared objects and capacity.       *)
(***************************************************************************)
EXTENDS AtExit, SequenceTheorems, TLAPS

\* What a pass p on a stack knows in registry e: its destructor's entry is
\* marked, and so is every newer entry it covers; its positions are inside.
Sound(e, p) ==
    /\ p.index <= p.start /\ p.start <= Len(e)
    /\ ~e[p.index].active
    /\ \A j \in p.index + 1 .. p.start :
          p.dso = AnyDso \/ e[j].dso = p.dso => ~e[j].active

IInv ==
    /\ TypeOK
    /\ StartedOnce
    /\ \A t \in Threads : \A k \in 1..Len(passes[t]) : Sound(entries, passes[t][k])

\* A marked entry stays marked and keeps its dso, so a sound pass stays sound.
LEMMA SoundKept ==
    ASSUME NEW e \in Seq(Entry), NEW f \in Seq(Entry), Len(e) <= Len(f),
           NEW p \in Pass, Sound(e, p),
           \A i \in 1..Len(e) : /\ f[i].dso = e[i].dso
                                /\ f[i].active => e[i].active
    PROVE  Sound(f, p)
<1>1. p.index \in 1..Len(e) /\ p.start \in 1..Len(e)
  BY DEF Sound, Pass
<1> QED BY <1>1 DEF Sound

\* The scan of a pass, from position n of a pass that began at `start`, when
\* nothing it covers is pending above n.
LEMMA ScanKeeps ==
    ASSUME IInv, NEW t \in Threads, NEW outer \in Seq(Pass),
           NEW dso \in Dsos \cup {AnyDso}, NEW n \in Nat, NEW start \in Nat,
           n <= start, start <= Len(entries),
           \A j \in n + 1 .. start : Matches(dso, j) => ~entries[j].active,
           \A k \in 1..Len(outer) : Sound(entries, outer[k]),
           Scan(t, outer, dso, n, start),
           phase' \in {"guest", "finalizing", "finalized"}
    PROVE  IInv'
<1> USE AtExitAssumption DEF IInv
<1>1. CASE PassEnds(t, outer, dso, n)
  <2>1. TypeOK'
    BY <1>1 DEF PassEnds, TypeOK
  <2>2. StartedOnce'
    BY <1>1 DEF PassEnds, StartedOnce
  <2>3. ASSUME NEW u \in Threads, NEW k \in 1..Len(passes'[u])
        PROVE  Sound(entries, passes'[u][k])
    BY <1>1 DEF PassEnds, TypeOK
  <2> QED BY <1>1, <2>1, <2>2, <2>3 DEF PassEnds
<1>2. ASSUME NEW i \in Pending(dso, n),
             \A j \in Pending(dso, n) : j <= i,
             entries' = [entries EXCEPT ![i].active = FALSE],
             starts' = [starts EXCEPT ![i] = @ + 1],
             passes' = [passes EXCEPT ![t] =
                Append(outer, [dso |-> dso, index |-> i, start |-> start])]
      PROVE  IInv'
  <2> DEFINE new == [dso |-> dso, index |-> i, start |-> start]
  <2>1. i \in 1..n /\ i \in 1..Len(entries) /\ entries[i].active /\ Len(entries) <= Capacity
    BY DEF Pending, TypeOK
  <2>2. /\ Len(entries') = Len(entries)
        /\ entries' \in Seq(Entry)
        /\ \A j \in 1..Len(entries) :
              /\ entries'[j].dso = entries[j].dso
              /\ entries'[j].active = IF j = i THEN FALSE ELSE entries[j].active
    <3>1. entries \in Seq(Entry) /\ entries[i] \in Entry
      BY <2>1 DEF TypeOK
    <3>2. [entries[i] EXCEPT !.active = FALSE] \in Entry
      BY <3>1 DEF Entry
    <3>3. entries' = [entries EXCEPT ![i] = [entries[i] EXCEPT !.active = FALSE]]
      BY <1>2
    <3>4. /\ [entries[i] EXCEPT !.active = FALSE].active = FALSE
          /\ [entries[i] EXCEPT !.active = FALSE].dso = entries[i].dso
      BY <3>1 DEF Entry
    <3>5. \A j \in 1..Len(entries) :
             entries'[j] = IF j = i THEN [entries[i] EXCEPT !.active = FALSE] ELSE entries[j]
      BY <2>1, <3>1, <3>3
    <3>6. entries' \in Seq(Entry) /\ Len(entries') = Len(entries)
      BY <2>1, <3>1, <3>2, <3>3
    <3> QED BY <3>4, <3>5, <3>6
  <2>3. new \in Pass
    BY <2>1 DEF Pass, TypeOK
  <2>4. TypeOK'
    <3>1. passes' \in [Threads -> Seq(Pass)]
      BY <1>2, <2>3 DEF TypeOK
    <3>2. starts' \in [1..Capacity -> Nat]
      BY <1>2, <2>1 DEF TypeOK
    <3> QED BY <2>2, <3>1, <3>2 DEF TypeOK
  <2>5. StartedOnce'
    BY <1>2, <2>1, <2>2 DEF StartedOnce, TypeOK
  <2>6. ASSUME NEW p \in Pass, Sound(entries, p)
        PROVE  Sound(entries', p)
    <3>1. entries \in Seq(Entry) /\ Len(entries) <= Len(entries')
      BY <2>2 DEF TypeOK
    <3>2. \A j \in 1..Len(entries) : /\ entries'[j].dso = entries[j].dso
                                     /\ entries'[j].active => entries[j].active
      BY <2>2
    <3> QED BY <2>2, <2>6, <3>1, <3>2, SoundKept
  <2>7. Sound(entries', new)
    <3>1. ASSUME NEW j \in i + 1 .. start, dso = AnyDso \/ entries'[j].dso = dso
          PROVE  ~entries'[j].active
      <4>1. j \in 1..Len(entries) /\ Matches(dso, j)
        <5>1. j \in Nat /\ 1 <= j /\ j <= Len(entries) /\ Len(entries) \in Nat
          BY <2>1, <3>1 DEF TypeOK
        <5>2. entries'[j].dso = entries[j].dso
          <6>1. j \in 1..Len(entries)
            BY <5>1
          <6>2. \A k \in 1..Len(entries) : entries'[k].dso = entries[k].dso
            BY <2>2, Zenon
          <6> QED BY <6>1, <6>2, Zenon
        <5>3. Matches(dso, j)
          BY <3>1, <5>2 DEF Matches
        <5> QED BY <5>1, <5>3
      <4>2. CASE j <= n
        BY <1>2, <2>1, <2>2, <3>1, <4>1, <4>2 DEF Pending
      <4>3. CASE j > n
        <5>1. j \in n + 1 .. start
          BY <2>1, <3>1, <4>3
        <5> QED BY <2>2, <4>1, <5>1
      <4> QED BY <4>1, <4>2, <4>3
    <3>2. i <= start /\ start <= Len(entries')
      BY <2>1, <2>2 DEF TypeOK
    <3> QED BY <2>1, <2>2, <3>1, <3>2 DEF Sound
  <2>8. ASSUME NEW u \in Threads, NEW k \in 1..Len(passes'[u])
        PROVE  Sound(entries', passes'[u][k])
    <3>1. CASE u # t
      <4>1. passes'[u] = passes[u] /\ passes[u][k] \in Pass /\ Sound(entries, passes[u][k])
        BY <1>2, <2>8, <3>1 DEF TypeOK
      <4> QED BY <4>1, <2>6
    <3>2. CASE u = t /\ k <= Len(outer)
      <4>1. passes'[u][k] = outer[k] /\ outer[k] \in Pass /\ Sound(entries, outer[k])
        BY <1>2, <2>8, <3>2, <2>3 DEF TypeOK
      <4> QED BY <4>1, <2>6
    <3>3. CASE u = t /\ k > Len(outer)
      <4>1. passes'[u][k] = new
        BY <1>2, <2>8, <3>3, <2>3 DEF TypeOK
      <4> QED BY <4>1, <2>7
    <3>4. k \in Nat /\ Len(outer) \in Nat
      OBVIOUS
    <3> QED BY <3>1, <3>2, <3>3, <3>4
  <2> QED BY <2>4, <2>5, <2>8
<1> QED BY <1>1, <1>2 DEF Scan, RunNewest

\* The invariant holds initially.
LEMMA InitIInv == Init => IInv
  BY AtExitAssumption DEF Init, IInv, TypeOK, StartedOnce

\* Register keeps the invariant.
LEMMA RegisterKeeps ==
    ASSUME IInv, NEW t \in Threads, NEW dso \in Dsos, Register(t, dso)
    PROVE  IInv'
<1> USE AtExitAssumption DEF IInv, Register
<1>1. /\ Len(entries') = Len(entries) + 1
      /\ entries' \in Seq(Entry)
      /\ \A i \in 1..Len(entries) : entries'[i] = entries[i]
      /\ entries'[Len(entries) + 1].active
  BY DEF TypeOK, Entry
<1>2. TypeOK'
  BY <1>1 DEF TypeOK
<1>3. StartedOnce'
  <2>1. ASSUME NEW i \in 1..Capacity
        PROVE  starts'[i] = IF i <= Len(entries') /\ ~entries'[i].active THEN 1 ELSE 0
    <3>1. i \in Nat /\ Len(entries) \in Nat /\ starts' = starts
      BY DEF TypeOK
    <3>2. CASE i <= Len(entries)
      BY <1>1, <3>1, <3>2 DEF StartedOnce
    <3>3. CASE i = Len(entries) + 1
      BY <1>1, <3>1, <3>3 DEF StartedOnce
    <3>4. CASE i > Len(entries) + 1
      BY <1>1, <3>1, <3>4 DEF StartedOnce
    <3> QED BY <3>1, <3>2, <3>3, <3>4
  <2> QED BY <2>1 DEF StartedOnce
<1>4. ASSUME NEW p \in Pass, Sound(entries, p)
      PROVE  Sound(entries', p)
  <2>1. entries \in Seq(Entry) /\ Len(entries) <= Len(entries')
    BY <1>1 DEF TypeOK
  <2> QED BY <1>1, <1>4, <2>1, SoundKept
<1>5. \A u \in Threads : \A k \in 1..Len(passes[u]) : passes[u][k] \in Pass
  BY DEF TypeOK
<1> QED BY <1>2, <1>3, <1>4, <1>5

\* Finalize keeps the invariant.
LEMMA FinalizeKeeps ==
    ASSUME IInv, NEW t \in Threads, NEW dso \in Dsos \cup {AnyDso},
           Scan(t, passes[t], dso, Len(entries), Len(entries)),
           phase' \in {"guest", "finalizing", "finalized"}
    PROVE  IInv'
<1>1. /\ passes[t] \in Seq(Pass) /\ Len(entries) \in Nat
      /\ \A k \in 1..Len(passes[t]) : Sound(entries, passes[t][k])
      /\ \A j \in Len(entries) + 1 .. Len(entries) : Matches(dso, j) => ~entries[j].active
      /\ Len(entries) <= Len(entries)
  BY DEF IInv, TypeOK
<1> QED BY <1>1, ScanKeeps, Zenon

\* The passes below the one that returns are as sound as before.
LEMMA OuterPasses ==
    ASSUME TypeOK, NEW t \in Threads, passes[t] # <<>>
    PROVE  LET outer == SubSeq(passes[t], 1, Len(passes[t]) - 1) IN
           /\ outer \in Seq(Pass) /\ Len(outer) = Len(passes[t]) - 1
           /\ \A k \in 1..Len(outer) : outer[k] = passes[t][k]
<1>1. passes[t] \in Seq(Pass) /\ Len(passes[t]) \in Nat \ {0}
  BY DEF TypeOK
<1>2. \A k \in 1 .. Len(passes[t]) - 1 : passes[t][k] \in Pass
  BY <1>1
<1> QED BY <1>1, <1>2, SubSeqProperties

\* Return keeps the invariant.
LEMMA ReturnKeeps ==
    ASSUME IInv, NEW t \in Threads, DestructorReturns(t)
    PROVE  IInv'
<1> DEFINE depth == Len(passes[t])
           pass == passes[t][depth]
           outer == SubSeq(passes[t], 1, depth - 1)
<1>1. depth \in Nat \ {0} /\ pass \in Pass /\ Sound(entries, pass)
  BY DEF IInv, TypeOK, DestructorReturns
<1>2. /\ outer \in Seq(Pass) /\ Len(outer) = depth - 1
      /\ \A k \in 1..Len(outer) : outer[k] = passes[t][k]
  BY OuterPasses DEF IInv, DestructorReturns
<1>3. \A k \in 1..Len(outer) : Sound(entries, outer[k])
  BY <1>1, <1>2 DEF IInv
<1>4. \A j \in pass.index - 1 + 1 .. pass.start :
         Matches(pass.dso, j) => ~entries[j].active
  BY <1>1 DEF Sound, Pass, Matches
<1>5. /\ pass.index - 1 \in Nat /\ pass.start \in Nat /\ pass.dso \in Dsos \cup {AnyDso}
      /\ pass.index - 1 <= pass.start /\ pass.start <= Len(entries)
  BY <1>1 DEF Sound, Pass
<1>6. /\ Scan(t, outer, pass.dso, pass.index - 1, pass.start)
      /\ phase' \in {"guest", "finalizing", "finalized"}
  BY DEF DestructorReturns, IInv, TypeOK
<1> HIDE DEF pass, outer, depth
<1> QED BY <1>2, <1>3, <1>4, <1>5, <1>6, ScanKeeps

\* Every step keeps the invariant.
LEMMA NextIInv == IInv /\ [Next]_vars => IInv'
<1> SUFFICES ASSUME IInv, [Next]_vars
             PROVE  IInv'
  OBVIOUS
<1>1. ASSUME NEW t \in Threads, NEW dso \in Dsos, Register(t, dso)
      PROVE  IInv'
  BY <1>1, RegisterKeeps
<1>2. ASSUME NEW t \in Threads, NEW dso \in Dsos \cup {AnyDso}, Finalize(t, dso)
      PROVE  IInv'
  BY <1>2, FinalizeKeeps DEF Finalize, IInv, TypeOK
<1>3. CASE CompatFinalize
  <2>1. passes[Main] = <<>> /\ Main \in Threads /\ AnyDso \in Dsos \cup {AnyDso}
    BY <1>3, AtExitAssumption DEF CompatFinalize
  <2> QED BY <1>3, <2>1, FinalizeKeeps DEF CompatFinalize
<1>4. ASSUME NEW t \in Threads, DestructorReturns(t)
      PROVE  IInv'
  BY <1>4, ReturnKeeps
<1>5. CASE UNCHANGED vars
  BY <1>5 DEF vars, IInv, TypeOK, StartedOnce
<1> QED BY <1>1, <1>2, <1>3, <1>4, <1>5 DEF Next

\* The inductive invariant holds in every reachable state.
THEOREM Invariance == Spec => []IInv
  BY InitIInv, NextIInv, PTL DEF Spec

\* The registry never outgrows its array and every variable keeps its type.
THEOREM TypeCorrect == Spec => []TypeOK
<1>1. IInv => TypeOK
  BY DEF IInv
<1> QED BY <1>1, Invariance, PTL

\* No destructor starts twice, for any number of threads and nested passes.
THEOREM AtMostOnce == Spec => []StartedOnce
<1>1. IInv => StartedOnce
  BY DEF IInv
<1> QED BY <1>1, Invariance, PTL

\* Destructors start in reverse order of registration within every pass.
THEOREM ReverseOrder == Spec => []NewerFirst
<1>1. IInv => NewerFirst
  BY DEF IInv, NewerFirst, Sound, Matches
<1> QED BY <1>1, Invariance, PTL

\* A pass that returns has left nothing it covers.
THEOREM Completeness == Spec => PassComplete
<1>1. IInv /\ [Next]_vars =>
        [\A t \in Threads : Len(passes'[t]) < Len(passes[t]) =>
            LET pass == passes[t][Len(passes[t])] IN
            \A j \in 1..pass.start : Matches(pass.dso, j) => ~entries'[j].active]_vars
  <2> SUFFICES ASSUME IInv, Next, NEW t \in Threads, Len(passes'[t]) < Len(passes[t]),
                      NEW j \in 1..passes[t][Len(passes[t])].start,
                      Matches(passes[t][Len(passes[t])].dso, j)
               PROVE  ~entries'[j].active
    OBVIOUS
  <2>1. DestructorReturns(t) /\ entries' = entries
        /\ Pending(passes[t][Len(passes[t])].dso, passes[t][Len(passes[t])].index - 1) = {}
    <3>1. ASSUME NEW u \in Threads, NEW outer \in Seq(Pass),
                 NEW dso, NEW n, NEW start, Scan(u, outer, dso, n, start),
                 Len(outer) + 1 >= Len(passes[u])
          PROVE  /\ u = t
                 /\ entries' = entries
                 /\ Pending(dso, n) = {}
                 /\ Len(outer) < Len(passes[u])
      <4>1. passes \in [Threads -> Seq(Pass)] /\ Len(passes[u]) \in Nat /\ Len(outer) \in Nat
        BY DEF IInv, TypeOK
      <4>2. ASSUME NEW x, passes' = [passes EXCEPT ![u] = Append(outer, x)]
            PROVE  FALSE
        <5>1. Len(Append(outer, x)) = Len(outer) + 1
          OBVIOUS
        <5>2. CASE u = t
          BY <3>1, <4>1, <4>2, <5>1, <5>2
        <5>3. CASE u # t
          <6>1. passes'[t] = passes[t] /\ Len(passes[t]) \in Nat
            BY <4>1, <4>2, <5>3
          <6> QED BY <6>1
        <5> QED BY <5>2, <5>3
      <4>3. PassEnds(u, outer, dso, n)
        BY <3>1, <4>2 DEF Scan, RunNewest
      <4>4. u = t
        <5>1. CASE u # t
          <6>1. passes'[t] = passes[t] /\ Len(passes[t]) \in Nat
            BY <4>1, <4>3, <5>1 DEF PassEnds
          <6> QED BY <6>1
        <5> QED BY <5>1
      <4>5. passes'[u] = outer
        BY <4>1, <4>3 DEF PassEnds
      <4> QED BY <4>3, <4>4, <4>5 DEF PassEnds
    <3>2. ASSUME NEW u \in Threads, DestructorReturns(u)
          PROVE  u = t /\ entries' = entries
                 /\ Pending(passes[u][Len(passes[u])].dso,
                            passes[u][Len(passes[u])].index - 1) = {}
      <4>1. /\ SubSeq(passes[u], 1, Len(passes[u]) - 1) \in Seq(Pass)
            /\ Len(SubSeq(passes[u], 1, Len(passes[u]) - 1)) = Len(passes[u]) - 1
        BY <3>2, OuterPasses DEF DestructorReturns, IInv
      <4>2. passes[u] \in Seq(Pass) /\ passes[u] # <<>> /\ Len(passes[u]) \in Nat
        BY <3>2 DEF DestructorReturns, IInv, TypeOK
      <4>3. /\ Scan(u, SubSeq(passes[u], 1, Len(passes[u]) - 1),
                    passes[u][Len(passes[u])].dso,
                    passes[u][Len(passes[u])].index - 1,
                    passes[u][Len(passes[u])].start)
        BY <3>2 DEF DestructorReturns
      <4>4. Len(SubSeq(passes[u], 1, Len(passes[u]) - 1)) + 1 >= Len(passes[u])
        BY <4>1, <4>2
      <4> QED BY <3>1, <4>1, <4>3, <4>4, Zenon
    <3>3. ASSUME NEW u \in Threads, NEW dso, Scan(u, passes[u], dso, Len(entries), Len(entries))
          PROVE  FALSE
      BY <3>1, <3>3 DEF IInv, TypeOK
    <3>4. ~ CompatFinalize
      BY <3>3, AtExitAssumption DEF CompatFinalize
    <3>5. ~ \E u \in Threads, dso \in Dsos \cup {AnyDso} : Finalize(u, dso)
      BY <3>3 DEF Finalize
    <3>6. ~ \E u \in Threads, dso \in Dsos : Register(u, dso)
      <4>1. ASSUME NEW u \in Threads, NEW dso \in Dsos, Register(u, dso)
            PROVE  FALSE
        BY <4>1 DEF Register, IInv, TypeOK
      <4> QED BY <4>1
    <3> QED BY <3>2, <3>4, <3>5, <3>6 DEF Next
  <2> DEFINE pass == passes[t][Len(passes[t])]
  <2>2. pass \in Pass /\ Sound(entries, pass)
    BY <2>1 DEF DestructorReturns, IInv, TypeOK
  <2>3. CASE j < pass.index
    BY <2>1, <2>2, <2>3 DEF Pending, Pass
  <2>4. CASE j >= pass.index
    BY <2>1, <2>2, <2>4 DEF Sound, Pass, Matches
  <2> QED BY <2>2, <2>3, <2>4 DEF Pass
<1> QED BY <1>1, Invariance, PTL DEF Spec, PassComplete
=============================================================================
