--------------------------- MODULE SharedStateProofs ---------------------------
(***************************************************************************)
(* Proofs about what guest threads share without a lock, for any number of *)
(* threads, guest and host objects, methods and fields: what the           *)
(* semaphores, the read-write locks and the JNI registries promise while   *)
(* first uses, creations, destructions and lookups overlap.                *)
(***************************************************************************)
EXTENDS SharedState, FiniteSetTheorems, WellFoundedInduction, TLAPS

(* Semaphores (SemBridge).                                                 *)

Busy(t) == call[t].at # "guest"
OnHost(t) == call[t].at \in {"install", "host"}
Alone(t) == \A u \in Threads : Busy(u) /\ call[u].g = call[t].g => u = t

\* Where a call can be.
CallInv ==
    \A t \in Threads :
        /\ Busy(t) => call[t].g \in Guests
        /\ call[t].at = "create" =>
              call[t].h \in Words /\ (call[t].op # "init" => call[t].h = 0)
        /\ OnHost(t) => call[t].h \in heap
        /\ Busy(t) /\ call[t].op \in {"init", "destroy"} => Alone(t)
        /\ Busy(t) /\ call[t].op = "destroy" => call[t].at = "host"

\* A host semaphore belongs to one guest semaphore.
PrivateInv ==
    /\ \A g \in Guests : IsHost(slot[g]) => slot[g] \in heap
    /\ \A f, g \in Guests : IsHost(slot[g]) /\ slot[f] = slot[g] => f = g
    /\ \A t \in Threads, g \in Guests : OnHost(t) /\ slot[g] = call[t].h => g = call[t].g
    /\ \A t, u \in Threads :
          OnHost(t) /\ OnHost(u) /\ call[t].h = call[u].h => call[t].g = call[u].g

\* One that is not stored yet is known to its creator only; one made on first use has no token.
FreshInv ==
    \A t \in Threads : call[t].at = "install" =>
        /\ \A g \in Guests : slot[g] # call[t].h
        /\ \A u \in Threads : OnHost(u) /\ call[u].h = call[t].h => u = t
        /\ call[t].op # "init" => value[call[t].h] = 0

\* Without a race a creation is alone, and a call is on the current semaphore.
UnracedInv ==
    \A t \in Threads : Busy(t) /\ call[t].g \notin raced =>
        /\ call[t].at = "host" => slot[call[t].g] = call[t].h
        /\ call[t].at \in {"create", "install"} => ~IsHost(slot[call[t].g]) /\ Alone(t)

Reaches(g, h) ==
    slot[g] = h \/ \E t \in Threads : call[t].at = "host" /\ call[t].g = g /\ call[t].h = h

\* The tokens in the host semaphores that g leads to.
Pile(g) == {p \in Hosts \X (1..MaxValue) : Reaches(g, p[1]) /\ p[2] <= value[p[1]]}

AgreeInv ==
    \A g \in Guests \ raced : tokens[g] = IF IsHost(slot[g]) THEN value[slot[g]] ELSE 0
PileInv ==
    \A g \in Guests : IsFiniteSet(Pile(g)) /\ Cardinality(Pile(g)) <= tokens[g]

\* What the semaphores of different guests and calls have to do with each other.
Apart == TypeOK /\ CallInv /\ PrivateInv /\ FreshInv /\ UnracedInv

IInv == Apart /\ AgreeInv /\ PileInv
-----------------------------------------------------------------------------
\* 0 is a small word.
LEMMA NoHostZero == 0 \notin Hosts /\ 0 \in Words /\ MaxValue \in Nat /\ MaxValue > 0
  BY HostSlotsAssumption, SemAssumption

LEMMA NoCallOk == NoCall \in CallType /\ NoCall.at = "guest"
  BY SemAssumption DEF NoCall, CallType

\* A guest that reaches no more tokens than before, and counts no fewer.
LEMMA PileKept ==
    ASSUME PileInv, TypeOK, NEW g \in Guests, Pile(g)' \subseteq Pile(g),
           tokens'[g] \in Int, tokens'[g] >= tokens[g]
    PROVE  IsFiniteSet(Pile(g)') /\ Cardinality(Pile(g)') <= tokens'[g]
<1>1. IsFiniteSet(Pile(g)) /\ Cardinality(Pile(g)) <= tokens[g] /\ tokens[g] \in Int
  BY DEF PileInv, TypeOK
<1>2. Pile(g)' \in SUBSET Pile(g)
  OBVIOUS
<1>3. /\ IsFiniteSet(Pile(g)') /\ Cardinality(Pile(g)') <= Cardinality(Pile(g))
      /\ Cardinality(Pile(g)) \in Nat /\ Cardinality(Pile(g)') \in Nat
  BY <1>1, <1>2, FS_Subset, FS_CardinalityType
<1> QED BY <1>1, <1>3

(* The entry points move thread t into a call on g.                        *)

Entered(t, g) ==
    /\ call' \in [Threads -> CallType]
    /\ \A u \in Threads \ {t} : call'[u] = call[u]
    /\ call[t].at = "guest" /\ call'[t].g = g
    /\ \/ call'[t].at = "host" /\ IsHost(slot[g]) /\ call'[t].h = slot[g]
       \/ /\ call'[t].at = "create" /\ ~IsHost(slot[g]) /\ call'[t].op # "destroy"
          /\ call'[t].h \in Words /\ (call'[t].op # "init" => call'[t].h = 0)
    /\ \A u \in Threads : Busy(u) /\ call[u].g = g =>
          /\ call[u].op \notin {"init", "destroy"} /\ call'[t].op \notin {"init", "destroy"}
          /\ call'[t].at = "create" /\ g \notin raced' => call[u].at = "host"
    /\ slot' \in [Guests -> Hosts \cup {0}]
    /\ \A f \in Guests : IsHost(slot[f]) \/ IsHost(slot'[f]) => slot'[f] = slot[f]
    /\ raced \subseteq raced' /\ raced' \subseteq Guests
    /\ UNCHANGED <<heap, value, tokens>>

LEMMA EntrySteps ==
    ASSUME TypeOK, NEW t \in Threads, NEW g \in Guests,
           \/ \E v \in Words : BeginInit(t, g, v)
           \/ \E op \in {"wait", "trywait", "timedwait", "post", "getvalue"} : BeginUse(t, g, op)
           \/ BeginDestroy(t, g)
    PROVE  Entered(t, g)
<1> USE NoHostZero, HostSlotsAssumption, SemAssumption
    DEF TypeOK, CallType, AtGuest, IsHost, Inside, Busy
<1>1. ASSUME NEW v \in Words, BeginInit(t, g, v) PROVE Entered(t, g)
  BY <1>1 DEF BeginInit, EnterInit, Entered
<1>2. ASSUME NEW op \in {"wait", "trywait", "timedwait", "post", "getvalue"}, BeginUse(t, g, op)
      PROVE  Entered(t, g)
  <2>1. op \in Ops \ {"init", "destroy"}
    BY <1>2
  <2>2. CASE IsHost(slot[g])
    <3>1. /\ call' = [call EXCEPT ![t] = [op |-> op, g |-> g, h |-> slot[g], at |-> "host"]]
          /\ call[t].at = "guest" /\ UNCHANGED <<slot, heap, raced, value, tokens>>
          /\ \A u \in Threads : Busy(u) /\ call[u].g = g => call[u].op \notin {"init", "destroy"}
      BY <1>2, <2>2 DEF BeginUse, Enter, Usable
    <3> QED BY <2>1, <2>2, <3>1 DEF Entered
  <2>3. CASE ~IsHost(slot[g])
    <3>1. /\ call' = [call EXCEPT ![t] = [op |-> op, g |-> g, h |-> 0, at |-> "create"]]
          /\ call[t].at = "guest" /\ UNCHANGED <<slot, heap, value, tokens>>
          /\ raced' = IF Creating(g) = {} THEN raced ELSE raced \cup {g}
          /\ \A u \in Threads : Busy(u) /\ call[u].g = g => call[u].op \notin {"init", "destroy"}
      BY <1>2, <2>3 DEF BeginUse, Enter, Usable
    <3>2. \A u \in Threads : Busy(u) /\ call[u].g = g /\ g \notin raced' => call[u].at = "host"
      BY <3>1 DEF Creating
    <3> QED BY <2>1, <2>3, <3>1, <3>2 DEF Entered
  <2> QED BY <2>2, <2>3
<1>3. CASE BeginDestroy(t, g)
  <2>1. /\ call' = [call EXCEPT ![t] = [op |-> "destroy", g |-> g, h |-> slot[g], at |-> "host"]]
        /\ call[t].at = "guest" /\ UNCHANGED <<slot, heap, raced, value, tokens>>
        /\ IsHost(slot[g]) /\ \A u \in Threads : ~(Busy(u) /\ call[u].g = g)
    BY <1>3 DEF BeginDestroy, Enter
  <2> QED BY <2>1 DEF Entered
<1> QED BY <1>1, <1>2, <1>3

LEMMA EntryKeeps ==
    ASSUME IInv, NEW t \in Threads, NEW g \in Guests, Entered(t, g)
    PROVE  IInv'
<1> USE NoHostZero, HostSlotsAssumption DEF IInv, Apart, Busy, OnHost, IsHost
<1>1. TypeOK'
  BY DEF TypeOK, Entered
<1>2. CallInv'
  BY DEF CallInv, PrivateInv, Entered, Alone
<1>3. PrivateInv'
  BY DEF CallInv, PrivateInv, Entered, TypeOK
<1>4. FreshInv'
  BY DEF CallInv, FreshInv, Entered, TypeOK
<1>5. UnracedInv'
  <2> SUFFICES ASSUME NEW u \in Threads, call'[u].at # "guest", call'[u].g \notin raced'
               PROVE  /\ call'[u].at = "host" => slot'[call'[u].g] = call'[u].h
                      /\ call'[u].at \in {"create", "install"} =>
                            slot'[call'[u].g] \notin Hosts /\ Alone(u)'
    BY DEF UnracedInv
  <2>1. CASE u = t
    <3>1. g \notin raced
      BY <2>1 DEF Entered
    <3>2. ASSUME call'[t].at = "create", NEW v \in Threads \ {t}, Busy(v), call[v].g = g
          PROVE  FALSE
      BY <2>1, <3>1, <3>2 DEF UnracedInv, Entered, CallInv, TypeOK
    <3> QED BY <2>1, <3>1, <3>2 DEF Entered, Alone
  <2>2. CASE u # t
    <3>1. call'[u] = call[u] /\ call[u].g \in Guests /\ call[u].g \notin raced
      BY <2>2 DEF Entered, CallInv
    <3>2. call[u].at \in {"create", "install"} => slot[call[u].g] \notin Hosts /\ Alone(u)
      BY <3>1 DEF UnracedInv
    <3>3. call[u].at \in {"create", "install"} => call[u].g # g
      BY <2>2, <3>1, <3>2 DEF Entered, UnracedInv
    <3>4. call[u].at = "host" => slot'[call[u].g] = call[u].h
      BY <3>1 DEF UnracedInv, Entered, CallInv, TypeOK
    <3> QED BY <2>2, <3>1, <3>2, <3>3, <3>4 DEF Entered, Alone
  <2> QED BY <2>1, <2>2
<1>6. \A f \in Guests, h \in Hosts : Reaches(f, h)' => Reaches(f, h)
  BY DEF Reaches, Entered
<1>7. \A f \in Guests : Pile(f)' \subseteq Pile(f)
  BY <1>6 DEF Pile, Entered
<1>8. PileInv'
  <2> SUFFICES ASSUME NEW f \in Guests
               PROVE  IsFiniteSet(Pile(f)') /\ Cardinality(Pile(f)') <= tokens'[f]
    BY DEF PileInv
  <2>1. tokens'[f] \in Int /\ tokens'[f] >= tokens[f]
    BY DEF Entered, TypeOK
  <2> HIDE DEF IInv, Apart
  <2>2. PileInv /\ TypeOK
    BY DEF IInv, Apart
  <2> QED BY <1>7, <2>1, <2>2, PileKept
<1>9. AgreeInv'
  BY DEF AgreeInv, Entered
<1> QED BY <1>1, <1>2, <1>3, <1>4, <1>5, <1>8, <1>9
-----------------------------------------------------------------------------
(* A call returns; the host semaphore it was on may have changed.          *)

Returned(t) ==
    /\ call' \in [Threads -> CallType]
    /\ \A u \in Threads \ {t} : call'[u] = call[u]
    /\ call'[t].at = "guest" /\ call[t].at \in {"create", "host"}
    /\ value' \in [Hosts -> 0..MaxValue] /\ tokens' \in [Guests -> Int]
    /\ \A h \in Hosts : value'[h] = value[h] \/ (call[t].at = "host" /\ h = call[t].h)
    /\ UNCHANGED <<slot, heap, raced>>

LEMMA ReturnKeeps ==
    ASSUME Apart, NEW t \in Threads, Returned(t)
    PROVE  Apart'
<1> USE NoHostZero, HostSlotsAssumption DEF Apart, Busy, OnHost, IsHost, Returned
<1>1. TypeOK'
  BY DEF TypeOK
<1>2. CallInv'
  BY DEF CallInv, Alone
<1>3. PrivateInv'
  BY DEF PrivateInv
<1>4. FreshInv'
  BY DEF FreshInv, CallInv, TypeOK
<1>5. UnracedInv'
  BY DEF UnracedInv, Alone
<1> QED BY <1>1, <1>2, <1>3, <1>4, <1>5
-----------------------------------------------------------------------------
(* What a step does to the piles.                                          *)

\* A set with no more than n elements: one element fewer, one more.
LEMMA OneFewer ==
    ASSUME NEW S, IsFiniteSet(S), NEW n \in Int, Cardinality(S) <= n, NEW p \in S,
           NEW T, T \subseteq S \ {p}
    PROVE  IsFiniteSet(T) /\ Cardinality(T) <= n - 1
<1>1. /\ IsFiniteSet(S \ {p}) /\ Cardinality(S \ {p}) = Cardinality(S) - 1
      /\ Cardinality(S) \in Nat
  BY FS_RemoveElement, FS_CardinalityType
<1>2. T \in SUBSET (S \ {p})
  OBVIOUS
<1>3. IsFiniteSet(T) /\ Cardinality(T) <= Cardinality(S \ {p})
  BY <1>1, <1>2, FS_Subset
<1>4. Cardinality(T) \in Nat
  BY <1>3, FS_CardinalityType
<1> QED BY <1>1, <1>3, <1>4

LEMMA OneMore ==
    ASSUME NEW S, IsFiniteSet(S), NEW n \in Int, Cardinality(S) <= n, NEW p,
           NEW T, T \subseteq S \cup {p}
    PROVE  IsFiniteSet(T) /\ Cardinality(T) <= n + 1
<1>1. Cardinality(S) \in Nat
  BY FS_CardinalityType
<1>2. /\ IsFiniteSet(S \cup {p})
      /\ Cardinality(S \cup {p}) = IF p \in S THEN Cardinality(S) ELSE Cardinality(S) + 1
  BY FS_AddElement
<1>3. T \in SUBSET (S \cup {p})
  OBVIOUS
<1>4. IsFiniteSet(T) /\ Cardinality(T) <= Cardinality(S \cup {p})
  BY <1>2, <1>3, FS_Subset
<1>5. Cardinality(T) \in Nat
  BY <1>4, FS_CardinalityType
<1> QED BY <1>1, <1>2, <1>4, <1>5

\* A call that returns with no token taken or posted.
LEMMA ReturnSteps ==
    ASSUME IInv, NEW t \in Threads, CreateFails(t) \/ ReturnUnchanged(t) \/ GiveUp(t)
    PROVE  IInv'
<1>1. /\ call[t].at \in {"create", "host"} /\ call' = [call EXCEPT ![t] = NoCall]
      /\ UNCHANGED <<slot, heap, raced, value, tokens>>
  BY DEF CreateFails, NoMemory, slotVars, ReturnUnchanged, GiveUp, Return, At
<1>2. Returned(t)
  BY <1>1, NoCallOk DEF Returned, IInv, Apart, TypeOK
<1>3. Apart'
  BY <1>2, ReturnKeeps DEF IInv
<1>4. AgreeInv'
  BY <1>1 DEF IInv, AgreeInv, IsHost
<1>5. PileInv /\ TypeOK
  BY DEF IInv, Apart
<1>6. \A f \in Guests, h \in Hosts : Reaches(f, h)' => Reaches(f, h)
  BY <1>1, <1>2 DEF Reaches, Returned
<1>7. \A f \in Guests : Pile(f)' \subseteq Pile(f)
  BY <1>1, <1>6 DEF Pile
<1>8. \A f \in Guests : tokens'[f] \in Int /\ tokens'[f] >= tokens[f]
  BY <1>1, <1>5 DEF TypeOK
<1>9. PileInv'
  BY <1>5, <1>7, <1>8, PileKept DEF PileInv
<1> QED BY <1>3, <1>4, <1>9 DEF IInv

\* A wait that gets a token, a post, and a post at the limit.
LEMMA TokenSteps ==
    ASSUME IInv, NEW t \in Threads, TakeToken(t) \/ Post(t)
    PROVE  IInv'
<1>1. TypeOK /\ Apart /\ PileInv /\ AgreeInv
  BY DEF IInv, Apart
<1>2. PICK g \in Guests, h \in Hosts : g = call[t].g /\ h = call[t].h /\ call[t].at = "host"
  BY <1>1 DEF TakeToken, Post, At, Apart, TypeOK, CallInv, Busy, OnHost
<1>3. /\ call' = [call EXCEPT ![t] = NoCall] /\ UNCHANGED <<slot, heap, raced>>
      /\ \/ UNCHANGED <<value, tokens>>
         \/ \E d \in {-1, 1} :
               /\ value' = [value EXCEPT ![h] = @ + d] /\ tokens' = [tokens EXCEPT ![g] = @ + d]
               /\ value[h] + d \in 0..MaxValue
  <2>1. value[h] \in 0..MaxValue /\ MaxValue \in Nat
    BY <1>1, NoHostZero DEF TypeOK
  <2>2. CASE TakeToken(t)
    <3>1. /\ value[h] > 0 /\ call' = [call EXCEPT ![t] = NoCall] /\ UNCHANGED <<slot, heap, raced>>
          /\ value' = [value EXCEPT ![h] = @ - 1] /\ tokens' = [tokens EXCEPT ![g] = @ - 1]
      BY <1>2, <2>2 DEF TakeToken, Return
    <3>2. value' = [value EXCEPT ![h] = @ + (-1)] /\ tokens' = [tokens EXCEPT ![g] = @ + (-1)]
      BY <1>1, <1>2, <3>1 DEF TypeOK
    <3>3. value[h] + (-1) \in 0..MaxValue
      BY <2>1, <3>1
    <3> QED BY <3>1, <3>2, <3>3
  <2>3. CASE Post(t)
    <3>1. call' = [call EXCEPT ![t] = NoCall] /\ UNCHANGED <<slot, heap, raced>>
      BY <2>3 DEF Post, Return
    <3>2. CASE value[h] < MaxValue
      <4>1. value' = [value EXCEPT ![h] = @ + 1] /\ tokens' = [tokens EXCEPT ![g] = @ + 1]
        BY <1>2, <2>3, <3>2 DEF Post
      <4>2. value[h] + 1 \in 0..MaxValue
        BY <2>1, <3>2
      <4> QED BY <3>1, <4>1, <4>2
    <3>3. CASE ~(value[h] < MaxValue)
      BY <1>2, <2>3, <3>1, <3>3 DEF Post
    <3> QED BY <3>2, <3>3
  <2> QED BY <2>2, <2>3
<1>4. Returned(t)
  <2>1. value' \in [Hosts -> 0..MaxValue] /\ tokens' \in [Guests -> Int]
    BY <1>1, <1>3 DEF TypeOK
  <2>2. call' \in [Threads -> CallType] /\ call'[t].at = "guest"
    BY <1>1, <1>3, NoCallOk DEF TypeOK
  <2>3. \A k \in Hosts : value'[k] = value[k] \/ k = h
    BY <1>1, <1>3 DEF TypeOK
  <2> QED BY <1>1, <1>2, <1>3, <2>1, <2>2, <2>3 DEF Returned, TypeOK
<1>5. Apart'
  BY <1>1, <1>4, ReturnKeeps
<1>6. \A f \in Guests, k \in Hosts : Reaches(f, k)' => Reaches(f, k)
  BY <1>4 DEF Reaches, Returned
<1>7. \A f \in Guests \ {g} : ~Reaches(f, h)
  BY <1>1, <1>2 DEF Apart, PrivateInv, Reaches, OnHost
<1>8. Reaches(g, h)
  BY <1>2 DEF Reaches
<1>9. g \notin raced => slot[g] = h
  BY <1>1, <1>2 DEF Apart, UnracedInv, Busy
<1>10. CASE UNCHANGED <<value, tokens>>
  <2>1. \A f \in Guests : Pile(f)' \subseteq Pile(f)
    BY <1>6, <1>10 DEF Pile
  <2>2. \A f \in Guests : tokens'[f] \in Int /\ tokens'[f] >= tokens[f]
    BY <1>1, <1>10 DEF TypeOK
  <2>3. PileInv'
    BY <1>1, <2>1, <2>2, PileKept DEF PileInv
  <2>4. AgreeInv'
    BY <1>1, <1>3, <1>10 DEF AgreeInv, IsHost
  <2> QED BY <1>5, <2>3, <2>4 DEF IInv
<1>11. ASSUME NEW d \in {-1, 1}, value' = [value EXCEPT ![h] = @ + d],
              tokens' = [tokens EXCEPT ![g] = @ + d], value[h] + d \in 0..MaxValue
       PROVE  IInv'
  <2>1. /\ value[h] \in 0..MaxValue /\ value'[h] = value[h] + d
        /\ tokens[g] \in Int /\ tokens'[g] = tokens[g] + d
    BY <1>1, <1>11 DEF TypeOK
  <2>2. /\ \A k \in Hosts \ {h} : value'[k] = value[k]
        /\ \A f \in Guests \ {g} : tokens'[f] = tokens[f] /\ tokens'[f] \in Int
    BY <1>1, <1>11 DEF TypeOK
  <2>3. AgreeInv'
    <3> SUFFICES ASSUME NEW f \in Guests \ raced
                 PROVE  tokens'[f] = IF slot[f] \in Hosts THEN value'[slot[f]] ELSE 0
      BY <1>3 DEF AgreeInv, IsHost
    <3>1. tokens[f] = IF slot[f] \in Hosts THEN value[slot[f]] ELSE 0
      BY <1>1 DEF AgreeInv, IsHost
    <3>2. CASE f = g
      BY <3>1, <3>2, <1>9, <2>1
    <3>3. CASE f # g
      BY <3>1, <3>3, <1>7, <2>2 DEF Reaches
    <3> QED BY <3>2, <3>3
  <2>4. ASSUME NEW f \in Guests \ {g}
        PROVE  IsFiniteSet(Pile(f)') /\ Cardinality(Pile(f)') <= tokens'[f]
    <3>1. Pile(f)' \subseteq Pile(f)
      BY <1>6, <1>7, <2>2 DEF Pile
    <3>2. tokens'[f] \in Int /\ tokens'[f] >= tokens[f]
      BY <2>2
    <3> QED BY <1>1, <3>1, <3>2, PileKept
  <2>5. IsFiniteSet(Pile(g)) /\ Cardinality(Pile(g)) <= tokens[g]
    BY <1>1 DEF PileInv
  <2>6. IsFiniteSet(Pile(g)') /\ Cardinality(Pile(g)') <= tokens'[g]
    <3>1. CASE d = -1
      <4>1. /\ value[h] \in 1..MaxValue /\ value'[h] < value[h]
            /\ \A k \in 1..MaxValue : k <= value'[h] => k <= value[h] /\ k # value[h]
        BY <1>11, <2>1, <3>1, NoHostZero
      <4>2. <<h, value[h]>> \in Pile(g)
        BY <1>8, <2>1, <4>1 DEF Pile
      <4>3. Pile(g)' \subseteq Pile(g) \ {<<h, value[h]>>}
        <5> SUFFICES ASSUME NEW k \in Hosts, NEW n \in 1..MaxValue, Reaches(g, k)', n <= value'[k]
                     PROVE  Reaches(g, k) /\ n <= value[k] /\ (k # h \/ n # value[h])
          BY DEF Pile
        <5> QED BY <1>6, <2>2, <4>1
      <4> QED BY <4>2, <4>3, <2>1, <2>5, <3>1, OneFewer
    <3>2. CASE d = 1
      <4>1. \A k \in 1..MaxValue : k <= value'[h] => k <= value[h] \/ k = value[h] + 1
        BY <2>1, <3>2, NoHostZero
      <4>2. Pile(g)' \subseteq Pile(g) \cup {<<h, value[h] + 1>>}
        <5> SUFFICES ASSUME NEW k \in Hosts, NEW n \in 1..MaxValue, Reaches(g, k)', n <= value'[k]
                     PROVE  Reaches(g, k) /\ (n <= value[k] \/ (k = h /\ n = value[h] + 1))
          BY DEF Pile
        <5>1. CASE k = h
          BY <5>1, <1>6, <4>1
        <5>2. CASE k # h
          BY <5>2, <1>6, <2>2
        <5> QED BY <5>1, <5>2
      <4>3. IsFiniteSet(Pile(g)') /\ Cardinality(Pile(g)') <= tokens[g] + 1
        BY <4>2, <2>1, <2>5, OneMore
      <4> QED BY <4>3, <2>1, <3>2
    <3> QED BY <3>1, <3>2
  <2> QED BY <1>5, <2>3, <2>4, <2>6 DEF IInv, PileInv
<1> QED BY <1>3, <1>10, <1>11
-----------------------------------------------------------------------------
(* Creation and destruction.                                               *)

\* A host semaphore made at an address that nobody uses.
LEMMA CreateSteps ==
    ASSUME IInv, NEW t \in Threads, NEW h \in Hosts, CreateSem(t, h)
    PROVE  IInv'
<1>1. TypeOK /\ Apart /\ PileInv /\ AgreeInv
  BY DEF IInv, Apart
<1>2. /\ call[t].at = "create" /\ h \notin heap /\ heap' = heap \cup {h}
      /\ call' = [call EXCEPT ![t].h = h, ![t].at = "install"]
      /\ value' = [value EXCEPT ![h] = call[t].h] /\ UNCHANGED <<slot, raced, tokens>>
  BY DEF CreateSem, Allocated
<1>3. /\ call[t].g \in Guests /\ call[t].h \in Words /\ (call[t].op # "init" => call[t].h = 0)
      /\ call[t].op # "destroy"
  BY <1>1, <1>2 DEF Apart, CallInv, Busy
<1>4. /\ call' \in [Threads -> CallType] /\ \A u \in Threads \ {t} : call'[u] = call[u]
      /\ call'[t] = [op |-> call[t].op, g |-> call[t].g, h |-> h, at |-> "install"]
  BY <1>1, <1>2 DEF TypeOK, CallType
<1>5. /\ value' \in [Hosts -> 0..MaxValue] /\ \A k \in Hosts \ {h} : value'[k] = value[k]
      /\ value'[h] = call[t].h
  BY <1>1, <1>2, <1>3, SemAssumption DEF TypeOK
<1>6. /\ \A g \in Guests : slot[g] # h
      /\ \A u \in Threads : OnHost(u) => call[u].h # h
  BY <1>1, <1>2 DEF Apart, PrivateInv, CallInv, IsHost
<1> USE DEF Busy, OnHost, IsHost
<1>7. TypeOK'
  BY <1>1, <1>2, <1>4, <1>5 DEF TypeOK
<1>8. CallInv'
  BY <1>1, <1>2, <1>3, <1>4 DEF Apart, CallInv, Alone
<1>9. PrivateInv'
  BY <1>1, <1>2, <1>4, <1>6 DEF Apart, PrivateInv
<1>10. FreshInv'
  BY <1>1, <1>2, <1>3, <1>4, <1>5, <1>6 DEF Apart, FreshInv, CallInv
<1>11. UnracedInv'
  BY <1>1, <1>2, <1>4 DEF Apart, UnracedInv, Alone
<1>12. AgreeInv'
  BY <1>1, <1>2, <1>5, <1>6 DEF AgreeInv
<1>13. \A f \in Guests, k \in Hosts : Reaches(f, k)' => Reaches(f, k) /\ k # h
  BY <1>2, <1>4, <1>6 DEF Reaches
<1>14. \A f \in Guests : Pile(f)' \subseteq Pile(f)
  BY <1>5, <1>13 DEF Pile
<1>15. \A f \in Guests : tokens'[f] \in Int /\ tokens'[f] >= tokens[f]
  BY <1>1, <1>2 DEF TypeOK
<1>16. PileInv'
  BY <1>1, <1>14, <1>15, PileKept DEF PileInv
<1> QED BY <1>7, <1>8, <1>9, <1>10, <1>11, <1>12, <1>16 DEF IInv, Apart

\* It is stored; the guest counts the tokens of an initialised one, and a
\* one made on first use has none.
LEMMA InstallSteps ==
    ASSUME IInv, NEW t \in Threads, InstallSem(t)
    PROVE  IInv'
<1>1. TypeOK /\ Apart /\ PileInv /\ AgreeInv
  BY DEF IInv, Apart
<1> USE DEF Busy, OnHost, IsHost
<1>2. PICK g \in Guests, h \in Hosts :
         g = call[t].g /\ h = call[t].h /\ h \in heap /\ call[t].at = "install"
  BY <1>1 DEF InstallSem, Install, Apart, TypeOK, CallInv
<1>3. /\ slot' = [slot EXCEPT ![g] = h] /\ call' = [call EXCEPT ![t].at = "host"]
      /\ tokens' = IF call[t].op = "init" THEN [tokens EXCEPT ![g] = value[h]] ELSE tokens
      /\ UNCHANGED <<heap, raced, value>>
  BY <1>2 DEF InstallSem, Install
<1>4. /\ call' \in [Threads -> CallType] /\ \A u \in Threads \ {t} : call'[u] = call[u]
      /\ call'[t] = [op |-> call[t].op, g |-> g, h |-> h, at |-> "host"]
  BY <1>1, <1>2, <1>3 DEF TypeOK, CallType
<1>5. /\ slot' \in [Guests -> Hosts \cup {0}] /\ slot'[g] = h
      /\ \A f \in Guests \ {g} : slot'[f] = slot[f]
  BY <1>1, <1>2, <1>3 DEF TypeOK
<1>6. /\ tokens' \in [Guests -> Int] /\ \A f \in Guests \ {g} : tokens'[f] = tokens[f]
      /\ tokens'[g] = IF call[t].op = "init" THEN value[h] ELSE tokens[g]
      /\ value[h] \in 0..MaxValue
  BY <1>1, <1>3, NoHostZero DEF TypeOK
<1>7. TypeOK'
  BY <1>1, <1>3, <1>4, <1>5, <1>6 DEF TypeOK
<1> DEFINE Same(u) == call'[u].g = call[u].g /\ call'[u].h = call[u].h /\ call'[u].op = call[u].op
<1>8. \A u \in Threads :
          /\ Same(u)
          /\ call'[u].at = IF u = t THEN "host" ELSE call[u].at
  BY <1>2, <1>4
<1>9. CallInv'
  <2>1. \A u \in Threads : Alone(u) => Alone(u)'
    BY <1>2, <1>8 DEF Alone
  <2> QED BY <1>1, <1>2, <1>3, <1>8, <2>1 DEF Apart, CallInv
<1>10. PrivateInv'
  BY <1>1, <1>2, <1>3, <1>8, <1>5 DEF Apart, PrivateInv, FreshInv
<1>11. FreshInv'
  <2> SUFFICES ASSUME NEW u \in Threads \ {t}, call[u].at = "install"
               PROVE  /\ \A f \in Guests : slot'[f] # call[u].h
                      /\ \A v \in Threads : OnHost(v)' /\ call[v].h = call[u].h => v = u
                      /\ call[u].op # "init" => value[call[u].h] = 0
    BY <1>3, <1>8 DEF FreshInv
  <2>1. h # call[u].h
    BY <1>1, <1>2 DEF Apart, FreshInv
  <2> QED BY <1>1, <1>2, <1>5, <1>8, <2>1 DEF Apart, FreshInv
<1>12. UnracedInv'
  <2> SUFFICES ASSUME NEW u \in Threads, call'[u].at # "guest", call'[u].g \notin raced
               PROVE  /\ call'[u].at = "host" => slot'[call'[u].g] = call'[u].h
                      /\ call'[u].at \in {"create", "install"} =>
                            slot'[call'[u].g] \notin Hosts /\ Alone(u)'
    BY <1>3 DEF UnracedInv
  <2>1. CASE u = t
    BY <2>1, <1>4, <1>5
  <2>2. CASE u # t
    <3>1. call'[u] = call[u] /\ call[u].g \in Guests
      BY <2>2, <1>1, <1>4 DEF Apart, CallInv
    <3>2. CASE call[u].g = g
      <4>1. Alone(t)
        BY <3>1, <3>2, <1>1, <1>2 DEF Apart, UnracedInv
      <4> QED BY <4>1, <2>2, <3>1, <3>2, <1>2 DEF Alone
    <3>3. CASE call[u].g # g
      <4>1. slot'[call[u].g] = slot[call[u].g]
        BY <3>1, <3>3, <1>5
      <4>2. Alone(u) => Alone(u)'
        BY <2>2, <3>1, <1>2, <1>4 DEF Alone
      <4> QED BY <3>1, <4>1, <4>2, <1>1 DEF Apart, UnracedInv
    <3> QED BY <3>2, <3>3
  <2> QED BY <2>1, <2>2
<1>13. call[t].op # "init" => value[h] = 0
  BY <1>1, <1>2 DEF Apart, FreshInv
<1>14. AgreeInv'
  <2>1. ASSUME g \notin raced PROVE tokens'[g] = value[h]
    <3>1. slot[g] \notin Hosts
      BY <2>1, <1>1, <1>2 DEF Apart, UnracedInv
    <3>2. tokens[g] = 0
      BY <2>1, <3>1, <1>1 DEF AgreeInv
    <3> QED BY <3>2, <1>6, <1>13
  <2> QED BY <2>1, <1>1, <1>3, <1>5, <1>6 DEF AgreeInv
<1>15. ASSUME NEW f \in Guests \ {g}
       PROVE  IsFiniteSet(Pile(f)') /\ Cardinality(Pile(f)') <= tokens'[f]
  <2>1. \A k \in Hosts : Reaches(f, k)' => Reaches(f, k)
    BY <1>4, <1>5 DEF Reaches
  <2>2. Pile(f)' \subseteq Pile(f)
    BY <2>1, <1>3 DEF Pile
  <2>3. tokens'[f] \in Int /\ tokens'[f] >= tokens[f]
    BY <1>1, <1>6 DEF TypeOK
  <2> QED BY <1>1, <2>2, <2>3, PileKept
<1>16. IsFiniteSet(Pile(g)') /\ Cardinality(Pile(g)') <= tokens'[g]
  <2>1. CASE call[t].op # "init"
    <3>1. \A k \in Hosts : Reaches(g, k)' => Reaches(g, k) \/ k = h
      BY <1>4, <1>5 DEF Reaches
    <3>2. \A n \in 1..MaxValue : ~(n <= value[h])
      BY <2>1, <1>13
    <3>3. Pile(g)' \subseteq Pile(g)
      BY <3>1, <3>2, <1>3 DEF Pile
    <3>4. tokens'[g] \in Int /\ tokens'[g] >= tokens[g]
      BY <2>1, <1>1, <1>6 DEF TypeOK
    <3> QED BY <1>1, <3>3, <3>4, PileKept
  <2>2. CASE call[t].op = "init"
    <3>1. \A u \in Threads : call[u].at # "guest" /\ call[u].g = g => u = t
      BY <2>2, <1>1, <1>2 DEF Apart, CallInv, Alone
    <3>2. \A k \in Hosts : Reaches(g, k)' => k = h
      BY <3>1, <1>4, <1>5 DEF Reaches
    <3>3. Pile(g)' \in SUBSET ({h} \X (1..value[h]))
      <4> SUFFICES ASSUME NEW k \in Hosts, NEW n \in 1..MaxValue, Reaches(g, k)', n <= value'[k]
                   PROVE  k = h /\ n \in 1..value[h]
        BY DEF Pile
      <4> QED BY <3>2, <1>3, <1>6, NoHostZero
    <3>4. IsFiniteSet({h}) /\ Cardinality({h}) = 1
      BY FS_Singleton
    <3>5. value[h] \in Int /\ 1 \in Int /\ value[h] >= 0
      BY <1>6, NoHostZero
    <3>6. IsFiniteSet(1..value[h]) /\ Cardinality(1..value[h]) = value[h]
      <4>1. IsFiniteSet(1..value[h])
            /\ Cardinality(1..value[h]) = IF 1 > value[h] THEN 0 ELSE value[h] - 1 + 1
        BY <3>5, FS_Interval
      <4> QED BY <3>5, <4>1
    <3>7. /\ IsFiniteSet({h} \X (1..value[h]))
          /\ Cardinality({h} \X (1..value[h])) = Cardinality({h}) * Cardinality(1..value[h])
      BY <3>4, <3>6, FS_Product
    <3>8. IsFiniteSet(Pile(g)') /\ Cardinality(Pile(g)') <= Cardinality({h} \X (1..value[h]))
      BY <3>3, <3>7, FS_Subset
    <3> QED BY <2>2, <3>4, <3>5, <3>6, <3>7, <3>8, <1>6
  <2> QED BY <2>1, <2>2
<1> QED BY <1>7, <1>9, <1>10, <1>11, <1>12, <1>14, <1>15, <1>16 DEF IInv, Apart, PileInv

\* It is freed; the thread that destroys it was alone on it.
LEMMA DestroySteps ==
    ASSUME IInv, NEW t \in Threads, Destroy(t)
    PROVE  IInv'
<1>1. TypeOK /\ Apart /\ PileInv /\ AgreeInv
  BY DEF IInv, Apart
<1> USE DEF Busy, OnHost, IsHost
<1>2. PICK g \in Guests, h \in Hosts :
         g = call[t].g /\ h = call[t].h /\ call[t].at = "host" /\ call[t].op = "destroy"
  BY <1>1 DEF Destroy, At, Apart, TypeOK, CallInv
<1>3. /\ slot' = [slot EXCEPT ![g] = 0] /\ call' = [call EXCEPT ![t] = NoCall]
      /\ tokens' = [tokens EXCEPT ![g] = 0] /\ heap' = heap \ {h} /\ UNCHANGED <<raced, value>>
  BY <1>2 DEF Destroy, Return
<1>4. /\ call' \in [Threads -> CallType] /\ \A u \in Threads \ {t} : call'[u] = call[u]
      /\ call'[t] = NoCall /\ NoCall.at = "guest"
  BY <1>1, <1>3, NoCallOk DEF TypeOK
<1>5. /\ slot' \in [Guests -> Hosts \cup {0}] /\ slot'[g] = 0
      /\ \A f \in Guests \ {g} : slot'[f] = slot[f]
  BY <1>1, <1>3 DEF TypeOK
<1>6. /\ tokens' \in [Guests -> Int] /\ \A f \in Guests \ {g} : tokens'[f] = tokens[f]
      /\ tokens'[g] = 0
  BY <1>1, <1>3 DEF TypeOK
<1>7. \A u \in Threads \ {t} : call[u].at # "guest" => call[u].g # g
  BY <1>1, <1>2 DEF Apart, CallInv, Alone
<1>8. /\ \A u \in Threads \ {t} : OnHost(u) => call[u].h # h
      /\ \A f \in Guests \ {g} : slot[f] # h
  BY <1>1, <1>2, <1>7 DEF Apart, PrivateInv
<1>9. TypeOK'
  BY <1>1, <1>3, <1>4, <1>5, <1>6 DEF TypeOK
<1>10. CallInv'
  BY <1>1, <1>3, <1>4, <1>8 DEF Apart, CallInv, Alone
<1>11. PrivateInv'
  <2>1. \A u \in Threads : OnHost(u)' => u # t /\ OnHost(u) /\ call'[u] = call[u]
    BY <1>4
  <2>2. \A u \in Threads : OnHost(u) => call[u].h \in Hosts
    BY <1>1 DEF Apart, CallInv, TypeOK
  <2>3. \A f \in Guests : slot'[f] \in Hosts => f # g /\ slot'[f] = slot[f]
    BY <1>5, NoHostZero
  <2>4. \A e, f \in Guests : slot[f] \in Hosts /\ slot[e] = slot[f] => e = f
    BY <1>1 DEF Apart, PrivateInv
  <2>5. \A f \in Guests : slot'[f] \in Hosts => slot'[f] \in heap'
    BY <1>1, <1>3, <1>8, <2>3 DEF Apart, PrivateInv
  <2> QED BY <1>1, <2>1, <2>2, <2>3, <2>4, <2>5 DEF Apart, PrivateInv
<1>12. FreshInv'
  <2>1. \A u \in Threads : call[u].at = "install" => call[u].h \in Hosts
    BY <1>1 DEF Apart, CallInv, TypeOK
  <2> QED BY <1>1, <1>3, <1>4, <1>5, <2>1, NoHostZero DEF Apart, FreshInv
<1>13. UnracedInv'
  <2> SUFFICES ASSUME NEW u \in Threads \ {t}, call[u].at # "guest", call[u].g \notin raced
               PROVE  /\ call[u].at = "host" => slot'[call[u].g] = call[u].h
                      /\ call[u].at \in {"create", "install"} =>
                            slot'[call[u].g] \notin Hosts /\ Alone(u)'
    BY <1>3, <1>4 DEF UnracedInv
  <2>1. slot'[call[u].g] = slot[call[u].g]
    BY <1>1, <1>5, <1>7 DEF Apart, CallInv
  <2>2. Alone(u) => Alone(u)'
    BY <1>4 DEF Alone
  <2> QED BY <2>1, <2>2, <1>1 DEF Apart, UnracedInv
<1>14. AgreeInv'
  BY <1>1, <1>3, <1>5, <1>6, NoHostZero DEF AgreeInv
<1>15. ASSUME NEW f \in Guests \ {g}
       PROVE  IsFiniteSet(Pile(f)') /\ Cardinality(Pile(f)') <= tokens'[f]
  <2>1. \A k \in Hosts : Reaches(f, k)' => Reaches(f, k)
    BY <1>4, <1>5 DEF Reaches
  <2>2. Pile(f)' \subseteq Pile(f)
    BY <2>1, <1>3 DEF Pile
  <2>3. tokens'[f] \in Int /\ tokens'[f] >= tokens[f]
    BY <1>1, <1>6 DEF TypeOK
  <2> QED BY <1>1, <2>2, <2>3, PileKept
<1>16. IsFiniteSet(Pile(g)') /\ Cardinality(Pile(g)') <= tokens'[g]
  <2>1. \A k \in Hosts : ~Reaches(g, k)'
    BY <1>4, <1>5, <1>7, NoHostZero DEF Reaches
  <2>2. Pile(g)' = {}
    BY <2>1 DEF Pile
  <2> QED BY <2>2, <1>6, FS_EmptySet
<1> QED BY <1>9, <1>10, <1>11, <1>12, <1>13, <1>14, <1>15, <1>16 DEF IInv, Apart, PileInv
-----------------------------------------------------------------------------
LEMMA InitIInv ==
    ASSUME Init PROVE IInv
<1> USE NoHostZero, NoCallOk DEF Init
<1>1. TypeOK
  BY DEF TypeOK
<1>2. CallInv /\ PrivateInv /\ FreshInv /\ UnracedInv
  BY DEF CallInv, PrivateInv, FreshInv, UnracedInv, Busy, OnHost, IsHost
<1>3. AgreeInv
  BY DEF AgreeInv, IsHost
<1>4. ASSUME NEW g \in Guests PROVE Pile(g) = {}
  BY DEF Pile, Reaches
<1>5. PileInv
  BY <1>4, FS_EmptySet DEF PileInv
<1> QED BY <1>1, <1>2, <1>3, <1>5 DEF IInv, Apart

LEMMA StepIInv ==
    ASSUME IInv, [Next]_vars PROVE IInv'
<1>1. CASE UNCHANGED vars
  <2>1. (TypeOK /\ CallInv /\ PrivateInv /\ FreshInv /\ UnracedInv /\ AgreeInv)'
    BY <1>1 DEF IInv, Apart, vars, TypeOK, CallInv, PrivateInv, FreshInv, UnracedInv, AgreeInv,
       Busy, OnHost, Alone, IsHost
  <2>2. \A g \in Guests : Pile(g)' = Pile(g) /\ tokens'[g] = tokens[g]
    BY <1>1 DEF vars, Pile, Reaches
  <2>3. PileInv'
    BY <2>2 DEF IInv, PileInv
  <2> QED BY <2>1, <2>3 DEF IInv, Apart
<1>2. ASSUME NEW t \in Threads, Step(t) PROVE IInv'
  <2>1. ASSUME NEW g \in Guests,
               \/ \E v \in Words : BeginInit(t, g, v)
               \/ \E op \in {"wait", "trywait", "timedwait", "post", "getvalue"} :
                     BeginUse(t, g, op)
               \/ BeginDestroy(t, g)
        PROVE  IInv'
    <3>1. TypeOK
      BY DEF IInv, Apart
    <3> QED BY <2>1, <3>1, EntrySteps, EntryKeeps
  <2>2. ASSUME NEW h \in Hosts, CreateSem(t, h) PROVE IInv'
    BY <2>2, CreateSteps
  <2>3. CASE CreateFails(t) \/ ReturnUnchanged(t) \/ GiveUp(t)
    BY <2>3, ReturnSteps
  <2>4. CASE TakeToken(t) \/ Post(t)
    BY <2>4, TokenSteps
  <2>5. CASE InstallSem(t)
    BY <2>5, InstallSteps
  <2>6. CASE Destroy(t)
    BY <2>6, DestroySteps
  <2> QED BY <1>2, <2>1, <2>2, <2>3, <2>4, <2>5, <2>6 DEF Step, Inner
<1> QED BY <1>1, <1>2 DEF Next

LEMMA Consequences ==
    ASSUME IInv PROVE TypeOK /\ TokensConserved /\ NoDanglingHost
<1>1. TypeOK /\ AgreeInv /\ PileInv /\ CallInv /\ PrivateInv
  BY DEF IInv, Apart
<1>2. ASSUME NEW g \in Guests PROVE tokens[g] >= 0
  <2>1. Cardinality(Pile(g)) \in Nat
    BY <1>1, FS_CardinalityType DEF PileInv
  <2>2. tokens[g] \in Int /\ Cardinality(Pile(g)) <= tokens[g]
    BY <1>1 DEF TypeOK, PileInv
  <2> QED BY <2>1, <2>2
<1> QED BY <1>1, <1>2 DEF TokensConserved, AgreeInv, NoDanglingHost, CallInv, PrivateInv, OnHost

\* What a call on g that returns from the host semaphore tells thread t.
WaitTold(t, g) ==
    /\ call[t].op = "wait" => tokens[g] > 0
    /\ call[t].op \in {"wait", "trywait", "timedwait"} =>
          tokens'[g] = IF tokens[g] > 0 THEN tokens[g] - 1 ELSE 0
    /\ call[t].op = "post" =>
          tokens'[g] = IF tokens[g] < MaxValue THEN tokens[g] + 1 ELSE MaxValue

\* Only the thread's own step makes its call return.
LEMMA OwnReturn ==
    ASSUME IInv, Next, NEW t \in Threads, call[t].at = "host", AtGuest(t)'
    PROVE  ReturnUnchanged(t) \/ TakeToken(t) \/ GiveUp(t) \/ Post(t) \/ Destroy(t)
<1>1. call \in [Threads -> CallType] /\ call'[t].at = "guest"
  BY DEF IInv, Apart, TypeOK, AtGuest
<1>2. PICK u \in Threads : Step(u)
  BY DEF Next
<1>3. u = t
  <2>1. ASSUME NEW g \in Guests,
               \/ \E v \in Words : BeginInit(u, g, v)
               \/ \E op \in {"wait", "trywait", "timedwait", "post", "getvalue"} :
                     BeginUse(u, g, op)
               \/ BeginDestroy(u, g)
        PROVE  u = t
    BY <1>1, <2>1 DEF BeginInit, BeginUse, BeginDestroy, Enter, EnterInit
  <2>2. ASSUME NEW h \in Hosts, CreateSem(u, h) PROVE u = t
    BY <1>1, <2>2 DEF CreateSem, Allocated
  <2>3. CASE InstallSem(u)
    BY <1>1, <2>3 DEF InstallSem, Install
  <2>4. CASE CreateFails(u) \/ ReturnUnchanged(u) \/ TakeToken(u) \/ GiveUp(u) \/ Post(u) \/ Destroy(u)
    BY <1>1, <2>4 DEF CreateFails, NoMemory, ReturnUnchanged, TakeToken, GiveUp, Post, Destroy, Return
  <2> QED BY <1>2, <2>1, <2>2, <2>3, <2>4 DEF Step, Inner
<1>4. ~AtGuest(t) /\ call[t].at \notin {"create", "install"}
  BY DEF AtGuest
<1> QED
  BY <1>2, <1>3, <1>4 DEF Step, Inner, BeginInit, BeginUse, BeginDestroy, Enter, EnterInit,
     CreateSem, Allocated, CreateFails, NoMemory, InstallSem, Install

LEMMA WaitsAreToldTrue ==
    ASSUME IInv, Next, NEW t \in Threads, NEW g \in Guests \ raced,
           call[t].at = "host", call[t].g = g, AtGuest(t)'
    PROVE  WaitTold(t, g)
<1> DEFINE h == call[t].h
<1>1. TypeOK /\ Apart /\ AgreeInv
  BY DEF IInv, Apart
<1>2. h \in Hosts /\ slot[g] = h
  BY <1>1 DEF Apart, UnracedInv, CallInv, Busy, OnHost, TypeOK
<1>3. /\ tokens[g] = value[h] /\ value[h] \in 0..MaxValue /\ MaxValue \in Nat
      /\ tokens \in [Guests -> Int]
  BY <1>1, <1>2, NoHostZero DEF AgreeInv, IsHost, TypeOK
<1>4. CASE ReturnUnchanged(t) \/ Destroy(t)
  BY <1>4 DEF ReturnUnchanged, Destroy, At, WaitTold
<1>5. CASE TakeToken(t)
  <2>1. /\ call[t].op \in {"wait", "trywait", "timedwait"} /\ value[h] > 0
        /\ tokens' = [tokens EXCEPT ![g] = @ - 1]
    BY <1>5 DEF TakeToken, At
  <2>2. tokens'[g] = tokens[g] - 1
    BY <1>3, <2>1
  <2> QED BY <1>3, <2>1, <2>2 DEF WaitTold
<1>6. CASE GiveUp(t)
  <2>1. call[t].op \in {"trywait", "timedwait"} /\ value[h] = 0 /\ UNCHANGED tokens
    BY <1>6 DEF GiveUp, At
  <2> QED BY <1>3, <2>1 DEF WaitTold
<1>7. CASE Post(t)
  <2>1. /\ call[t].op = "post"
        /\ IF value[h] < MaxValue THEN tokens' = [tokens EXCEPT ![g] = @ + 1] ELSE UNCHANGED tokens
    BY <1>7 DEF Post, At
  <2>2. tokens'[g] = IF value[h] < MaxValue THEN tokens[g] + 1 ELSE tokens[g]
    BY <1>3, <2>1
  <2> QED BY <1>3, <2>1, <2>2 DEF WaitTold
<1> QED BY <1>4, <1>5, <1>6, <1>7, OwnReturn
-----------------------------------------------------------------------------
(* Read-write locks (RwBridge).                                            *)

LEMMA RwConstants ==
    Hosts \cap {0} = {} /\ None \notin Threads \cup Guests \cup Hosts \cup {0} /\ 0 \notin Hosts
  BY HostSlotsAssumption, SemAssumption

\* The instance counts as the module does.
LEMMA RwCounts == \A S : Rw!Cardinality(S) = Cardinality(S)
  BY DEF Rw!Cardinality, Cardinality

RwBusy(t) == rwCall[t].at # "guest"
RwOnHost(t) == rwCall[t].at \in {"install", "host"}
RwAlone(t) == \A u \in Threads : RwBusy(u) /\ rwCall[u].g = rwCall[t].g => u = t
RwUnheld(g) == \A t \in Threads : holds[g][t] = "nothing"

\* Where a call can be, and what its thread has of the lock.
RwCallInv ==
    \A t \in Threads :
        /\ RwBusy(t) => rwCall[t].g \in Guests
        /\ RwOnHost(t) => rwCall[t].h \in rwHeap
        /\ RwBusy(t) /\ rwCall[t].op \in {"init", "destroy"} => RwAlone(t) /\ RwUnheld(rwCall[t].g)
        /\ RwBusy(t) /\ rwCall[t].op \in {"unlock", "destroy"} => rwCall[t].at = "host"
        /\ RwBusy(t) /\ rwCall[t].op = "unlock" => holds[rwCall[t].g][t] # "nothing"
        /\ RwBusy(t) /\ rwCall[t].op = "rdlock" => holds[rwCall[t].g][t] # "read"

\* A host lock belongs to one guest lock.
RwPrivateInv ==
    /\ \A g \in Guests : Rw!IsHost(rwSlot[g]) => rwSlot[g] \in rwHeap
    /\ \A f, g \in Guests : Rw!IsHost(rwSlot[g]) /\ rwSlot[f] = rwSlot[g] => f = g
    /\ \A t \in Threads, g \in Guests : RwOnHost(t) /\ rwSlot[g] = rwCall[t].h => g = rwCall[t].g
    /\ \A t, u \in Threads :
          RwOnHost(t) /\ RwOnHost(u) /\ rwCall[t].h = rwCall[u].h => rwCall[t].g = rwCall[u].g

\* One that is not stored yet is known to its creator only, and free.
RwFreshInv ==
    \A t \in Threads : rwCall[t].at = "install" =>
        /\ \A g \in Guests : rwSlot[g] # rwCall[t].h
        /\ \A u \in Threads : RwOnHost(u) /\ rwCall[u].h = rwCall[t].h => u = t
        /\ writer[rwCall[t].h] = None /\ readers[rwCall[t].h] = 0

\* Without a race a creation is alone, and a call is on the current lock.
RwUnracedInv ==
    \A t \in Threads : RwBusy(t) /\ rwCall[t].g \notin rwRaced =>
        /\ rwCall[t].at = "host" => rwSlot[rwCall[t].g] = rwCall[t].h
        /\ rwCall[t].at \in {"create", "install"} => ~Rw!IsHost(rwSlot[rwCall[t].g]) /\ RwAlone(t)

\* Then the host lock has what the guest has.
RwAgree(g) ==
    /\ ~Rw!IsHost(rwSlot[g]) => RwUnheld(g)
    /\ Rw!IsHost(rwSlot[g]) =>
          /\ IsFiniteSet(Rw!Readers(g)) /\ readers[rwSlot[g]] = Cardinality(Rw!Readers(g))
          /\ \A t \in Threads : holds[g][t] = "write" <=> writer[rwSlot[g]] = t
          /\ writer[rwSlot[g]] # None => Rw!Readers(g) = {}
RwAgreeInv == \A g \in Guests \ rwRaced : RwAgree(g)

\* What the locks of different guests and calls have to do with each other.
RwApart == Rw!RwTypeOK /\ RwCallInv /\ RwPrivateInv /\ RwFreshInv /\ RwUnracedInv

RwIInv == RwApart /\ RwAgreeInv

LEMMA RwNoCallOk == Rw!NoCall \in Rw!CallType /\ Rw!NoCall.at = "guest"
  BY RwConstants DEF Rw!NoCall, Rw!CallType

(* The entry points move thread t into a call on g.                        *)

RwEntered(t, g) ==
    /\ rwCall' \in [Threads -> Rw!CallType]
    /\ \A u \in Threads \ {t} : rwCall'[u] = rwCall[u]
    /\ rwCall[t].at = "guest" /\ rwCall'[t].g = g
    /\ \/ rwCall'[t].at = "host" /\ Rw!IsHost(rwSlot[g]) /\ rwCall'[t].h = rwSlot[g]
       \/ /\ rwCall'[t].at = "create" /\ ~Rw!IsHost(rwSlot[g]) /\ rwCall'[t].op \notin {"unlock", "destroy"}
    /\ \A u \in Threads : RwBusy(u) /\ rwCall[u].g = g =>
          /\ rwCall[u].op \notin {"init", "destroy"} /\ rwCall'[t].op \notin {"init", "destroy"}
          /\ rwCall'[t].at = "create" /\ g \notin rwRaced' => rwCall[u].at = "host"
    /\ rwCall'[t].op \in {"init", "destroy"} => RwUnheld(g)
    /\ rwCall'[t].op = "unlock" => holds[g][t] # "nothing"
    /\ rwCall'[t].op = "rdlock" => holds[g][t] # "read"
    /\ rwSlot' \in [Guests -> Hosts \cup {0}]
    /\ \A f \in Guests : Rw!IsHost(rwSlot[f]) \/ Rw!IsHost(rwSlot'[f]) => rwSlot'[f] = rwSlot[f]
    /\ rwRaced \subseteq rwRaced' /\ rwRaced' \subseteq Guests
    /\ UNCHANGED <<rwHeap, writer, readers, holds>>

LEMMA RwEntrySteps ==
    ASSUME Rw!RwTypeOK, NEW t \in Threads, NEW g \in Guests,
           \/ Rw!BeginInit(t, g) \/ Rw!BeginUnlock(t, g) \/ Rw!BeginDestroy(t, g)
           \/ \E op \in {"rdlock", "wrlock"} : Rw!BeginLock(t, g, op)
    PROVE  RwEntered(t, g)
<1> USE RwConstants
    DEF Rw!RwTypeOK, Rw!CallType, Rw!AtGuest, Rw!IsHost, Rw!Inside, RwBusy, Rw!lockVars
<1>1. CASE Rw!BeginInit(t, g)
  BY <1>1 DEF Rw!BeginInit, Rw!EnterInit, Rw!Free, RwUnheld, RwEntered
<1>2. ASSUME NEW op \in {"rdlock", "wrlock"}, Rw!BeginLock(t, g, op)
      PROVE  RwEntered(t, g)
  <2>1. op \in {"none", "init", "destroy", "rdlock", "wrlock", "unlock"} \ {"init", "destroy", "unlock"}
        /\ (op = "rdlock" => holds[g][t] # "read")
    BY <1>2 DEF Rw!BeginLock
  <2>2. CASE Rw!IsHost(rwSlot[g])
    <3>1. /\ rwCall' = [rwCall EXCEPT ![t] = [op |-> op, g |-> g, h |-> rwSlot[g], at |-> "host"]]
          /\ rwCall[t].at = "guest" /\ UNCHANGED <<rwSlot, rwHeap, rwRaced, writer, readers, holds>>
          /\ \A u \in Threads : RwBusy(u) /\ rwCall[u].g = g => rwCall[u].op \notin {"init", "destroy"}
      BY <1>2, <2>2 DEF Rw!BeginLock, Rw!Enter, Rw!Usable
    <3> QED BY <2>1, <2>2, <3>1 DEF RwEntered
  <2>3. CASE ~Rw!IsHost(rwSlot[g])
    <3>1. /\ rwCall' = [rwCall EXCEPT ![t] = [op |-> op, g |-> g, h |-> 0, at |-> "create"]]
          /\ rwCall[t].at = "guest" /\ UNCHANGED <<rwSlot, rwHeap, writer, readers, holds>>
          /\ rwRaced' = IF Rw!Creating(g) = {} THEN rwRaced ELSE rwRaced \cup {g}
          /\ \A u \in Threads : RwBusy(u) /\ rwCall[u].g = g => rwCall[u].op \notin {"init", "destroy"}
      BY <1>2, <2>3 DEF Rw!BeginLock, Rw!Enter, Rw!Usable
    <3>2. \A u \in Threads : RwBusy(u) /\ rwCall[u].g = g /\ g \notin rwRaced' => rwCall[u].at = "host"
      BY <3>1 DEF Rw!Creating
    <3> QED BY <2>1, <2>3, <3>1, <3>2 DEF RwEntered
  <2> QED BY <2>2, <2>3
<1>3. CASE Rw!BeginDestroy(t, g)
  <2>1. /\ rwCall' = [rwCall EXCEPT ![t] = [op |-> "destroy", g |-> g, h |-> rwSlot[g], at |-> "host"]]
        /\ rwCall[t].at = "guest" /\ UNCHANGED <<rwSlot, rwHeap, rwRaced, writer, readers, holds>>
        /\ Rw!IsHost(rwSlot[g]) /\ \A u \in Threads : ~(RwBusy(u) /\ rwCall[u].g = g)
        /\ RwUnheld(g)
    BY <1>3 DEF Rw!BeginDestroy, Rw!Enter, Rw!Free, RwUnheld
  <2> QED BY <2>1 DEF RwEntered
<1>4. CASE Rw!BeginUnlock(t, g)
  <2>1. /\ rwCall' = [rwCall EXCEPT ![t] = [op |-> "unlock", g |-> g, h |-> rwSlot[g], at |-> "host"]]
        /\ rwCall[t].at = "guest" /\ UNCHANGED <<rwSlot, rwHeap, rwRaced, writer, readers, holds>>
        /\ Rw!IsHost(rwSlot[g]) /\ holds[g][t] # "nothing"
        /\ \A u \in Threads : RwBusy(u) /\ rwCall[u].g = g => rwCall[u].op \notin {"init", "destroy"}
    BY <1>4 DEF Rw!BeginUnlock, Rw!Enter, Rw!Usable
  <2> QED BY <2>1 DEF RwEntered
<1> QED BY <1>1, <1>2, <1>3, <1>4

LEMMA RwEntryKeeps ==
    ASSUME RwIInv, NEW t \in Threads, NEW g \in Guests, RwEntered(t, g)
    PROVE  RwIInv'
<1> USE RwConstants DEF RwIInv, RwApart, RwBusy, RwOnHost, Rw!IsHost
<1>1. Rw!RwTypeOK'
  BY DEF Rw!RwTypeOK, RwEntered
<1>2. \A f \in Guests, u \in Threads :
         /\ Rw!IsHost(rwSlot'[f]) <=> Rw!IsHost(rwSlot[f])
         /\ Rw!IsHost(rwSlot[f]) => rwSlot'[f] = rwSlot[f]
         /\ RwOnHost(u) => rwCall[u].h \in Hosts /\ rwCall[u].h \in rwHeap
  BY DEF RwEntered, RwCallInv, Rw!RwTypeOK
<1>3. \A u \in Threads : RwOnHost(u)' =>
         \/ u # t /\ rwCall'[u] = rwCall[u] /\ RwOnHost(u)
         \/ /\ u = t /\ rwCall'[t].at = "host" /\ rwCall'[t].g = g
            /\ rwCall'[t].h = rwSlot[g] /\ Rw!IsHost(rwSlot[g])
  BY DEF RwEntered
<1>4. RwCallInv'
  <2>1. \A f \in Guests : RwUnheld(f)' <=> RwUnheld(f)
    BY DEF RwUnheld, RwEntered
  <2>2. ASSUME NEW u \in Threads \ {t}, rwCall[u].at # "guest"
        PROVE  rwCall[u].g \in Guests /\ (RwAlone(u) /\ rwCall[u].g # g => RwAlone(u)')
    BY <2>2 DEF RwCallInv, RwEntered, RwAlone
  <2>3. ASSUME NEW u \in Threads \ {t}, rwCall[u].at # "guest", rwCall[u].op \in {"init", "destroy"}
        PROVE  RwAlone(u)' /\ RwUnheld(rwCall[u].g)
    <3>1. rwCall[u].g # g
      BY <2>3 DEF RwEntered
    <3> QED BY <2>2, <2>3, <3>1 DEF RwCallInv
  <2>4. rwCall'[t].op \in {"init", "destroy"} => RwAlone(t)'
    BY DEF RwEntered, RwAlone
  <2>5. ASSUME NEW u \in Threads, rwCall'[u].at # "guest"
        PROVE  /\ rwCall'[u].g \in Guests
               /\ rwCall'[u].op \in {"init", "destroy"} => RwAlone(u)' /\ RwUnheld(rwCall'[u].g)
               /\ rwCall'[u].op \in {"unlock", "destroy"} => rwCall'[u].at = "host"
               /\ rwCall'[u].op = "unlock" => holds[rwCall'[u].g][u] # "nothing"
               /\ rwCall'[u].op = "rdlock" => holds[rwCall'[u].g][u] # "read"
    <3>1. CASE u = t
      BY <3>1, <2>4 DEF RwEntered
    <3>2. CASE u # t
      BY <3>2, <2>3, <2>5 DEF RwCallInv, RwEntered
    <3> QED BY <3>1, <3>2
  <2>6. rwHeap' = rwHeap /\ holds' = holds
    BY DEF RwEntered
  <2>7. \A u \in Threads : RwOnHost(u)' => rwCall'[u].h \in rwHeap
    BY <1>3 DEF RwCallInv, RwPrivateInv
  <2> HIDE DEF RwIInv, RwApart
  <2> QED BY <2>1, <2>5, <2>6, <2>7 DEF RwCallInv
<1>5. RwPrivateInv'
  <2>1. rwHeap' = rwHeap
    BY DEF RwEntered
  <2> QED BY <2>1, <1>2, <1>3 DEF RwPrivateInv
<1>6. RwFreshInv'
  <2>1. UNCHANGED <<writer, readers>>
    BY DEF RwEntered
  <2>2. \A u \in Threads : rwCall'[u].at = "install" => u # t /\ rwCall'[u] = rwCall[u] /\ rwCall[u].at = "install"
    BY <1>3
  <2> QED BY <2>1, <2>2, <1>2, <1>3 DEF RwFreshInv
<1>7. RwUnracedInv'
  <2> SUFFICES ASSUME NEW u \in Threads, rwCall'[u].at # "guest", rwCall'[u].g \notin rwRaced'
               PROVE  /\ rwCall'[u].at = "host" => rwSlot'[rwCall'[u].g] = rwCall'[u].h
                      /\ rwCall'[u].at \in {"create", "install"} =>
                            rwSlot'[rwCall'[u].g] \notin Hosts /\ RwAlone(u)'
    BY DEF RwUnracedInv
  <2>1. CASE u = t
    <3>1. g \notin rwRaced
      BY <2>1 DEF RwEntered
    <3>2. ASSUME rwCall'[t].at = "create", NEW v \in Threads \ {t}, RwBusy(v), rwCall[v].g = g
          PROVE  FALSE
      BY <2>1, <3>1, <3>2 DEF RwUnracedInv, RwEntered, RwCallInv, Rw!RwTypeOK
    <3> QED BY <2>1, <3>1, <3>2 DEF RwEntered, RwAlone
  <2>2. CASE u # t
    <3>1. rwCall'[u] = rwCall[u] /\ rwCall[u].g \in Guests /\ rwCall[u].g \notin rwRaced
      BY <2>2 DEF RwEntered, RwCallInv
    <3>2. rwCall[u].at \in {"create", "install"} => rwSlot[rwCall[u].g] \notin Hosts /\ RwAlone(u)
      BY <3>1 DEF RwUnracedInv
    <3>3. rwCall[u].at \in {"create", "install"} => rwCall[u].g # g
      BY <2>2, <3>1, <3>2 DEF RwEntered, RwUnracedInv
    <3>4. rwCall[u].at = "host" => rwSlot'[rwCall[u].g] = rwCall[u].h
      BY <3>1 DEF RwUnracedInv, RwEntered, RwCallInv, Rw!RwTypeOK
    <3> QED BY <2>2, <3>1, <3>2, <3>3, <3>4 DEF RwEntered, RwAlone
  <2> QED BY <2>1, <2>2
<1>8. RwAgreeInv'
  <2> SUFFICES ASSUME NEW f \in Guests, f \notin rwRaced'
               PROVE  RwAgree(f)'
    BY DEF RwAgreeInv
  <2>1. RwAgree(f)
    BY DEF RwAgreeInv, RwEntered
  <2>2. Rw!Readers(f)' = Rw!Readers(f) /\ (RwUnheld(f)' <=> RwUnheld(f))
    BY DEF Rw!Readers, RwUnheld, RwEntered
  <2> QED BY <2>1, <2>2 DEF RwAgree, RwEntered
<1> QED BY <1>1, <1>4, <1>5, <1>6, <1>7, <1>8
-----------------------------------------------------------------------------
(* A call returns; the host lock it was on may have changed, and what its  *)
(* thread has of the lock.                                                 *)

RwReturned(t) ==
    /\ rwCall' \in [Threads -> Rw!CallType]
    /\ \A u \in Threads \ {t} : rwCall'[u] = rwCall[u]
    /\ rwCall'[t].at = "guest" /\ rwCall[t].at \in {"create", "host"}
    /\ writer' \in [Hosts -> Threads \cup {None}] /\ readers' \in [Hosts -> Int]
    /\ holds' \in [Guests -> [Threads -> {"nothing", "read", "write"}]]
    /\ \A h \in Hosts : \/ writer'[h] = writer[h] /\ readers'[h] = readers[h]
                        \/ rwCall[t].at = "host" /\ h = rwCall[t].h
    /\ \A g \in Guests, u \in Threads :
          holds'[g][u] = holds[g][u] \/ (g = rwCall[t].g /\ u = t)
    /\ UNCHANGED <<rwSlot, rwHeap, rwRaced>>

LEMMA RwReturnKeeps ==
    ASSUME RwApart, NEW t \in Threads, RwReturned(t)
    PROVE  RwApart'
<1> USE RwConstants DEF RwApart, RwBusy, RwOnHost, Rw!IsHost, RwReturned
<1>1. Rw!RwTypeOK'
  BY DEF Rw!RwTypeOK
<1>2. RwCallInv'
  <2> SUFFICES ASSUME NEW u \in Threads \ {t}, rwCall[u].at # "guest"
               PROVE  /\ rwCall[u].g \in Guests
                      /\ RwOnHost(u) => rwCall[u].h \in rwHeap
                      /\ rwCall[u].op \in {"init", "destroy"} =>
                            RwAlone(u)' /\ RwUnheld(rwCall[u].g)'
                      /\ rwCall[u].op \in {"unlock", "destroy"} => rwCall[u].at = "host"
                      /\ rwCall[u].op = "unlock" => holds'[rwCall[u].g][u] # "nothing"
                      /\ rwCall[u].op = "rdlock" => holds'[rwCall[u].g][u] # "read"
    BY DEF RwCallInv
  <2>1. rwCall[u].g \in Guests /\ holds'[rwCall[u].g][u] = holds[rwCall[u].g][u]
    BY DEF RwCallInv
  <2>2. ASSUME rwCall[u].op \in {"init", "destroy"}
        PROVE  RwAlone(u)' /\ RwUnheld(rwCall[u].g)'
    <3>1. RwAlone(u) /\ RwUnheld(rwCall[u].g) /\ rwCall[t].g # rwCall[u].g
      BY <2>2 DEF RwCallInv, RwAlone
    <3> QED BY <2>1, <3>1 DEF RwAlone, RwUnheld
  <2> QED BY <2>1, <2>2 DEF RwCallInv
<1>3. RwPrivateInv'
  BY DEF RwPrivateInv
<1>4. RwFreshInv'
  <2> SUFFICES ASSUME NEW u \in Threads \ {t}, rwCall[u].at = "install"
               PROVE  /\ \A g \in Guests : rwSlot[g] # rwCall[u].h
                      /\ \A v \in Threads : RwOnHost(v)' /\ rwCall'[v].h = rwCall[u].h => v = u
                      /\ writer'[rwCall[u].h] = None /\ readers'[rwCall[u].h] = 0
    BY DEF RwFreshInv
  <2>1. rwCall[u].h \in Hosts /\ writer[rwCall[u].h] = None /\ readers[rwCall[u].h] = 0
    BY DEF RwFreshInv, RwCallInv, Rw!RwTypeOK
  <2>2. rwCall[t].at = "host" => rwCall[t].h # rwCall[u].h
    BY DEF RwFreshInv
  <2>3. writer'[rwCall[u].h] = None /\ readers'[rwCall[u].h] = 0
    BY <2>1, <2>2
  <2> QED BY <2>3 DEF RwFreshInv
<1>5. RwUnracedInv'
  BY DEF RwUnracedInv, RwAlone
<1> QED BY <1>1, <1>2, <1>3, <1>4, <1>5

\* Nothing was locked or unlocked.
LEMMA RwIdleSteps ==
    ASSUME RwIInv, NEW t \in Threads, Rw!CreateFails(t) \/ Rw!InitReturns(t)
    PROVE  RwIInv'
<1>1. /\ rwCall[t].at \in {"create", "host"} /\ rwCall' = [rwCall EXCEPT ![t] = Rw!NoCall]
      /\ UNCHANGED <<rwSlot, rwHeap, rwRaced, writer, readers, holds>>
  BY DEF Rw!CreateFails, Rw!NoMemory, Rw!slotVars, Rw!lockVars, Rw!InitReturns, Rw!Return, Rw!At
<1>2. RwReturned(t)
  BY <1>1, RwNoCallOk DEF RwReturned, RwIInv, RwApart, Rw!RwTypeOK
<1>3. RwApart'
  BY <1>2, RwReturnKeeps DEF RwIInv
<1>4. RwAgreeInv'
  <2>1. \A g : RwUnheld(g)' = RwUnheld(g) /\ Rw!Readers(g)' = Rw!Readers(g)
                   /\ Rw!IsHost(rwSlot[g])' = Rw!IsHost(rwSlot[g])
    BY <1>1 DEF RwUnheld, Rw!Readers, Rw!IsHost
  <2>2. \A g : RwAgree(g)' = RwAgree(g)
    BY <1>1, <2>1 DEF RwAgree
  <2> QED BY <1>1, <2>2 DEF RwIInv, RwAgreeInv
<1> QED BY <1>3, <1>4 DEF RwIInv

\* The host lock h is locked or unlocked, and the guest sees it so.
LEMMA RwLockSteps ==
    ASSUME RwIInv, NEW t \in Threads, Rw!ReadLock(t) \/ Rw!WriteLock(t) \/ Rw!Unlock(t)
    PROVE  RwIInv'
<1>1. Rw!RwTypeOK /\ RwApart /\ RwAgreeInv
  BY DEF RwIInv, RwApart
<1>2. PICK g \in Guests, h \in Hosts : g = rwCall[t].g /\ h = rwCall[t].h /\ rwCall[t].at = "host"
  BY <1>1 DEF Rw!ReadLock, Rw!WriteLock, Rw!Unlock, Rw!At, RwApart, Rw!RwTypeOK, RwCallInv, RwBusy, RwOnHost
<1> DEFINE holds1(what) == [holds EXCEPT ![g][t] = what]
<1>3. /\ rwCall' = [rwCall EXCEPT ![t] = Rw!NoCall] /\ UNCHANGED <<rwSlot, rwHeap, rwRaced>>
      /\ \/ UNCHANGED <<writer, readers, holds>>
         \/ /\ writer[h] = None /\ holds[g][t] # "read" /\ UNCHANGED writer
            /\ readers' = [readers EXCEPT ![h] = @ + 1] /\ holds' = holds1("read")
         \/ /\ writer[h] = None /\ readers[h] = 0 /\ UNCHANGED readers
            /\ writer' = [writer EXCEPT ![h] = t] /\ holds' = holds1("write")
         \/ /\ writer[h] = t /\ UNCHANGED readers
            /\ writer' = [writer EXCEPT ![h] = None] /\ holds' = holds1("nothing")
         \/ /\ writer[h] # t /\ holds[g][t] # "nothing" /\ UNCHANGED writer
            /\ readers' = [readers EXCEPT ![h] = @ - 1] /\ holds' = holds1("nothing")
  <2>1. /\ rwCall[t].op = "rdlock" => holds[g][t] # "read"
        /\ rwCall[t].op = "unlock" => holds[g][t] # "nothing"
    BY <1>1, <1>2 DEF RwApart, RwCallInv, RwBusy
  <2>2. CASE Rw!ReadLock(t)
    BY <1>2, <2>1, <2>2 DEF Rw!ReadLock, Rw!At, Rw!Gets, Rw!Return, Rw!slotVars
  <2>3. CASE Rw!WriteLock(t)
    BY <1>2, <2>3 DEF Rw!WriteLock, Rw!At, Rw!Gets, Rw!Return, Rw!slotVars
  <2>4. CASE Rw!Unlock(t)
    BY <1>2, <2>1, <2>4 DEF Rw!Unlock, Rw!At, Rw!Gets, Rw!Return, Rw!slotVars
  <2> QED BY <2>2, <2>3, <2>4
<1>4. RwReturned(t)
  <2>1. /\ writer' \in [Hosts -> Threads \cup {None}] /\ readers' \in [Hosts -> Int]
        /\ holds' \in [Guests -> [Threads -> {"nothing", "read", "write"}]]
    <3>1. readers[h] \in Int /\ readers[h] + 1 \in Int /\ readers[h] - 1 \in Int
      BY <1>1 DEF Rw!RwTypeOK
    <3>2. \A what \in {"nothing", "read", "write"} :
             holds1(what) \in [Guests -> [Threads -> {"nothing", "read", "write"}]]
      BY <1>1 DEF Rw!RwTypeOK
    <3>3. holds' \in [Guests -> [Threads -> {"nothing", "read", "write"}]]
      <4> HIDE DEF holds1
      <4> QED BY <1>1, <1>3, <3>2 DEF Rw!RwTypeOK
    <3>4. readers' \in [Hosts -> Int]
      BY <1>1, <1>3, <3>1 DEF Rw!RwTypeOK
    <3>5. writer' \in [Hosts -> Threads \cup {None}]
      BY <1>1, <1>3 DEF Rw!RwTypeOK
    <3> QED BY <3>3, <3>4, <3>5
  <2>2. rwCall' \in [Threads -> Rw!CallType] /\ rwCall'[t].at = "guest"
    BY <1>1, <1>3, RwNoCallOk DEF Rw!RwTypeOK
  <2>3. \A k \in Hosts : (writer'[k] = writer[k] /\ readers'[k] = readers[k]) \/ k = h
    BY <1>1, <1>3 DEF Rw!RwTypeOK
  <2>4. \A f \in Guests, u \in Threads : holds'[f][u] = holds[f][u] \/ (f = g /\ u = t)
    BY <1>1, <1>3 DEF Rw!RwTypeOK
  <2> QED BY <1>1, <1>2, <1>3, <2>1, <2>2, <2>3, <2>4 DEF RwReturned, Rw!RwTypeOK
<1>5. RwApart'
  BY <1>1, <1>4, RwReturnKeeps
<1>6. ASSUME NEW f \in Guests \ rwRaced, f # g
      PROVE  RwAgree(f)'
  <2>1. RwAgree(f) /\ rwSlot[f] # h /\ rwSlot[f] \in Hosts \cup {0}
    BY <1>1, <1>2, <1>6 DEF RwAgreeInv, RwApart, RwPrivateInv, RwOnHost, Rw!RwTypeOK
  <2>2. \A u \in Threads : holds'[f][u] = holds[f][u]
    BY <1>2, <1>4, <1>6 DEF RwReturned
  <2>3. Rw!Readers(f)' = Rw!Readers(f) /\ (RwUnheld(f)' <=> RwUnheld(f))
    BY <2>2 DEF Rw!Readers, RwUnheld
  <2>4. rwSlot[f] \in Hosts => writer'[rwSlot[f]] = writer[rwSlot[f]] /\ readers'[rwSlot[f]] = readers[rwSlot[f]]
    BY <2>1, <1>2, <1>4 DEF RwReturned
  <2> QED BY <2>1, <2>2, <2>3, <2>4, <1>3 DEF RwAgree, Rw!IsHost
<1>7. ASSUME g \notin rwRaced PROVE RwAgree(g)'
  <2>1. rwSlot[g] = h /\ rwSlot'[g] = h /\ RwAgree(g)
    BY <1>1, <1>2, <1>3, <1>7 DEF RwApart, RwUnracedInv, RwBusy, RwAgreeInv
  <2>2. /\ IsFiniteSet(Rw!Readers(g)) /\ readers[h] = Cardinality(Rw!Readers(g))
        /\ \A u \in Threads : holds[g][u] = "write" <=> writer[h] = u
        /\ writer[h] # None => Rw!Readers(g) = {}
    BY <2>1 DEF RwAgree, Rw!IsHost
  <2> SUFFICES /\ IsFiniteSet(Rw!Readers(g)') /\ readers'[h] = Cardinality(Rw!Readers(g)')
               /\ \A u \in Threads : holds'[g][u] = "write" <=> writer'[h] = u
               /\ writer'[h] # None => Rw!Readers(g)' = {}
    BY <2>1 DEF RwAgree, Rw!IsHost
  <2>3. readers[h] \in Int /\ writer[h] \in Threads \cup {None} /\ None \notin Threads
    BY <1>1, RwConstants DEF Rw!RwTypeOK
  <2>4. CASE UNCHANGED <<writer, readers, holds>>
    BY <2>2, <2>4 DEF Rw!Readers
  <2>5. ASSUME NEW what \in {"nothing", "read", "write"}, holds' = holds1(what)
        PROVE  /\ holds'[g][t] = what /\ \A u \in Threads \ {t} : holds'[g][u] = holds[g][u]
               /\ Rw!Readers(g)' = IF what = "read" THEN Rw!Readers(g) \cup {t} ELSE Rw!Readers(g) \ {t}
    <3>1. holds'[g][t] = what /\ \A u \in Threads \ {t} : holds'[g][u] = holds[g][u]
      BY <1>1, <2>5 DEF Rw!RwTypeOK
    <3> QED BY <3>1 DEF Rw!Readers
  <2>6. CASE /\ writer[h] = None /\ holds[g][t] # "read" /\ UNCHANGED writer
             /\ readers' = [readers EXCEPT ![h] = @ + 1] /\ holds' = holds1("read")
    <3>1. t \notin Rw!Readers(g) /\ Rw!Readers(g)' = Rw!Readers(g) \cup {t}
      BY <2>5, <2>6 DEF Rw!Readers
    <3>2. IsFiniteSet(Rw!Readers(g)') /\ Cardinality(Rw!Readers(g)') = Cardinality(Rw!Readers(g)) + 1
      BY <2>2, <3>1, FS_AddElement
    <3>3. readers'[h] = readers[h] + 1
      BY <1>1, <2>6 DEF Rw!RwTypeOK
    <3>4. \A u \in Threads : holds'[g][u] = "write" <=> writer'[h] = u
      BY <2>2, <2>3, <2>5, <2>6
    <3> QED BY <2>2, <2>6, <3>2, <3>3, <3>4
  <2>7. CASE /\ writer[h] = None /\ readers[h] = 0 /\ UNCHANGED readers
             /\ writer' = [writer EXCEPT ![h] = t] /\ holds' = holds1("write")
    <3>1. Rw!Readers(g) = {}
      BY <2>2, <2>7, FS_EmptySet
    <3>2. Rw!Readers(g)' = {}
      BY <2>5, <2>7, <3>1
    <3>3. writer'[h] = t /\ readers'[h] = readers[h]
      BY <1>1, <2>7 DEF Rw!RwTypeOK
    <3>4. \A u \in Threads : holds'[g][u] = "write" <=> writer'[h] = u
      BY <2>2, <2>3, <2>5, <2>7, <3>3
    <3> QED BY <2>7, <3>2, <3>3, <3>4, FS_EmptySet
  <2>8. CASE /\ writer[h] = t /\ UNCHANGED readers
             /\ writer' = [writer EXCEPT ![h] = None] /\ holds' = holds1("nothing")
    <3>1. Rw!Readers(g) = {}
      BY <2>2, <2>3, <2>8
    <3>2. Rw!Readers(g)' = {}
      BY <2>5, <2>8, <3>1
    <3>3. writer'[h] = None /\ readers'[h] = readers[h]
      BY <1>1, <2>8 DEF Rw!RwTypeOK
    <3>4. \A u \in Threads : holds'[g][u] = "write" <=> writer'[h] = u
      BY <2>2, <2>3, <2>5, <2>8, <3>3
    <3> QED BY <2>2, <3>1, <3>2, <3>3, <3>4
  <2>9. CASE /\ writer[h] # t /\ holds[g][t] # "nothing" /\ UNCHANGED writer
             /\ readers' = [readers EXCEPT ![h] = @ - 1] /\ holds' = holds1("nothing")
    <3>1. holds[g][t] = "read"
      BY <1>1, <2>2, <2>9 DEF Rw!RwTypeOK
    <3>2. t \in Rw!Readers(g) /\ Rw!Readers(g)' = Rw!Readers(g) \ {t}
      BY <2>5, <2>9, <3>1 DEF Rw!Readers
    <3>3. IsFiniteSet(Rw!Readers(g)') /\ Cardinality(Rw!Readers(g)') = Cardinality(Rw!Readers(g)) - 1
      BY <2>2, <3>2, FS_RemoveElement
    <3>4. readers'[h] = readers[h] - 1
      BY <1>1, <2>9 DEF Rw!RwTypeOK
    <3>5. \A u \in Threads : holds'[g][u] = "write" <=> writer'[h] = u
      BY <2>2, <2>3, <2>5, <2>9
    <3> QED BY <2>2, <2>9, <3>2, <3>3, <3>4, <3>5
  <2> HIDE DEF holds1
  <2> QED BY <1>3, <2>4, <2>6, <2>7, <2>8, <2>9
<1> QED BY <1>3, <1>5, <1>6, <1>7 DEF RwIInv, RwAgreeInv
-----------------------------------------------------------------------------
(* Creation and destruction.                                               *)

LEMMA RwCreateSteps ==
    ASSUME RwIInv, NEW t \in Threads, NEW h \in Hosts, Rw!CreateLock(t, h)
    PROVE  RwIInv'
<1>1. Rw!RwTypeOK /\ RwApart /\ RwAgreeInv
  BY DEF RwIInv, RwApart
<1>2. /\ rwCall[t].at = "create" /\ h \notin rwHeap /\ rwHeap' = rwHeap \cup {h}
      /\ rwCall' = [rwCall EXCEPT ![t].h = h, ![t].at = "install"]
      /\ writer' = [writer EXCEPT ![h] = None] /\ readers' = [readers EXCEPT ![h] = 0]
      /\ UNCHANGED <<rwSlot, rwRaced, holds>>
  BY DEF Rw!CreateLock, Rw!Allocated
<1>3. rwCall[t].g \in Guests /\ rwCall[t].op \notin {"unlock", "destroy"}
  BY <1>1, <1>2 DEF RwApart, RwCallInv, RwBusy
<1>4. /\ rwCall' \in [Threads -> Rw!CallType] /\ \A u \in Threads \ {t} : rwCall'[u] = rwCall[u]
      /\ rwCall'[t] = [op |-> rwCall[t].op, g |-> rwCall[t].g, h |-> h, at |-> "install"]
  BY <1>1, <1>2 DEF Rw!RwTypeOK, Rw!CallType
<1>5. /\ writer' \in [Hosts -> Threads \cup {None}] /\ readers' \in [Hosts -> Int]
      /\ \A k \in Hosts \ {h} : writer'[k] = writer[k] /\ readers'[k] = readers[k]
      /\ writer'[h] = None /\ readers'[h] = 0
  BY <1>1, <1>2 DEF Rw!RwTypeOK
<1>6. /\ \A g \in Guests : rwSlot[g] # h
      /\ \A u \in Threads : RwOnHost(u) => rwCall[u].h # h
  BY <1>1, <1>2 DEF RwApart, RwPrivateInv, RwCallInv, Rw!IsHost
<1> USE DEF RwBusy, RwOnHost, Rw!IsHost
<1>7. Rw!RwTypeOK'
  BY <1>1, <1>2, <1>4, <1>5 DEF Rw!RwTypeOK
<1>8. RwCallInv'
  <2>1. \A u \in Threads : /\ rwCall'[u].g = rwCall[u].g /\ rwCall'[u].op = rwCall[u].op
                           /\ RwAlone(u) => RwAlone(u)'
    BY <1>2, <1>4 DEF RwAlone
  <2> QED BY <1>1, <1>2, <1>3, <1>4, <2>1 DEF RwApart, RwCallInv, RwUnheld
<1>9. RwPrivateInv'
  BY <1>1, <1>2, <1>4, <1>6 DEF RwApart, RwPrivateInv
<1>10. RwFreshInv'
  BY <1>1, <1>2, <1>3, <1>4, <1>5, <1>6 DEF RwApart, RwFreshInv, RwCallInv
<1>11. RwUnracedInv'
  BY <1>1, <1>2, <1>4 DEF RwApart, RwUnracedInv, RwAlone
<1>12. RwAgreeInv'
  <2>1. \A f \in Guests : Rw!Readers(f)' = Rw!Readers(f) /\ (RwUnheld(f)' <=> RwUnheld(f))
    BY <1>2 DEF Rw!Readers, RwUnheld
  <2> QED BY <2>1, <1>1, <1>2, <1>5, <1>6 DEF RwAgreeInv, RwAgree
<1> QED BY <1>7, <1>8, <1>9, <1>10, <1>11, <1>12 DEF RwIInv, RwApart

LEMMA RwInstallSteps ==
    ASSUME RwIInv, NEW t \in Threads, Rw!InstallLock(t)
    PROVE  RwIInv'
<1>1. Rw!RwTypeOK /\ RwApart /\ RwAgreeInv
  BY DEF RwIInv, RwApart
<1> USE DEF RwBusy, RwOnHost, Rw!IsHost
<1>2. PICK g \in Guests, h \in Hosts :
         g = rwCall[t].g /\ h = rwCall[t].h /\ h \in rwHeap /\ rwCall[t].at = "install"
  BY <1>1 DEF Rw!InstallLock, Rw!Install, RwApart, Rw!RwTypeOK, RwCallInv
<1>3. /\ rwSlot' = [rwSlot EXCEPT ![g] = h] /\ rwCall' = [rwCall EXCEPT ![t].at = "host"]
      /\ UNCHANGED <<rwHeap, rwRaced, writer, readers, holds>>
  BY <1>2 DEF Rw!InstallLock, Rw!Install, Rw!lockVars
<1>4. /\ rwCall' \in [Threads -> Rw!CallType] /\ \A u \in Threads \ {t} : rwCall'[u] = rwCall[u]
      /\ rwCall'[t] = [op |-> rwCall[t].op, g |-> g, h |-> h, at |-> "host"]
  BY <1>1, <1>2, <1>3 DEF Rw!RwTypeOK, Rw!CallType
<1>5. /\ rwSlot' \in [Guests -> Hosts \cup {0}] /\ rwSlot'[g] = h
      /\ \A f \in Guests \ {g} : rwSlot'[f] = rwSlot[f]
  BY <1>1, <1>2, <1>3 DEF Rw!RwTypeOK
<1>6. \A u \in Threads :
          /\ rwCall'[u].g = rwCall[u].g /\ rwCall'[u].h = rwCall[u].h /\ rwCall'[u].op = rwCall[u].op
          /\ rwCall'[u].at = IF u = t THEN "host" ELSE rwCall[u].at
  BY <1>2, <1>4
<1>7. Rw!RwTypeOK'
  BY <1>1, <1>3, <1>4, <1>5 DEF Rw!RwTypeOK
<1>8. RwCallInv'
  <2>1. \A u \in Threads : RwAlone(u) => RwAlone(u)'
    BY <1>2, <1>6 DEF RwAlone
  <2> QED BY <1>1, <1>2, <1>3, <1>6, <2>1 DEF RwApart, RwCallInv, RwUnheld
<1>9. RwPrivateInv'
  BY <1>1, <1>2, <1>3, <1>6, <1>5 DEF RwApart, RwPrivateInv, RwFreshInv
<1>10. RwFreshInv'
  <2> SUFFICES ASSUME NEW u \in Threads \ {t}, rwCall[u].at = "install"
               PROVE  /\ \A f \in Guests : rwSlot'[f] # rwCall[u].h
                      /\ \A v \in Threads : RwOnHost(v)' /\ rwCall[v].h = rwCall[u].h => v = u
                      /\ writer[rwCall[u].h] = None /\ readers[rwCall[u].h] = 0
    BY <1>3, <1>6 DEF RwFreshInv
  <2>1. h # rwCall[u].h
    BY <1>1, <1>2 DEF RwApart, RwFreshInv
  <2> QED BY <1>1, <1>2, <1>5, <1>6, <2>1 DEF RwApart, RwFreshInv
<1>11. RwUnracedInv'
  <2> SUFFICES ASSUME NEW u \in Threads, rwCall'[u].at # "guest", rwCall'[u].g \notin rwRaced
               PROVE  /\ rwCall'[u].at = "host" => rwSlot'[rwCall'[u].g] = rwCall'[u].h
                      /\ rwCall'[u].at \in {"create", "install"} =>
                            rwSlot'[rwCall'[u].g] \notin Hosts /\ RwAlone(u)'
    BY <1>3 DEF RwUnracedInv
  <2>1. CASE u = t
    BY <2>1, <1>4, <1>5
  <2>2. CASE u # t
    <3>1. rwCall'[u] = rwCall[u] /\ rwCall[u].g \in Guests
      BY <2>2, <1>1, <1>4 DEF RwApart, RwCallInv
    <3>2. CASE rwCall[u].g = g
      <4>1. RwAlone(t)
        BY <3>1, <3>2, <1>1, <1>2 DEF RwApart, RwUnracedInv
      <4> QED BY <4>1, <2>2, <3>1, <3>2, <1>2 DEF RwAlone
    <3>3. CASE rwCall[u].g # g
      <4>1. rwSlot'[rwCall[u].g] = rwSlot[rwCall[u].g]
        BY <3>1, <3>3, <1>5
      <4>2. RwAlone(u) => RwAlone(u)'
        BY <2>2, <3>1, <1>2, <1>4 DEF RwAlone
      <4> QED BY <3>1, <4>1, <4>2, <1>1 DEF RwApart, RwUnracedInv
    <3> QED BY <3>2, <3>3
  <2> QED BY <2>1, <2>2
<1>12. RwAgreeInv'
  <2>1. \A f \in Guests : Rw!Readers(f)' = Rw!Readers(f) /\ (RwUnheld(f)' <=> RwUnheld(f))
    BY <1>3 DEF Rw!Readers, RwUnheld
  <2>2. ASSUME g \notin rwRaced PROVE RwAgree(g)'
    <3>1. rwSlot[g] \notin Hosts
      BY <2>2, <1>1, <1>2 DEF RwApart, RwUnracedInv
    <3>2. RwUnheld(g) /\ Rw!Readers(g) = {}
      BY <2>2, <3>1, <1>1 DEF RwAgreeInv, RwAgree, RwUnheld, Rw!Readers
    <3>3. writer[h] = None /\ readers[h] = 0 /\ None \notin Threads
      BY <1>1, <1>2, RwConstants DEF RwApart, RwFreshInv
    <3> QED BY <2>1, <3>2, <3>3, <1>3, <1>5, FS_EmptySet DEF RwAgree, RwUnheld
  <2>3. ASSUME NEW f \in Guests \ rwRaced, f # g PROVE RwAgree(f)'
    BY <2>1, <2>3, <1>1, <1>3, <1>5 DEF RwAgreeInv, RwAgree
  <2> QED BY <2>2, <2>3, <1>3 DEF RwAgreeInv
<1> QED BY <1>7, <1>8, <1>9, <1>10, <1>11, <1>12 DEF RwIInv, RwApart

\* The thread that destroys a lock is alone on it, and nobody has it.
LEMMA RwDestroySteps ==
    ASSUME RwIInv, NEW t \in Threads, Rw!Destroy(t)
    PROVE  RwIInv'
<1>1. Rw!RwTypeOK /\ RwApart /\ RwAgreeInv
  BY DEF RwIInv, RwApart
<1> USE DEF RwBusy, RwOnHost, Rw!IsHost
<1>2. PICK g \in Guests, h \in Hosts :
         g = rwCall[t].g /\ h = rwCall[t].h /\ rwCall[t].at = "host" /\ rwCall[t].op = "destroy"
  BY <1>1 DEF Rw!Destroy, Rw!At, RwApart, Rw!RwTypeOK, RwCallInv
<1>3. /\ rwSlot' = [rwSlot EXCEPT ![g] = 0] /\ rwCall' = [rwCall EXCEPT ![t] = Rw!NoCall]
      /\ rwHeap' = rwHeap \ {h} /\ UNCHANGED <<rwRaced, writer, readers, holds>>
  BY <1>2 DEF Rw!Destroy, Rw!Return, Rw!lockVars
<1>4. /\ rwCall' \in [Threads -> Rw!CallType] /\ \A u \in Threads \ {t} : rwCall'[u] = rwCall[u]
      /\ rwCall'[t] = Rw!NoCall /\ Rw!NoCall.at = "guest"
  BY <1>1, <1>3, RwNoCallOk DEF Rw!RwTypeOK
<1>5. /\ rwSlot' \in [Guests -> Hosts \cup {0}] /\ rwSlot'[g] = 0
      /\ \A f \in Guests \ {g} : rwSlot'[f] = rwSlot[f]
  BY <1>1, <1>3 DEF Rw!RwTypeOK
<1>6. RwUnheld(g)
  BY <1>1, <1>2 DEF RwApart, RwCallInv
<1>7. \A u \in Threads \ {t} : rwCall[u].at # "guest" => rwCall[u].g # g
  BY <1>1, <1>2 DEF RwApart, RwCallInv, RwAlone
<1>8. /\ \A u \in Threads \ {t} : RwOnHost(u) => rwCall[u].h # h
      /\ \A f \in Guests \ {g} : rwSlot[f] # h
  BY <1>1, <1>2, <1>7 DEF RwApart, RwPrivateInv
<1>9. Rw!RwTypeOK'
  BY <1>1, <1>3, <1>4, <1>5 DEF Rw!RwTypeOK
<1>10. RwCallInv'
  BY <1>1, <1>3, <1>4, <1>8 DEF RwApart, RwCallInv, RwAlone, RwUnheld
<1>11. RwPrivateInv'
  <2>1. \A u \in Threads : RwOnHost(u)' => u # t /\ RwOnHost(u) /\ rwCall'[u] = rwCall[u]
    BY <1>4
  <2>2. \A u \in Threads : RwOnHost(u) => rwCall[u].h \in Hosts
    BY <1>1 DEF RwApart, RwCallInv, Rw!RwTypeOK
  <2>3. \A f \in Guests : rwSlot'[f] \in Hosts => f # g /\ rwSlot'[f] = rwSlot[f]
    BY <1>5, RwConstants
  <2>4. \A e, f \in Guests : rwSlot[f] \in Hosts /\ rwSlot[e] = rwSlot[f] => e = f
    BY <1>1 DEF RwApart, RwPrivateInv
  <2>5. \A f \in Guests : rwSlot'[f] \in Hosts => rwSlot'[f] \in rwHeap'
    BY <1>1, <1>3, <1>8, <2>3 DEF RwApart, RwPrivateInv
  <2> QED BY <1>1, <2>1, <2>2, <2>3, <2>4, <2>5 DEF RwApart, RwPrivateInv
<1>12. RwFreshInv'
  <2>1. \A u \in Threads : rwCall[u].at = "install" => rwCall[u].h \in Hosts
    BY <1>1 DEF RwApart, RwCallInv, Rw!RwTypeOK
  <2> QED BY <1>1, <1>3, <1>4, <1>5, <2>1, RwConstants DEF RwApart, RwFreshInv
<1>13. RwUnracedInv'
  <2> SUFFICES ASSUME NEW u \in Threads \ {t}, rwCall[u].at # "guest", rwCall[u].g \notin rwRaced
               PROVE  /\ rwCall[u].at = "host" => rwSlot'[rwCall[u].g] = rwCall[u].h
                      /\ rwCall[u].at \in {"create", "install"} =>
                            rwSlot'[rwCall[u].g] \notin Hosts /\ RwAlone(u)'
    BY <1>3, <1>4 DEF RwUnracedInv
  <2>1. rwSlot'[rwCall[u].g] = rwSlot[rwCall[u].g]
    BY <1>1, <1>5, <1>7 DEF RwApart, RwCallInv
  <2>2. RwAlone(u) => RwAlone(u)'
    BY <1>4 DEF RwAlone
  <2> QED BY <2>1, <2>2, <1>1 DEF RwApart, RwUnracedInv
<1>14. RwAgreeInv'
  <2>1. \A f \in Guests : Rw!Readers(f)' = Rw!Readers(f) /\ (RwUnheld(f)' <=> RwUnheld(f))
    BY <1>3 DEF Rw!Readers, RwUnheld
  <2> QED BY <2>1, <1>1, <1>3, <1>5, <1>6, RwConstants DEF RwAgreeInv, RwAgree
<1> QED BY <1>9, <1>10, <1>11, <1>12, <1>13, <1>14 DEF RwIInv, RwApart
-----------------------------------------------------------------------------
LEMMA RwInit ==
    ASSUME Rw!Init PROVE RwIInv
<1> USE RwConstants, RwNoCallOk DEF Rw!Init
<1>1. Rw!RwTypeOK
  BY DEF Rw!RwTypeOK
<1>2. RwCallInv /\ RwPrivateInv /\ RwFreshInv /\ RwUnracedInv
  BY DEF RwCallInv, RwPrivateInv, RwFreshInv, RwUnracedInv, RwBusy, RwOnHost, Rw!IsHost
<1>3. RwAgreeInv
  BY DEF RwAgreeInv, RwAgree, Rw!IsHost, RwUnheld
<1> QED BY <1>1, <1>2, <1>3 DEF RwIInv, RwApart

LEMMA RwStutter ==
    ASSUME RwIInv, UNCHANGED Rw!vars PROVE RwIInv'
<1>1. \A g \in Guests : Rw!Readers(g)' = Rw!Readers(g) /\ (RwUnheld(g)' <=> RwUnheld(g))
  BY DEF Rw!vars, Rw!lockVars, Rw!Readers, RwUnheld
<1> QED
  BY <1>1 DEF Rw!vars, Rw!slotVars, Rw!lockVars, RwIInv, RwApart, RwAgreeInv, RwAgree, Rw!RwTypeOK, RwCallInv,
     RwPrivateInv, RwFreshInv, RwUnracedInv, RwBusy, RwOnHost, RwAlone, Rw!IsHost

LEMMA RwStep ==
    ASSUME RwIInv, Rw!Next PROVE RwIInv'
<1>1. PICK t \in Threads :
        \/ \E g \in Guests :
              \/ Rw!BeginInit(t, g) \/ Rw!BeginUnlock(t, g) \/ Rw!BeginDestroy(t, g)
              \/ \E op \in {"rdlock", "wrlock"} : Rw!BeginLock(t, g, op)
        \/ \E h \in Hosts : Rw!CreateLock(t, h)
        \/ Rw!CreateFails(t) \/ Rw!InstallLock(t) \/ Rw!InitReturns(t)
        \/ Rw!ReadLock(t) \/ Rw!WriteLock(t) \/ Rw!Unlock(t) \/ Rw!Destroy(t)
  BY DEF Rw!Next
<1>2. ASSUME NEW g \in Guests,
             \/ Rw!BeginInit(t, g) \/ Rw!BeginUnlock(t, g) \/ Rw!BeginDestroy(t, g)
             \/ \E op \in {"rdlock", "wrlock"} : Rw!BeginLock(t, g, op)
      PROVE  RwIInv'
  <2>1. Rw!RwTypeOK
    BY DEF RwIInv, RwApart
  <2> QED BY <1>2, <2>1, RwEntrySteps, RwEntryKeeps
<1>3. ASSUME NEW h \in Hosts, Rw!CreateLock(t, h) PROVE RwIInv'
  BY <1>3, RwCreateSteps
<1>4. CASE Rw!CreateFails(t) \/ Rw!InitReturns(t)
  BY <1>4, RwIdleSteps
<1>5. CASE Rw!ReadLock(t) \/ Rw!WriteLock(t) \/ Rw!Unlock(t)
  BY <1>5, RwLockSteps
<1>6. CASE Rw!InstallLock(t)
  BY <1>6, RwInstallSteps
<1>7. CASE Rw!Destroy(t)
  BY <1>7, RwDestroySteps
<1> QED BY <1>1, <1>2, <1>3, <1>4, <1>5, <1>6, <1>7

LEMMA RwConsequences ==
    ASSUME RwIInv PROVE Rw!LocksSound
<1>1. Rw!RwTypeOK /\ RwAgreeInv /\ RwCallInv /\ RwPrivateInv
  BY DEF RwIInv, RwApart
<1>2. ASSUME NEW g \in Guests \ rwRaced
      PROVE  /\ Rw!Writers(g) # {} => Cardinality(Rw!Writers(g)) = 1 /\ Rw!Readers(g) = {}
             /\ Rw!IsHost(rwSlot[g]) =>
                   /\ readers[rwSlot[g]] = Cardinality(Rw!Readers(g))
                   /\ Rw!Writers(g) = {writer[rwSlot[g]]} \ {None}
  <2>1. RwAgree(g)
    BY <1>1 DEF RwAgreeInv
  <2>2. CASE ~Rw!IsHost(rwSlot[g])
    BY <2>1, <2>2 DEF RwAgree, RwUnheld, Rw!Writers
  <2>3. CASE Rw!IsHost(rwSlot[g])
    <3>1. /\ \A t \in Threads : holds[g][t] = "write" <=> writer[rwSlot[g]] = t
          /\ writer[rwSlot[g]] # None => Rw!Readers(g) = {}
          /\ readers[rwSlot[g]] = Cardinality(Rw!Readers(g))
      BY <2>1, <2>3 DEF RwAgree
    <3>2. writer[rwSlot[g]] \in Threads \cup {None} /\ None \notin Threads
      BY <1>1, <2>3, RwConstants DEF Rw!RwTypeOK, Rw!IsHost
    <3>3. Rw!Writers(g) = {writer[rwSlot[g]]} \ {None}
      BY <3>1, <3>2 DEF Rw!Writers
    <3>4. ASSUME Rw!Writers(g) # {}
          PROVE  Cardinality(Rw!Writers(g)) = 1 /\ Rw!Readers(g) = {}
      <4>1. writer[rwSlot[g]] # None /\ Rw!Writers(g) = {writer[rwSlot[g]]}
        BY <3>3, <3>4
      <4> QED BY <4>1, <3>1, FS_Singleton
    <3> QED BY <3>1, <3>3, <3>4
  <2> QED BY <2>2, <2>3
<1>3. /\ \A g \in Guests : Rw!IsHost(rwSlot[g]) => rwSlot[g] \in rwHeap
      /\ \A t \in Threads : rwCall[t].at \in {"install", "host"} => rwCall[t].h \in rwHeap
  BY <1>1 DEF RwCallInv, RwPrivateInv, RwOnHost
<1> QED BY <1>2, <1>3, RwCounts DEF Rw!LocksSound
-----------------------------------------------------------------------------
(* The registries (JniRegistry).                                           *)

JniBusy(t) == ~Jni!In(t, "guest")
JniFills(t) == look[t].at \in {"name", "signature", "static"}
JniPending(table) ==
    {t \in Pair : look[t].at \in {"search", "grow", "claim", "store"} /\ Jni!TableOf(t) = table}
JniRec(k) == [name |-> k.name, signature |-> k.signature, static |-> k.static]

JniTexts ==
    {""} \cup UNION {{k.name, Cut[k.name], k.signature, CutSignature[k.table][k.signature]} :
                        k \in Keys}

JniTypeOK ==
    /\ entries \in [Jni!Tables -> [0..MaxLookups -> [name : JniTexts, signature : JniTexts, static : BOOLEAN]]]
    /\ count \in [Jni!Tables -> Nat]
    /\ look \in [Pair -> [at : {"guest", "search", "grow", "claim", "store",
                                   "name", "signature", "static"},
                             key : Keys \cup {None}, i : Nat]]
    /\ \A t \in Pair : JniBusy(t) => Jni!KeyOf(t) \in Keys
    /\ ids \subseteq Keys \X Nat
    /\ lookups \in 0..MaxLookups

\* One thread at a time grows a table, within its capacity and its lookups.
JniGrowInv ==
    \A table \in Jni!Tables \ overlapped :
        /\ count[table] <= Capacity[table]
        /\ IsFiniteSet(JniPending(table)) /\ count[table] + Cardinality(JniPending(table)) <= lookups
        /\ \A t \in Jni!Growing(table) :
              /\ count[table] < Capacity[table]
              /\ Jni!In(t, "store") => look[t].i = count[table]
              /\ \A u \in Jni!Growing(table) : u = t

\* Each fills an entry of its own, which holds what it has written by now.
JniFillInv ==
    \A t \in Pair : JniFills(t) /\ Jni!TableOf(t) \notin overlapped =>
        /\ look[t].i < count[Jni!TableOf(t)]
        /\ \A u \in Pair : JniFills(u) /\ Jni!TableOf(u) = Jni!TableOf(t) /\ look[u].i = look[t].i => u = t
        /\ LET entry == entries[Jni!TableOf(t)][look[t].i]
           IN  /\ Jni!In(t, "name") => entry = Jni!Blank
               /\ Jni!In(t, "signature") => entry.name = Cut[Jni!KeyOf(t).name] /\ entry.signature = ""
               /\ Jni!In(t, "static") =>
                     /\ entry.name = Cut[Jni!KeyOf(t).name]
                     /\ entry.signature = CutSignature[Jni!TableOf(t)][Jni!KeyOf(t).signature]

\* Behind the last entry there is nothing, and a name was put there by someone.
JniEntryInv ==
    /\ \A table \in Jni!Tables \ overlapped, s \in 0..MaxLookups :
          s >= count[table] => entries[table][s] = Jni!Blank
    /\ \A table \in Jni!Tables, s \in 0..MaxLookups :
          entries[table][s].name # "" => \E j \in Keys : entries[table][s].name = Cut[j.name]

\* An id is of an entry that has the name.
JniIdInv ==
    \A pair \in ids : pair[1].table \notin overlapped =>
        /\ pair[2] < count[pair[1].table]
        /\ entries[pair[1].table][pair[2]].name = Cut[pair[1].name]
        /\ \A t \in Pair : JniFills(t) /\ Jni!TableOf(t) = pair[1].table /\ look[t].i = pair[2] => Jni!In(t, "static")

JniAlikeInv ==
    \A t, u \in Pair : JniBusy(t) /\ JniBusy(u) /\ Jni!Alike(Jni!KeyOf(t), Jni!KeyOf(u)) /\ t # u =>
        Jni!KeyOf(t) \in contended

JniGood(k) == k.table \notin overlapped /\ Jni!Fits(k) /\ k \notin contended

\* A thread has passed no entry for its key ...
JniPassedInv ==
    \A t \in Pair : JniBusy(t) /\ JniGood(Jni!KeyOf(t)) =>
        \A s \in 0..MaxLookups :
            (Jni!In(t, "search") => s < look[t].i) /\ (JniFills(t) => s # look[t].i) =>
                entries[Jni!TableOf(t)][s] # JniRec(Jni!KeyOf(t))

\* ... and an id is of the first entry for its key.
JniFirstInv ==
    \A pair \in ids : JniGood(pair[1]) =>
        /\ entries[pair[1].table][pair[2]] = JniRec(pair[1])
        /\ \A s \in 0..MaxLookups : s < pair[2] => entries[pair[1].table][s] # JniRec(pair[1])
        /\ \A t \in Pair :
              JniFills(t) /\ Jni!Alike(Jni!KeyOf(t), pair[1]) => look[t].i > pair[2]
JniIInv ==
    JniTypeOK /\ JniGrowInv /\ JniFillInv /\ JniEntryInv /\ JniIdInv /\ JniAlikeInv /\ JniPassedInv /\ JniFirstInv
LEMMA JniBlankOk == Jni!Blank \in [name : JniTexts, signature : JniTexts, static : BOOLEAN]
  BY DEF Jni!Blank, JniTexts

LEMMA JniTextsOf ==
    ASSUME NEW k \in Keys
    PROVE  k.name \in JniTexts /\ Cut[k.name] \in JniTexts /\ k.signature \in JniTexts
           /\ CutSignature[k.table][k.signature] \in JniTexts
  BY DEF JniTexts

LEMMA JniLookupsNat ==
    ASSUME JniTypeOK
    PROVE  lookups \in Nat /\ MaxLookups \in Nat /\ \A table \in Jni!Tables : count[table] \in Nat
<1>1. MaxLookups \in Nat
  BY RegistryAssumption
<1>2. lookups \in 0..MaxLookups /\ count \in [Jni!Tables -> Nat]
  BY DEF JniTypeOK
<1> QED BY <1>1, <1>2

\* What stands for a key in its table is not blank.
LEMMA JniRecNotBlank ==
    ASSUME NEW k \in Keys
    PROVE  /\ JniRec(k) # Jni!Blank /\ JniRec(k).name = k.name /\ JniRec(k).signature = k.signature
           /\ JniRec(k).name # "" /\ JniRec(k).signature # "" /\ k.table \in Jni!Tables
  BY RegistryAssumption DEF JniRec, Jni!Blank

\* A lookup in a table that no two threads grew at a time has room there.
LEMMA JniRoomLeft ==
    ASSUME JniTypeOK, JniGrowInv, NEW table \in Jni!Tables \ overlapped
    PROVE  /\ count[table] <= MaxLookups /\ count[table] \in Nat
           /\ \A t \in Pair : Jni!In(t, "store") /\ Jni!TableOf(t) = table => count[table] + 1 <= MaxLookups
<1>1. /\ IsFiniteSet(JniPending(table)) /\ count[table] + Cardinality(JniPending(table)) <= lookups
      /\ count[table] \in Nat /\ lookups \in 0..MaxLookups /\ MaxLookups \in Nat
  BY RegistryAssumption DEF JniGrowInv, JniTypeOK
<1>2. Cardinality(JniPending(table)) \in Nat
  BY <1>1, FS_CardinalityType
<1>3. ASSUME NEW t \in Pair, Jni!In(t, "store"), Jni!TableOf(t) = table
      PROVE  Cardinality(JniPending(table)) # 0
  <2>1. t \in JniPending(table)
    BY <1>3 DEF JniPending, Jni!In
  <2> QED BY <1>1, <2>1, FS_EmptySet
<1> QED BY <1>1, <1>2, <1>3

\* Two threads that fill an entry fill two.
LEMMA JniOwnEntry ==
    ASSUME JniFillInv, NEW t \in Pair, NEW u \in Pair, JniFills(t), JniFills(u),
           Jni!TableOf(t) \notin overlapped, Jni!TableOf(u) = Jni!TableOf(t), look[u].i = look[t].i
    PROVE  u = t
  BY DEF JniFillInv

\* A step in which no thread comes to fill an entry.
LEMMA JniFillKept ==
    ASSUME JniFillInv, UNCHANGED <<entries, count>>, overlapped \subseteq overlapped',
           \A u \in Pair :
               look'[u].at \in {"name", "signature", "static"} => look'[u] = look[u]
    PROVE  JniFillInv'
<1> USE DEF JniFills, Jni!TableOf, Jni!KeyOf, Jni!In
<1> SUFFICES ASSUME NEW t \in Pair, JniFills(t)', look'[t].key.table \notin overlapped'
             PROVE  /\ look'[t].i < count'[look'[t].key.table]
                    /\ \A u \in Pair : JniFills(u)' /\ look'[u].key.table = look'[t].key.table
                                          /\ look'[u].i = look'[t].i => u = t
                    /\ LET entry == entries'[look'[t].key.table][look'[t].i]
                       IN  /\ look'[t].at = "name" => entry = Jni!Blank
                           /\ look'[t].at = "signature" =>
                                 entry.name = Cut[look'[t].key.name] /\ entry.signature = ""
                           /\ look'[t].at = "static" =>
                                 /\ entry.name = Cut[look'[t].key.name]
                                 /\ entry.signature = CutSignature[look'[t].key.table][look'[t].key.signature]
  BY DEF JniFillInv
<1>1. look'[t] = look[t] /\ JniFills(t) /\ Jni!TableOf(t) \notin overlapped
  OBVIOUS
<1>2. ASSUME NEW u \in Pair, JniFills(u)', look'[u].key.table = look'[t].key.table,
             look'[u].i = look'[t].i
      PROVE  u = t
  <2>1. look'[u] = look[u] /\ JniFills(u)
    BY <1>2
  <2> QED BY <1>1, <1>2, <2>1, JniOwnEntry
<1> QED BY <1>1, <1>2 DEF JniFillInv

\* A step in which no thread comes to fill an entry and no id is returned.
LEMMA JniIdKept ==
    ASSUME JniIdInv, UNCHANGED <<entries, count, ids>>, overlapped \subseteq overlapped',
           \A u \in Pair :
               look'[u].at \in {"name", "signature", "static"} => look'[u] = look[u]
    PROVE  JniIdInv'
<1> USE DEF JniFills, Jni!TableOf, Jni!KeyOf, Jni!In
<1> SUFFICES ASSUME NEW pair \in ids, pair[1].table \notin overlapped
             PROVE  /\ pair[2] < count[pair[1].table]
                    /\ entries[pair[1].table][pair[2]].name = Cut[pair[1].name]
                    /\ \A u \in Pair : JniFills(u)' /\ look'[u].key.table = pair[1].table
                                          /\ look'[u].i = pair[2] => look'[u].at = "static"
  BY DEF JniIdInv
<1> QED BY DEF JniIdInv

\* A step in which no lookup begins.
LEMMA JniAlikeKept ==
    ASSUME JniAlikeInv, UNCHANGED contended,
           \A u \in Pair :
               look'[u].at # "guest" => look[u].at # "guest" /\ look'[u].key = look[u].key
    PROVE  JniAlikeInv'
<1> SUFFICES ASSUME NEW t \in Pair, NEW u \in Pair, look'[t].at # "guest",
                    look'[u].at # "guest", Jni!Alike(look'[t].key, look'[u].key), t # u
             PROVE  look'[t].key \in contended
  BY DEF JniAlikeInv, JniBusy, Jni!In, Jni!KeyOf
<1> QED BY DEF JniAlikeInv, JniBusy, Jni!In, Jni!KeyOf

\* A thread on its way to an entry of its own, whose table has nothing for it.
LEMMA JniPassedKept ==
    ASSUME JniPassedInv, NEW t \in Pair, UNCHANGED entries,
           \A k : JniGood(k)' => JniGood(k),
           \A u \in Pair \ {t} : look'[u] = look[u],
           look'[t].key = look[t].key,
           look[t].at \in {"grow", "claim", "store"},
           look'[t].at \in {"grow", "claim", "store", "name"}
    PROVE  JniPassedInv'
<1> USE DEF Jni!In, Jni!KeyOf, Jni!TableOf, JniBusy, JniFills
<1> SUFFICES ASSUME NEW u \in Pair, look'[u].at # "guest", JniGood(look'[u].key),
                    NEW s \in 0..MaxLookups,
                    look'[u].at = "search" => s < look'[u].i, JniFills(u)' => s # look'[u].i
             PROVE  entries[look'[u].key.table][s] # JniRec(look'[u].key)
  BY DEF JniPassedInv
<1>1. CASE u = t
  BY <1>1 DEF JniPassedInv
<1>2. CASE u # t
  BY <1>2 DEF JniPassedInv
<1> QED BY <1>1, <1>2

(* A lookup begins.                                                        *)
LEMMA JniLookUpKeeps ==
    ASSUME JniIInv, NEW t \in Pair, NEW k \in Keys, Jni!LookUp(t, k)
    PROVE  JniIInv'
<1>1. /\ look[t].at = "guest" /\ lookups < MaxLookups /\ lookups' = lookups + 1
      /\ look' = [look EXCEPT ![t] = [at |-> "search", key |-> k, i |-> 0]]
      /\ UNCHANGED <<entries, count, ids, overlapped>>
      /\ contended \subseteq contended'
      /\ \A u \in Pair : JniBusy(u) /\ Jni!Alike(Jni!KeyOf(u), k) =>
            {j \in Keys : Jni!Alike(j, k)} \subseteq contended'
  BY DEF Jni!LookUp, Jni!In, JniBusy
<1>2. JniTypeOK /\ JniGrowInv /\ JniFillInv /\ JniEntryInv /\ JniIdInv /\ JniAlikeInv /\ JniPassedInv /\ JniFirstInv
  BY DEF JniIInv
<1>3. /\ \A u \in Pair \ {t} : look'[u] = look[u]
      /\ look'[t] = [at |-> "search", key |-> k, i |-> 0]
  BY <1>2, <1>1 DEF JniTypeOK
<1> USE DEF Jni!In, Jni!KeyOf, Jni!TableOf, JniBusy, JniFills
<1>4. JniTypeOK'
  <2>1. look' \in [Pair -> [at : {"guest", "search", "grow", "claim", "store",
                                     "name", "signature", "static"},
                               key : Keys \cup {None}, i : Nat]]
    BY <1>2, <1>1 DEF JniTypeOK
  <2>2. lookups' \in 0..MaxLookups
    BY <1>2, <1>1, JniLookupsNat
  <2> QED BY <1>2, <1>1, <1>3, <2>1, <2>2 DEF JniTypeOK
<1>5. JniGrowInv'
  <2> SUFFICES ASSUME NEW table \in Jni!Tables \ overlapped
               PROVE  /\ count[table] <= Capacity[table]
                      /\ IsFiniteSet(JniPending(table)')
                      /\ count[table] + Cardinality(JniPending(table)') <= lookups + 1
                      /\ \A u \in Jni!Growing(table)' :
                            /\ count[table] < Capacity[table]
                            /\ look'[u].at = "store" => look'[u].i = count[table]
                            /\ \A v \in Jni!Growing(table)' : v = u
    BY <1>1 DEF JniGrowInv
  <2>1. /\ IsFiniteSet(JniPending(table)) /\ count[table] + Cardinality(JniPending(table)) <= lookups
        /\ count[table] \in Nat /\ lookups \in Nat
    BY <1>2, JniLookupsNat DEF JniGrowInv
  <2>2. JniPending(table)' \subseteq JniPending(table) \cup {t}
    BY <1>3 DEF JniPending
  <2>3. IsFiniteSet(JniPending(table)') /\ Cardinality(JniPending(table)') <= (lookups - count[table]) + 1
    <3>1. lookups - count[table] \in Int /\ Cardinality(JniPending(table)) <= lookups - count[table]
      <4>1. Cardinality(JniPending(table)) \in Nat
        BY <2>1, FS_CardinalityType
      <4> QED BY <2>1, <4>1
    <3> QED BY <2>1, <2>2, <3>1, OneMore
  <2>4. Cardinality(JniPending(table)') \in Nat
    BY <2>3, FS_CardinalityType
  <2>5. \A u \in Jni!Growing(table)' : u \in Jni!Growing(table) /\ look'[u] = look[u]
    BY <1>3 DEF Jni!Growing
  <2> QED BY <1>2, <2>1, <2>3, <2>4, <2>5 DEF JniGrowInv
<1>6. \A u \in Pair : look'[u].at \in {"name", "signature", "static"} => u # t /\ look'[u] = look[u]
  BY <1>3
<1>7. JniFillInv'
  BY <1>2, <1>1, <1>6, JniFillKept
<1>8. JniEntryInv'
  BY <1>2, <1>1 DEF JniEntryInv
<1>9. JniIdInv'
  BY <1>2, <1>1, <1>6 DEF JniIdInv
<1>10. JniAlikeInv'
  <2> SUFFICES ASSUME NEW u \in Pair, NEW v \in Pair \ {u}, look'[u].at # "guest", look'[v].at # "guest",
                      Jni!Alike(look'[u].key, look'[v].key)
               PROVE  look'[u].key \in contended'
    BY DEF JniAlikeInv
  <2>1. CASE u = t
    <3>1. look'[v] = look[v] /\ Jni!Alike(look[v].key, k) /\ look'[u].key = k /\ Jni!Alike(k, k)
      BY <1>3, <2>1 DEF Jni!Alike
    <3> QED BY <3>1, <1>1, <1>3
  <2>2. CASE v = t
    <3>1. look'[u] = look[u] /\ Jni!Alike(look[u].key, k) /\ look[u].key \in Keys
      BY <1>2, <1>3, <2>2 DEF JniTypeOK
    <3> QED BY <3>1, <1>1, <1>3
  <2>3. CASE u # t /\ v # t
    BY <1>2, <1>1, <1>3, <2>3 DEF JniAlikeInv
  <2> QED BY <2>1, <2>2, <2>3
<1>11. \A j : JniGood(j)' => JniGood(j)
  BY <1>1 DEF JniGood
<1>12. JniPassedInv'
  <2> SUFFICES ASSUME NEW u \in Pair, look'[u].at # "guest", JniGood(look'[u].key),
                      NEW s \in 0..MaxLookups,
                      look'[u].at = "search" => s < look'[u].i, JniFills(u)' => s # look'[u].i
               PROVE  entries[look'[u].key.table][s] # JniRec(look'[u].key)
    BY <1>1, <1>11 DEF JniPassedInv
  <2>1. CASE u = t
    <3>1. s < 0 /\ s \in Nat
      BY <2>1, <1>3
    <3> QED BY <3>1
  <2>2. CASE u # t
    BY <2>2, <1>2, <1>3 DEF JniPassedInv
  <2> QED BY <2>1, <2>2
<1>13. JniFirstInv'
  BY <1>2, <1>1, <1>6, <1>11 DEF JniFirstInv
<1> QED BY <1>4, <1>5, <1>7, <1>8, <1>9, <1>10, <1>12, <1>13 DEF JniIInv

(* A step of a lookup that leaves the table alone: the thread is on its way*)
(* to an entry and has not gained a place among those that grow or fill.   *)
LEMMA JniSearchKeeps ==
    ASSUME JniIInv, NEW t \in Pair, Jni!Search(t)
    PROVE  JniIInv'
<1>1. JniTypeOK /\ JniGrowInv /\ JniFillInv /\ JniEntryInv /\ JniIdInv /\ JniAlikeInv /\ JniPassedInv /\ JniFirstInv
  BY DEF JniIInv
<1> USE DEF Jni!In, Jni!KeyOf, Jni!TableOf, JniBusy, JniFills
<1>2. PICK k \in Keys, x \in Nat : look[t].at = "search" /\ look[t].key = k /\ look[t].i = x
  BY <1>1 DEF Jni!Search, JniTypeOK
<1>3. /\ UNCHANGED <<entries, count, lookups, contended, overlapped>>
      /\ \/ /\ x >= count[k.table] /\ look' = [look EXCEPT ![t].at = "grow"] /\ UNCHANGED ids
         \/ /\ x < count[k.table] /\ entries[k.table][x] = JniRec(k)
            /\ ids' = ids \cup {<<k, x>>} /\ look' = [look EXCEPT ![t] = Jni!NoLook]
         \/ /\ x < count[k.table] /\ entries[k.table][x] # JniRec(k)
            /\ look' = [look EXCEPT ![t].i = @ + 1] /\ UNCHANGED ids
  <2>1. count[k.table] \in Nat
    BY <1>1, JniRecNotBlank DEF JniTypeOK
  <2> QED BY <1>2, <2>1 DEF Jni!Search, Jni!GoTo, Jni!Matches, Jni!Answer, JniRec
<1>4. k.table \in Jni!Tables /\ JniRec(k) # Jni!Blank
  BY JniRecNotBlank
<1>5. \A u \in Pair \ {t} : look'[u] = look[u]
  BY <1>1, <1>3 DEF JniTypeOK
<1>6. \/ look'[t] = [at |-> "grow", key |-> k, i |-> x]
      \/ look'[t] = Jni!NoLook
      \/ look'[t] = [at |-> "search", key |-> k, i |-> x + 1]
  BY <1>1, <1>2, <1>3 DEF JniTypeOK
<1>7. JniTypeOK'
  <2>1. look' \in [Pair -> [at : {"guest", "search", "grow", "claim", "store",
                                     "name", "signature", "static"},
                               key : Keys \cup {None}, i : Nat]]
    <3>1. look'[t] \in [at : {"guest", "search", "grow", "claim", "store",
                              "name", "signature", "static"},
                        key : Keys \cup {None}, i : Nat]
      BY <1>6 DEF Jni!NoLook
    <3>2. DOMAIN look' = Pair /\ look' = [u \in Pair |-> look'[u]]
      BY <1>1, <1>3 DEF JniTypeOK
    <3> QED BY <1>1, <1>5, <3>1, <3>2 DEF JniTypeOK
  <2>2. ids' \subseteq Keys \X Nat
    BY <1>1, <1>3 DEF JniTypeOK
  <2>3. \A u \in Pair : look'[u].at # "guest" => look'[u].key \in Keys
    <3>1. look'[t].at # "guest" => look'[t].key \in Keys
      BY <1>6 DEF Jni!NoLook
    <3> QED BY <1>1, <1>5, <3>1 DEF JniTypeOK
  <2> QED BY <1>1, <1>3, <2>1, <2>2, <2>3 DEF JniTypeOK
<1>8. \A u \in Pair :
         /\ look'[u].at \in {"claim", "store", "name", "signature", "static"} => u # t /\ look'[u] = look[u]
         /\ look'[u].at # "guest" => look[u].at # "guest" /\ look'[u].key = look[u].key
         /\ look'[u].at \in {"search", "grow"} => look[u].at \in {"search", "grow"}
  BY <1>2, <1>5, <1>6 DEF Jni!NoLook
<1>9. JniGrowInv'
  <2> SUFFICES ASSUME NEW table \in Jni!Tables \ overlapped
               PROVE  /\ count[table] <= Capacity[table]
                      /\ IsFiniteSet(JniPending(table)')
                      /\ count[table] + Cardinality(JniPending(table)') <= lookups
                      /\ \A u \in Jni!Growing(table)' :
                            /\ count[table] < Capacity[table]
                            /\ look'[u].at = "store" => look'[u].i = count[table]
                            /\ \A v \in Jni!Growing(table)' : v = u
    BY <1>3 DEF JniGrowInv
  <2>1. /\ IsFiniteSet(JniPending(table)) /\ count[table] + Cardinality(JniPending(table)) <= lookups
        /\ count[table] \in Nat /\ lookups \in Nat
    BY <1>1, JniLookupsNat DEF JniGrowInv
  <2>2. JniPending(table)' \in SUBSET JniPending(table)
    BY <1>8 DEF JniPending
  <2>3. /\ IsFiniteSet(JniPending(table)') /\ Cardinality(JniPending(table)') <= Cardinality(JniPending(table))
        /\ Cardinality(JniPending(table)) \in Nat
    BY <2>1, <2>2, FS_Subset, FS_CardinalityType
  <2>4. Cardinality(JniPending(table)') \in Nat
    BY <2>3, FS_CardinalityType
  <2>5. \A u \in Jni!Growing(table)' : u \in Jni!Growing(table) /\ look'[u] = look[u]
    BY <1>8 DEF Jni!Growing
  <2> QED BY <1>1, <2>1, <2>3, <2>4, <2>5 DEF JniGrowInv
<1>10. JniFillInv'
  BY <1>1, <1>3, <1>8, JniFillKept
<1>11. JniEntryInv'
  BY <1>1, <1>3 DEF JniEntryInv
<1>12. JniAlikeInv'
  BY <1>1, <1>3, <1>8, JniAlikeKept
<1>13. \A j : JniGood(j)' <=> JniGood(j)
  BY <1>3 DEF JniGood
<1>14. JniPassedInv'
  <2> SUFFICES ASSUME NEW u \in Pair, look'[u].at # "guest", JniGood(look'[u].key),
                      NEW s \in 0..MaxLookups,
                      look'[u].at = "search" => s < look'[u].i, JniFills(u)' => s # look'[u].i
               PROVE  entries[look'[u].key.table][s] # JniRec(look'[u].key)
    BY <1>3, <1>13 DEF JniPassedInv
  <2>1. CASE u # t
    BY <2>1, <1>1, <1>5 DEF JniPassedInv
  <2>2. CASE u = t
    <3>1. JniGood(k) => \A r \in 0..MaxLookups : r < x => entries[k.table][r] # JniRec(k)
      BY <1>1, <1>2 DEF JniPassedInv
    <3>2. CASE look'[t].at = "grow"
      <4>1. x >= count[k.table] /\ look'[t].key = k
        BY <3>2, <1>2, <1>3, <1>1 DEF Jni!NoLook, JniTypeOK
      <4>2. k.table \notin overlapped /\ count[k.table] \in Nat
        BY <2>2, <4>1, <1>1, <1>4 DEF JniGood, JniTypeOK
      <4>3. s >= count[k.table] => entries[k.table][s] = Jni!Blank
        BY <1>1, <1>4, <4>2 DEF JniEntryInv
      <4>4. s < x \/ s >= count[k.table]
        BY <4>1, <4>2
      <4> QED BY <2>2, <3>1, <4>1, <4>3, <4>4, <1>4
    <3>3. CASE look'[t].at # "grow"
      <4>1. look'[t] = [at |-> "search", key |-> k, i |-> x + 1] /\ entries[k.table][x] # JniRec(k)
        BY <2>2, <3>3, <1>6, <1>2, <1>3, <1>1 DEF Jni!NoLook, JniTypeOK
      <4>2. s < x \/ s = x
        BY <2>2, <4>1
      <4> QED BY <2>2, <3>1, <4>1, <4>2
    <3> QED BY <3>2, <3>3
  <2> QED BY <2>1, <2>2
<1>15. CASE ids' = ids
  <2>1. JniIdInv'
    BY <1>1, <1>3, <1>8, <1>15 DEF JniIdInv
  <2>2. JniFirstInv'
    BY <1>1, <1>3, <1>8, <1>13, <1>15 DEF JniFirstInv
  <2> QED BY <2>1, <2>2, <1>7, <1>9, <1>10, <1>11, <1>12, <1>14 DEF JniIInv
<1>16. CASE /\ x < count[k.table] /\ entries[k.table][x] = JniRec(k)
            /\ ids' = ids \cup {<<k, x>>} /\ look' = [look EXCEPT ![t] = Jni!NoLook]
  <2>1. ASSUME k.table \notin overlapped
        PROVE  /\ x \in 0..MaxLookups /\ entries[k.table][x].name = Cut[k.name]
               /\ \A u \in Pair : JniFills(u) /\ Jni!TableOf(u) = k.table /\ look[u].i = x => Jni!In(u, "static")
    <3>1. x \in 0..MaxLookups
      <4>1. count[k.table] <= MaxLookups /\ count[k.table] \in Nat /\ MaxLookups \in Nat
        BY <2>1, <1>1, <1>4, JniRoomLeft, JniLookupsNat
      <4> QED BY <4>1, <1>16
    <3>2. entries[k.table][x].name = k.name /\ k.name # ""
      BY <1>16, JniRecNotBlank
    <3>3. PICK j \in Keys : entries[k.table][x].name = Cut[j.name]
      BY <1>1, <1>4, <3>1, <3>2 DEF JniEntryInv
    <3>4. Cut[k.name] = k.name
      BY <3>2, <3>3, RegistryAssumption
    <3>5. ASSUME NEW u \in Pair, JniFills(u), Jni!TableOf(u) = k.table, look[u].i = x PROVE Jni!In(u, "static")
      <4>1. entries[k.table][x] # Jni!Blank /\ entries[k.table][x].signature # ""
        BY <1>16, JniRecNotBlank
      <4> QED BY <4>1, <3>5, <2>1, <1>1 DEF JniFillInv
    <3> QED BY <3>1, <3>2, <3>4, <3>5
  <2>2. JniIdInv'
    <3> SUFFICES ASSUME NEW pair \in ids \cup {<<k, x>>}, pair[1].table \notin overlapped
                 PROVE  /\ pair[2] < count[pair[1].table]
                        /\ entries[pair[1].table][pair[2]].name = Cut[pair[1].name]
                        /\ \A u \in Pair : JniFills(u)' /\ Jni!TableOf(u)' = pair[1].table /\ look'[u].i = pair[2]
                                => look'[u].at = "static"
      BY <1>3, <1>16 DEF JniIdInv
    <3>1. CASE pair \in ids
      BY <3>1, <1>1, <1>8 DEF JniIdInv
    <3>2. CASE pair = <<k, x>>
      BY <3>2, <2>1, <1>8, <1>16
    <3> QED BY <3>1, <3>2
  <2>3. JniFirstInv'
    <3> SUFFICES ASSUME NEW pair \in ids \cup {<<k, x>>}, JniGood(pair[1])
                 PROVE  /\ entries[pair[1].table][pair[2]] = JniRec(pair[1])
                        /\ \A s \in 0..MaxLookups : s < pair[2] => entries[pair[1].table][s] # JniRec(pair[1])
                        /\ \A u \in Pair :
                              JniFills(u)' /\ Jni!Alike(look'[u].key, pair[1]) => look'[u].i > pair[2]
      BY <1>3, <1>13, <1>16 DEF JniFirstInv
    <3>1. CASE pair \in ids
      BY <3>1, <1>1, <1>8 DEF JniFirstInv
    <3>2. CASE pair = <<k, x>>
      <4>1. \A s \in 0..MaxLookups : s < x => entries[k.table][s] # JniRec(k)
        BY <3>2, <1>1, <1>2 DEF JniPassedInv
      <4>2. ASSUME NEW u \in Pair, JniFills(u)', Jni!Alike(look'[u].key, k) PROVE FALSE
        <5>1. u # t /\ look'[u] = look[u] /\ Jni!Alike(k, look[u].key) /\ look[u].at # "guest"
          BY <4>2, <1>8 DEF Jni!Alike
        <5>2. k \in contended
          BY <5>1, <1>1, <1>2 DEF JniAlikeInv
        <5> QED BY <5>2, <3>2 DEF JniGood
      <4> QED BY <3>2, <4>1, <4>2, <1>16
    <3> QED BY <3>1, <3>2
  <2> QED BY <2>2, <2>3, <1>7, <1>9, <1>10, <1>11, <1>12, <1>14 DEF JniIInv
<1> QED BY <1>3, <1>15, <1>16

(* The table is not full: the thread grows it.                             *)
LEMMA JniGrowKeeps ==
    ASSUME JniIInv, NEW t \in Pair, Jni!Grow(t)
    PROVE  JniIInv'
<1>1. JniTypeOK /\ JniGrowInv /\ JniFillInv /\ JniEntryInv /\ JniIdInv /\ JniAlikeInv /\ JniPassedInv /\ JniFirstInv
  BY DEF JniIInv
<1> USE DEF Jni!In, Jni!KeyOf, Jni!TableOf, JniBusy, JniFills
<1>2. PICK k \in Keys : look[t].at = "grow" /\ look[t].key = k
  BY <1>1 DEF Jni!Grow, JniTypeOK
<1>3. /\ count[k.table] # Capacity[k.table] /\ look' = [look EXCEPT ![t].at = "claim"]
      /\ overlapped' = IF Jni!Growing(k.table) = {} THEN overlapped ELSE overlapped \cup {k.table}
      /\ UNCHANGED <<entries, count, ids, lookups, contended>>
  BY <1>2 DEF Jni!Grow, Jni!GoTo
<1>4. overlapped \subseteq overlapped' /\ k.table \in Jni!Tables
  BY <1>3, JniRecNotBlank
<1>5. /\ \A u \in Pair \ {t} : look'[u] = look[u]
      /\ look'[t].at = "claim" /\ look'[t].key = k /\ look'[t].i = look[t].i
  BY <1>1, <1>2, <1>3 DEF JniTypeOK
<1>6. JniTypeOK'
  <2>1. look' \in [Pair -> [at : {"guest", "search", "grow", "claim", "store",
                                     "name", "signature", "static"},
                               key : Keys \cup {None}, i : Nat]]
    BY <1>1, <1>3 DEF JniTypeOK
  <2>2. \A u \in Pair : look'[u].at # "guest" => look'[u].key \in Keys
    BY <1>1, <1>5 DEF JniTypeOK
  <2> QED BY <1>1, <1>3, <2>1, <2>2 DEF JniTypeOK
<1>7. \A u \in Pair :
         /\ look'[u].at \in {"store", "name", "signature", "static"} => u # t /\ look'[u] = look[u]
         /\ look'[u].at # "guest" => look[u].at # "guest" /\ look'[u].key = look[u].key
  BY <1>2, <1>5
<1>8. JniGrowInv'
  <2> SUFFICES ASSUME NEW table \in Jni!Tables, table \notin overlapped'
               PROVE  /\ count[table] <= Capacity[table]
                      /\ IsFiniteSet(JniPending(table)')
                      /\ count[table] + Cardinality(JniPending(table)') <= lookups
                      /\ \A u \in Jni!Growing(table)' :
                            /\ count[table] < Capacity[table]
                            /\ look'[u].at = "store" => look'[u].i = count[table]
                            /\ \A v \in Jni!Growing(table)' : v = u
    BY <1>3 DEF JniGrowInv
  <2>1. JniPending(table)' = JniPending(table)
    BY <1>2, <1>5 DEF JniPending
  <2>2. /\ count[table] <= Capacity[table] /\ count[table] \in Nat /\ Capacity[table] \in Nat
        /\ IsFiniteSet(JniPending(table)) /\ count[table] + Cardinality(JniPending(table)) <= lookups
    BY <1>1, <1>4, JniLookupsNat, RegistryAssumption DEF JniGrowInv
  <2>3. CASE table # k.table
    <3>1. \A u \in Jni!Growing(table)' : u \in Jni!Growing(table) /\ look'[u] = look[u]
      BY <2>3, <1>5 DEF Jni!Growing
    <3> QED BY <2>1, <2>2, <3>1, <1>1, <1>4 DEF JniGrowInv
  <2>4. CASE table = k.table
    <3>1. Jni!Growing(k.table) = {}
      BY <2>4, <1>3
    <3>2. \A u \in Jni!Growing(table)' : u = t
      BY <2>4, <3>1, <1>5 DEF Jni!Growing
    <3>3. count[table] < Capacity[table]
      BY <2>2, <2>4, <1>3
    <3> QED BY <2>1, <2>2, <3>2, <3>3, <1>5
  <2> QED BY <2>3, <2>4
<1>9. JniFillInv'
  BY <1>1, <1>3, <1>4, <1>7, JniFillKept
<1>10. JniEntryInv'
  BY <1>1, <1>3, <1>4 DEF JniEntryInv
<1>11. JniIdInv'
  BY <1>1, <1>3, <1>4, <1>7, JniIdKept
<1>12. JniAlikeInv'
  BY <1>1, <1>3, <1>7, JniAlikeKept
<1>13. \A j : JniGood(j)' => JniGood(j)
  BY <1>3, <1>4 DEF JniGood
<1>14. JniPassedInv'
  BY <1>1, <1>3, <1>13, <1>2, <1>5, JniPassedKept
<1>15. JniFirstInv'
  BY <1>1, <1>3, <1>7, <1>13 DEF JniFirstInv
<1> QED BY <1>6, <1>8, <1>9, <1>10, <1>11, <1>12, <1>14, <1>15 DEF JniIInv

LEMMA JniClaimKeeps ==
    ASSUME JniIInv, NEW t \in Pair, Jni!Claim(t)
    PROVE  JniIInv'
<1>1. JniTypeOK /\ JniGrowInv /\ JniFillInv /\ JniEntryInv /\ JniIdInv /\ JniAlikeInv /\ JniPassedInv /\ JniFirstInv
  BY DEF JniIInv
<1> USE DEF Jni!In, Jni!KeyOf, Jni!TableOf, JniBusy, JniFills
<1>2. PICK k \in Keys : look[t].at = "claim" /\ look[t].key = k
  BY <1>1 DEF Jni!Claim, JniTypeOK
<1>3. /\ look' = [look EXCEPT ![t].at = "store", ![t].i = count[k.table]]
      /\ UNCHANGED <<entries, count, ids, lookups, contended, overlapped>>
  BY <1>2 DEF Jni!Claim
<1>4. k.table \in Jni!Tables /\ count[k.table] \in Nat
  BY <1>1, JniRecNotBlank, JniLookupsNat
<1>5. /\ \A u \in Pair \ {t} : look'[u] = look[u]
      /\ look'[t].at = "store" /\ look'[t].key = k /\ look'[t].i = count[k.table]
  BY <1>1, <1>2, <1>3 DEF JniTypeOK
<1>6. JniTypeOK'
  <2>1. look' \in [Pair -> [at : {"guest", "search", "grow", "claim", "store",
                                     "name", "signature", "static"},
                               key : Keys \cup {None}, i : Nat]]
    BY <1>1, <1>3, <1>4 DEF JniTypeOK
  <2>2. \A u \in Pair : look'[u].at # "guest" => look'[u].key \in Keys
    BY <1>1, <1>5 DEF JniTypeOK
  <2> QED BY <1>1, <1>3, <2>1, <2>2 DEF JniTypeOK
<1>7. \A u \in Pair :
         /\ look'[u].at \in {"name", "signature", "static"} => u # t /\ look'[u] = look[u]
         /\ look'[u].at # "guest" => look[u].at # "guest" /\ look'[u].key = look[u].key
  BY <1>2, <1>5
<1>8. JniGrowInv'
  <2>1. \A table : JniPending(table)' = JniPending(table) /\ Jni!Growing(table)' = Jni!Growing(table)
    BY <1>2, <1>5 DEF JniPending, Jni!Growing
  <2>2. \A table \in Jni!Tables \ overlapped : \A u \in Jni!Growing(table) :
           look'[u].at = "store" => look'[u].i = count[table]
    <3> SUFFICES ASSUME NEW table \in Jni!Tables \ overlapped, NEW u \in Jni!Growing(table),
                        look'[u].at = "store"
                 PROVE  look'[u].i = count[table]
      OBVIOUS
    <3>1. CASE u = t
      BY <3>1, <1>2, <1>5 DEF Jni!Growing
    <3>2. CASE u # t
      BY <3>2, <1>1, <1>5 DEF Jni!Growing, JniGrowInv
    <3> QED BY <3>1, <3>2
  <2> QED BY <2>1, <2>2, <1>1, <1>3 DEF JniGrowInv
<1>9. JniFillInv'
  BY <1>1, <1>3, <1>7, JniFillKept
<1>10. JniEntryInv'
  BY <1>1, <1>3 DEF JniEntryInv
<1>11. JniIdInv'
  BY <1>1, <1>3, <1>7, JniIdKept
<1>12. JniAlikeInv'
  BY <1>1, <1>3, <1>7, JniAlikeKept
<1>13. \A j : JniGood(j)' => JniGood(j)
  BY <1>3 DEF JniGood
<1>14. JniPassedInv'
  BY <1>1, <1>3, <1>13, <1>2, <1>5, JniPassedKept
<1>15. JniFirstInv'
  BY <1>1, <1>3, <1>7, <1>13 DEF JniFirstInv
<1> QED BY <1>6, <1>8, <1>9, <1>10, <1>11, <1>12, <1>14, <1>15 DEF JniIInv

(* The count is stored: the thread has an entry to fill.                   *)
LEMMA JniStoreKeeps ==
    ASSUME JniIInv, NEW t \in Pair, Jni!Store(t)
    PROVE  JniIInv'
<1>1. JniTypeOK /\ JniGrowInv /\ JniFillInv /\ JniEntryInv /\ JniIdInv /\ JniAlikeInv /\ JniPassedInv /\ JniFirstInv
  BY DEF JniIInv
<1> USE DEF Jni!In, Jni!KeyOf, Jni!TableOf, JniBusy, JniFills
<1>2. PICK k \in Keys, x \in Nat : look[t].at = "store" /\ look[t].key = k /\ look[t].i = x
  BY <1>1 DEF Jni!Store, JniTypeOK
<1>3. /\ count' = [count EXCEPT ![k.table] = x + 1] /\ look' = [look EXCEPT ![t].at = "name"]
      /\ UNCHANGED <<entries, ids, lookups, contended, overlapped>>
  BY <1>2 DEF Jni!Store, Jni!GoTo
<1>4. k.table \in Jni!Tables /\ JniRec(k) # Jni!Blank
  BY JniRecNotBlank
<1>5. /\ \A u \in Pair \ {t} : look'[u] = look[u]
      /\ look'[t].at = "name" /\ look'[t].key = k /\ look'[t].i = x
  BY <1>1, <1>2, <1>3 DEF JniTypeOK
<1>6. /\ \A table \in Jni!Tables \ {k.table} : count'[table] = count[table]
      /\ count'[k.table] = x + 1 /\ count' \in [Jni!Tables -> Nat]
  BY <1>1, <1>3, <1>4 DEF JniTypeOK
<1>7. ASSUME k.table \notin overlapped
      PROVE  /\ x = count[k.table] /\ count[k.table] < Capacity[k.table]
             /\ Jni!Growing(k.table) = {t} /\ x + 1 <= MaxLookups
  <2>1. t \in Jni!Growing(k.table)
    BY <1>2 DEF Jni!Growing
  <2>2. x = count[k.table]
    BY <1>7, <2>1, <1>1, <1>2, <1>4 DEF JniGrowInv
  <2>3. count[k.table] < Capacity[k.table] /\ Jni!Growing(k.table) = {t}
    BY <1>7, <2>1, <1>1, <1>4 DEF JniGrowInv
  <2>4. count[k.table] + 1 <= MaxLookups
    BY <1>7, <1>1, <1>2, <1>4, JniRoomLeft
  <2> QED BY <2>2, <2>3, <2>4
<1>8. JniTypeOK'
  <2>1. look' \in [Pair -> [at : {"guest", "search", "grow", "claim", "store",
                                     "name", "signature", "static"},
                               key : Keys \cup {None}, i : Nat]]
    BY <1>1, <1>3 DEF JniTypeOK
  <2>2. \A u \in Pair : look'[u].at # "guest" => look'[u].key \in Keys
    BY <1>1, <1>5 DEF JniTypeOK
  <2> QED BY <1>1, <1>3, <1>6, <2>1, <2>2 DEF JniTypeOK
<1>9. \A u \in Pair \ {t} : look'[u] = look[u]
  BY <1>5
<1>10. JniGrowInv'
  <2> SUFFICES ASSUME NEW table \in Jni!Tables \ overlapped
               PROVE  /\ count'[table] <= Capacity[table]
                      /\ IsFiniteSet(JniPending(table)')
                      /\ count'[table] + Cardinality(JniPending(table)') <= lookups
                      /\ \A u \in Jni!Growing(table)' :
                            /\ count'[table] < Capacity[table]
                            /\ look'[u].at = "store" => look'[u].i = count'[table]
                            /\ \A v \in Jni!Growing(table)' : v = u
    BY <1>3 DEF JniGrowInv
  <2>1. /\ IsFiniteSet(JniPending(table)) /\ count[table] + Cardinality(JniPending(table)) <= lookups
        /\ count[table] \in Nat /\ lookups \in Nat /\ Capacity[table] \in Nat
        /\ count[table] <= Capacity[table]
    BY <1>1, JniLookupsNat, RegistryAssumption DEF JniGrowInv
  <2>2. CASE table # k.table
    <3>1. JniPending(table)' = JniPending(table)
      BY <2>2, <1>2, <1>5 DEF JniPending
    <3>2. \A u \in Jni!Growing(table)' : u \in Jni!Growing(table) /\ look'[u] = look[u]
      BY <2>2, <1>5 DEF Jni!Growing
    <3> QED BY <2>1, <2>2, <3>1, <3>2, <1>1, <1>6 DEF JniGrowInv
  <2>3. CASE table = k.table
    <3>1. t \in JniPending(table) /\ JniPending(table)' = JniPending(table) \ {t}
      BY <2>3, <1>2, <1>5 DEF JniPending
    <3>2. /\ IsFiniteSet(JniPending(table)') /\ Cardinality(JniPending(table)') = Cardinality(JniPending(table)) - 1
          /\ Cardinality(JniPending(table)) \in Nat
      BY <2>1, <3>1, FS_RemoveElement, FS_CardinalityType
    <3>3. Jni!Growing(table)' = {}
      BY <2>3, <1>5, <1>7 DEF Jni!Growing
    <3>4. count'[table] = count[table] + 1 /\ count[table] < Capacity[table]
      BY <2>3, <1>6, <1>7
    <3> QED BY <2>1, <3>2, <3>3, <3>4
  <2> QED BY <2>2, <2>3
<1>11. \A table \in Jni!Tables \ overlapped : count[table] <= count'[table]
  <2> SUFFICES ASSUME NEW table \in Jni!Tables \ overlapped PROVE count[table] <= count'[table]
    OBVIOUS
  <2>1. count[table] \in Nat
    BY <1>1, JniLookupsNat
  <2>2. CASE table = k.table
    BY <2>1, <2>2, <1>6, <1>7
  <2>3. CASE table # k.table
    BY <2>1, <2>3, <1>6
  <2> QED BY <2>2, <2>3
<1>12. JniFillInv'
  <2> SUFFICES ASSUME NEW u \in Pair, JniFills(u)', look'[u].key.table \notin overlapped
               PROVE  /\ look'[u].i < count'[look'[u].key.table]
                      /\ \A v \in Pair : JniFills(v)' /\ look'[v].key.table = look'[u].key.table
                                            /\ look'[v].i = look'[u].i => v = u
                      /\ LET entry == entries[look'[u].key.table][look'[u].i]
                         IN  /\ look'[u].at = "name" => entry = Jni!Blank
                             /\ look'[u].at = "signature" =>
                                   entry.name = Cut[look'[u].key.name] /\ entry.signature = ""
                             /\ look'[u].at = "static" =>
                                   /\ entry.name = Cut[look'[u].key.name]
                                   /\ entry.signature = CutSignature[look'[u].key.table][look'[u].key.signature]
    BY <1>3 DEF JniFillInv
  <2>1. \A v \in Pair \ {t} : JniFills(v) /\ Jni!TableOf(v) \notin overlapped =>
           /\ look[v].i < count[Jni!TableOf(v)] /\ Jni!TableOf(v) \in Jni!Tables
           /\ count[Jni!TableOf(v)] \in Nat /\ look[v].i \in Nat
    <3>1. \A v \in Pair \ {t} : JniFills(v) => Jni!KeyOf(v) \in Keys /\ look[v].i \in Nat
      BY <1>1 DEF JniTypeOK
    <3> QED BY <3>1, <1>1, JniRecNotBlank, JniLookupsNat DEF JniFillInv
  <2>2. CASE u = t
    <3>1. k.table \notin overlapped /\ x = count[k.table] /\ x \in 0..MaxLookups
      <4>1. k.table \notin overlapped /\ x = count[k.table] /\ x + 1 <= MaxLookups
        BY <2>2, <1>5, <1>7
      <4> QED BY <4>1, <1>1, JniLookupsNat
    <3>2. entries[k.table][x] = Jni!Blank
      <4>1. x >= count[k.table]
        BY <3>1
      <4> QED BY <3>1, <4>1, <1>1, <1>4 DEF JniEntryInv
    <3>3. \A v \in Pair \ {t} : JniFills(v) /\ Jni!TableOf(v) = k.table => look[v].i # x
      BY <2>1, <3>1
    <3> QED BY <2>2, <3>1, <3>2, <3>3, <1>5, <1>6
  <2>3. CASE u # t
    <3>1. look'[u] = look[u] /\ JniFills(u) /\ Jni!TableOf(u) \in Jni!Tables
      BY <2>1, <2>3, <1>5
    <3>2. look[u].i < count'[Jni!TableOf(u)]
      <4>1. count[Jni!TableOf(u)] <= count'[Jni!TableOf(u)] /\ count'[Jni!TableOf(u)] \in Nat
        BY <2>3, <3>1, <1>6, <1>11
      <4> QED BY <2>1, <2>3, <3>1, <4>1
    <3>3. ASSUME NEW v \in Pair, JniFills(v)', look'[v].key.table = look[u].key.table, look'[v].i = look[u].i
          PROVE  v = u
      <4>1. CASE v = t
        <5>1. look[u].i = x /\ x = count[Jni!TableOf(u)]
          BY <3>1, <3>3, <4>1, <1>5, <1>7
        <5> QED BY <5>1, <2>1, <2>3, <3>1
      <4>2. CASE v # t
        <5>1. look'[v] = look[v] /\ JniFills(v) /\ Jni!TableOf(v) = Jni!TableOf(u)
          BY <3>3, <4>2, <1>5
        <5> QED BY <2>3, <3>1, <3>3, <5>1, <1>1, JniOwnEntry
      <4> QED BY <4>1, <4>2
    <3>4. Jni!TableOf(u) \notin overlapped
      BY <3>1
    <3>5. LET entry == entries[look[u].key.table][look[u].i]
          IN  /\ look[u].at = "name" => entry = Jni!Blank
              /\ look[u].at = "signature" => entry.name = Cut[look[u].key.name] /\ entry.signature = ""
              /\ look[u].at = "static" =>
                    /\ entry.name = Cut[look[u].key.name]
                    /\ entry.signature = CutSignature[look[u].key.table][look[u].key.signature]
      BY <3>1, <3>4, <1>1 DEF JniFillInv
    <3> QED BY <3>1, <3>2, <3>3, <3>5
  <2> QED BY <2>2, <2>3
<1>13. JniEntryInv'
  <2> SUFFICES ASSUME NEW table \in Jni!Tables \ overlapped, NEW s \in 0..MaxLookups, s >= count'[table]
               PROVE  entries[table][s] = Jni!Blank
    BY <1>1, <1>3 DEF JniEntryInv
  <2>1. count[table] \in Nat /\ count'[table] \in Nat /\ count[table] <= count'[table]
    BY <1>1, <1>6, <1>11, JniLookupsNat
  <2>2. s >= count[table]
    BY <2>1
  <2> QED BY <2>2, <1>1 DEF JniEntryInv
<1>14. ASSUME NEW pair \in ids, pair[1].table \notin overlapped
       PROVE  /\ pair[1] \in Keys /\ pair[2] \in Nat /\ pair[1].table \in Jni!Tables
              /\ pair[2] < count[pair[1].table] /\ count[pair[1].table] \in Nat
  <2>1. pair[1] \in Keys /\ pair[2] \in Nat
    BY <1>1 DEF JniTypeOK
  <2> QED BY <2>1, <1>14, <1>1, JniRecNotBlank, JniLookupsNat DEF JniIdInv
<1>15. JniIdInv'
  <2> SUFFICES ASSUME NEW pair \in ids, pair[1].table \notin overlapped
               PROVE  /\ pair[2] < count'[pair[1].table]
                      /\ entries[pair[1].table][pair[2]].name = Cut[pair[1].name]
                      /\ \A u \in Pair : JniFills(u)' /\ Jni!TableOf(u)' = pair[1].table /\ look'[u].i = pair[2]
                              => look'[u].at = "static"
    BY <1>3 DEF JniIdInv
  <2>1. pair[2] < count'[pair[1].table]
    <3>1. count[pair[1].table] <= count'[pair[1].table] /\ count'[pair[1].table] \in Nat
      BY <1>6, <1>11, <1>14
    <3> QED BY <3>1, <1>14
  <2>2. k.table = pair[1].table => x # pair[2]
    BY <1>7, <1>14
  <2> QED BY <2>1, <2>2, <1>1, <1>5 DEF JniIdInv
<1>16. JniAlikeInv'
  <2>1. \A u \in Pair : look'[u].at # "guest" => look[u].at # "guest" /\ look'[u].key = look[u].key
    BY <1>2, <1>5
  <2> QED BY <2>1, <1>1, <1>3, JniAlikeKept
<1>17. \A j : JniGood(j)' => JniGood(j)
  BY <1>3 DEF JniGood
<1>18. JniPassedInv'
  BY <1>1, <1>3, <1>17, <1>2, <1>5, JniPassedKept
<1>19. JniFirstInv'
  <2> SUFFICES ASSUME NEW pair \in ids, JniGood(pair[1])
               PROVE  \A u \in Pair : JniFills(u)' /\ Jni!Alike(look'[u].key, pair[1]) => look'[u].i > pair[2]
    BY <1>1, <1>3, <1>17 DEF JniFirstInv
  <2>1. Jni!Alike(k, pair[1]) => x > pair[2]
    <3>1. Jni!Alike(k, pair[1]) => k.table = pair[1].table
      BY DEF Jni!Alike
    <3> QED BY <3>1, <1>7, <1>14 DEF JniGood
  <2> QED BY <2>1, <1>1, <1>5 DEF JniFirstInv
<1> QED BY <1>8, <1>10, <1>12, <1>13, <1>15, <1>16, <1>18, <1>19 DEF JniIInv

EntryType == [name : JniTexts, signature : JniTexts, static : BOOLEAN]

(* The entry is filled field by field; with the last one the id returns.   *)
LEMMA JniFillKeeps ==
    ASSUME JniIInv, NEW t \in Pair, Jni!Fill(t)
    PROVE  JniIInv'
<1>1. JniTypeOK /\ JniGrowInv /\ JniFillInv /\ JniEntryInv /\ JniIdInv /\ JniAlikeInv /\ JniPassedInv /\ JniFirstInv
  BY DEF JniIInv
<1> USE DEF Jni!In, Jni!KeyOf, Jni!TableOf, JniBusy, JniFills
<1>2. PICK k \in Keys, x \in Nat :
         look[t].at \in {"name", "signature", "static"} /\ look[t].key = k /\ look[t].i = x
  BY <1>1 DEF Jni!Fill, JniTypeOK
<1>3. k.table \in Jni!Tables /\ k.static \in BOOLEAN
  BY JniRecNotBlank, RegistryAssumption
<1>4. /\ UNCHANGED <<count, lookups, contended, overlapped>>
      /\ \/ /\ look[t].at = "name" /\ look' = [look EXCEPT ![t].at = "signature"] /\ UNCHANGED ids
            /\ entries' = [entries EXCEPT ![k.table][x]["name"] = Cut[k.name]]
         \/ /\ look[t].at = "signature" /\ look' = [look EXCEPT ![t].at = "static"] /\ UNCHANGED ids
            /\ entries' = [entries EXCEPT ![k.table][x]["signature"] = CutSignature[k.table][k.signature]]
         \/ /\ look[t].at = "static" /\ look' = [look EXCEPT ![t] = Jni!NoLook]
            /\ ids' = ids \cup {<<k, x>>}
            /\ entries' = [entries EXCEPT ![k.table][x]["static"] = k.static]
  BY <1>2 DEF Jni!Fill, Jni!Write, Jni!GoTo, Jni!Answer
<1>5. /\ \A u \in Pair \ {t} : look'[u] = look[u]
      /\ look[t].at \in {"name", "signature"} =>
            /\ look'[t].at = IF look[t].at = "name" THEN "signature" ELSE "static"
            /\ look'[t].key = k /\ look'[t].i = x
      /\ look[t].at = "static" => look'[t].at = "guest"
  <2>1. look[t].at = "name" =>
           look'[t].at = "signature" /\ look'[t].key = k /\ look'[t].i = x
    BY <1>1, <1>2, <1>4 DEF JniTypeOK
  <2>2. look[t].at = "signature" =>
           look'[t].at = "static" /\ look'[t].key = k /\ look'[t].i = x
    BY <1>1, <1>2, <1>4 DEF JniTypeOK
  <2>3. look[t].at = "static" => look'[t].at = "guest"
    BY <1>1, <1>2, <1>4 DEF JniTypeOK, Jni!NoLook
  <2>4. \A u \in Pair \ {t} : look'[u] = look[u]
    BY <1>1, <1>4 DEF JniTypeOK
  <2> QED BY <2>1, <2>2, <2>3, <2>4
\* What is written, and where.
<1>6. /\ entries' \in [Jni!Tables -> [0..MaxLookups -> EntryType]]
      /\ \A other \in Jni!Tables, s \in 0..MaxLookups :
            other # k.table \/ s # x => entries'[other][s] = entries[other][s]
      /\ x \in 0..MaxLookups =>
            /\ entries'[k.table][x] \in EntryType /\ entries[k.table][x] \in EntryType
            /\ entries'[k.table][x].name =
                  IF look[t].at = "name" THEN Cut[k.name] ELSE entries[k.table][x].name
            /\ entries'[k.table][x].signature =
                  IF look[t].at = "signature" THEN CutSignature[k.table][k.signature]
                  ELSE entries[k.table][x].signature
            /\ entries'[k.table][x].static =
                  IF look[t].at = "static" THEN k.static ELSE entries[k.table][x].static
  <2>1. PICK field \in {"name", "signature", "static"} : field = look[t].at
    BY <1>4
  <2>2. PICK v :
           /\ field = look[t].at
           /\ v = IF field = "name" THEN Cut[k.name]
                  ELSE IF field = "signature" THEN CutSignature[k.table][k.signature] ELSE k.static
           /\ entries' = [entries EXCEPT ![k.table][x][field] = v]
    BY <2>1, <1>4
  <2>3. IF field = "static" THEN v \in BOOLEAN ELSE v \in JniTexts
    BY <2>2, <1>3, JniTextsOf
  <2>4. entries \in [Jni!Tables -> [0..MaxLookups -> EntryType]]
    BY <1>1 DEF JniTypeOK, EntryType
  <2>5. CASE x \notin 0..MaxLookups
    <3>1. PICK row \in [0..MaxLookups -> EntryType] : row = entries[k.table]
      BY <2>4, <1>3
    <3>2. [row EXCEPT ![x][field] = v] = row
      BY <2>5
    <3>3. entries' = [entries EXCEPT ![k.table] = row]
      BY <2>2, <3>1, <3>2
    <3>4. entries' = entries
      BY <2>4, <3>1, <3>3, <1>3
    <3> QED BY <2>4, <2>5, <3>4
  <2>6. CASE x \in 0..MaxLookups
    <3> DEFINE r == [entries[k.table][x] EXCEPT ![field] = v]
    <3>1. entries[k.table][x] \in EntryType
      BY <2>4, <2>6, <1>3
    <3>2. r \in EntryType
      BY <2>3, <3>1 DEF EntryType
    <3>3. /\ r.name = IF field = "name" THEN v ELSE entries[k.table][x].name
          /\ r.signature = IF field = "signature" THEN v ELSE entries[k.table][x].signature
          /\ r.static = IF field = "static" THEN v ELSE entries[k.table][x].static
      BY <3>1 DEF EntryType
    <3>4. entries' = [entries EXCEPT ![k.table][x] = r]
      BY <2>2, <2>4, <2>6, <1>3
    <3> HIDE DEF r
    <3>5. entries' \in [Jni!Tables -> [0..MaxLookups -> EntryType]] /\ entries'[k.table][x] = r
      BY <2>4, <2>6, <3>2, <3>4, <1>3
    <3>6. \A other \in Jni!Tables, s \in 0..MaxLookups :
             other # k.table \/ s # x => entries'[other][s] = entries[other][s]
      BY <2>4, <2>6, <3>2, <3>4, <1>3
    <3> QED BY <2>2, <3>1, <3>2, <3>3, <3>5, <3>6
  <2> QED BY <2>5, <2>6
<1>7. \A table \in Jni!Tables, s \in 0..MaxLookups : entries[table][s] \in EntryType
  <2>1. entries \in [Jni!Tables -> [0..MaxLookups -> EntryType]]
    BY <1>1 DEF JniTypeOK, EntryType
  <2> QED BY <2>1
<1>8. ASSUME k.table \notin overlapped
      PROVE  /\ x \in 0..MaxLookups /\ x < count[k.table] /\ count[k.table] \in Nat
             /\ entries'[k.table][x].name = Cut[k.name]
             /\ look[t].at = "name" => entries[k.table][x] = Jni!Blank /\ entries'[k.table][x].signature = ""
             /\ look[t].at = "signature" =>
                   /\ entries[k.table][x].signature = ""
                   /\ entries'[k.table][x].signature = CutSignature[k.table][k.signature]
             /\ look[t].at = "static" =>
                   /\ entries[k.table][x].name = Cut[k.name]
                   /\ entries[k.table][x].signature = CutSignature[k.table][k.signature]
                   /\ entries'[k.table][x] =
                         [name |-> Cut[k.name], signature |-> CutSignature[k.table][k.signature], static |-> k.static]
  <2>1. /\ x < count[k.table] /\ count[k.table] \in Nat /\ count[k.table] <= MaxLookups
        /\ MaxLookups \in Nat
    BY <1>8, <1>1, <1>2, <1>3, JniRoomLeft, JniLookupsNat DEF JniFillInv
  <2>2. x \in 0..MaxLookups
    BY <2>1
  <2>3. /\ look[t].at = "name" => entries[k.table][x] = Jni!Blank
        /\ look[t].at = "signature" =>
              entries[k.table][x].name = Cut[k.name] /\ entries[k.table][x].signature = ""
        /\ look[t].at = "static" =>
              /\ entries[k.table][x].name = Cut[k.name]
              /\ entries[k.table][x].signature = CutSignature[k.table][k.signature]
    BY <1>8, <1>1, <1>2 DEF JniFillInv
  <2>4. /\ entries'[k.table][x].name = Cut[k.name]
        /\ look[t].at = "signature" => entries'[k.table][x].signature = CutSignature[k.table][k.signature]
        /\ look[t].at = "static" => entries'[k.table][x].signature = CutSignature[k.table][k.signature]
    BY <2>2, <2>3, <1>2, <1>6
  <2>5. look[t].at = "name" => entries'[k.table][x].signature = ""
    <3>1. Jni!Blank.signature = ""
      BY DEF Jni!Blank
    <3> QED BY <2>2, <2>3, <3>1, <1>6
  <2>6. look[t].at = "static" =>
           entries'[k.table][x] =
              [name |-> Cut[k.name], signature |-> CutSignature[k.table][k.signature], static |-> k.static]
    BY <2>2, <2>4, <1>6 DEF EntryType
  <2> QED BY <2>1, <2>2, <2>3, <2>4, <2>5, <2>6
\* An entry that comes to stand for a key is filled for one alike.
<1>9. ASSUME NEW j \in Keys, JniGood(j), j.table = k.table, entries'[k.table][x] = JniRec(j)
      PROVE  Jni!Alike(k, j) /\ look[t].at # "name"
  <2>1. /\ k.table \notin overlapped /\ Cut[j.name] = j.name
        /\ CutSignature[j.table][j.signature] = j.signature
    BY <1>9 DEF JniGood, Jni!Fits
  <2>2. entries'[k.table][x].name = j.name /\ entries'[k.table][x].signature = j.signature /\ j.signature # ""
    BY <1>9, JniRecNotBlank
  <2>3. look[t].at # "name"
    BY <2>1, <2>2, <1>8
  <2>4. Cut[k.name] = Cut[j.name] /\ CutSignature[k.table][k.signature] = j.signature
    <3>1. entries'[k.table][x].name = Cut[k.name]
      BY <2>1, <1>8
    <3>2. entries'[k.table][x].signature = CutSignature[k.table][k.signature]
      <4>1. look[t].at = "signature" => entries'[k.table][x].signature = CutSignature[k.table][k.signature]
        BY <2>1, <1>8
      <4>2. look[t].at = "static" =>
               entries'[k.table][x] =
                  [name |-> Cut[k.name], signature |-> CutSignature[k.table][k.signature], static |-> k.static]
        BY <2>1, <1>8
      <4> QED BY <2>3, <4>1, <4>2, <1>2
    <3> QED BY <2>1, <2>2, <3>1, <3>2
  <2> QED BY <2>1, <2>3, <2>4, <1>9 DEF Jni!Alike
<1>10. \A j : JniGood(j)' <=> JniGood(j)
  BY <1>4 DEF JniGood
<1>11. \A u \in Pair :
          /\ look'[u].at # "guest" => look[u].at # "guest" /\ look'[u].key = look[u].key /\ look'[u].i = look[u].i
          /\ JniFills(u)' => JniFills(u)
          /\ look'[u].at \in {"search", "grow", "claim", "store"} => u # t
  BY <1>2, <1>5 DEF Jni!NoLook
<1>12. JniTypeOK'
  <2>1. look' \in [Pair -> [at : {"guest", "search", "grow", "claim", "store",
                                     "name", "signature", "static"},
                               key : Keys \cup {None}, i : Nat]]
    <3>1. CASE look' = [look EXCEPT ![t] = Jni!NoLook]
      BY <3>1, <1>1 DEF JniTypeOK, Jni!NoLook
    <3>2. ASSUME NEW place \in {"signature", "static"}, look' = [look EXCEPT ![t].at = place]
          PROVE  look' \in [Pair -> [at : {"guest", "search", "grow", "claim", "store",
                                              "name", "signature", "static"},
                                        key : Keys \cup {None}, i : Nat]]
      BY <3>2, <1>1 DEF JniTypeOK
    <3> QED BY <3>1, <3>2, <1>4
  <2>2. ids' \subseteq Keys \X Nat
    BY <1>1, <1>4 DEF JniTypeOK
  <2>3. \A u \in Pair : look'[u].at # "guest" => look'[u].key \in Keys
    BY <1>1, <1>11 DEF JniTypeOK
  <2> QED BY <1>1, <1>4, <1>6, <2>1, <2>2, <2>3 DEF JniTypeOK, EntryType
<1>13. JniGrowInv'
  <2>1. \A table : JniPending(table)' = JniPending(table) /\ Jni!Growing(table)' = Jni!Growing(table)
    BY <1>2, <1>5, <1>11 DEF JniPending, Jni!Growing
  <2>2. \A u \in Pair : look'[u].at = "store" => look'[u] = look[u]
    BY <1>5, <1>11
  <2>3. \A table : \A u \in Jni!Growing(table) : u \in Pair
    BY DEF Jni!Growing
  <2> QED BY <2>1, <2>2, <2>3, <1>1, <1>4 DEF JniGrowInv
<1>14. JniFillInv'
  <2> SUFFICES ASSUME NEW u \in Pair, JniFills(u)', look'[u].key.table \notin overlapped
               PROVE  /\ look'[u].i < count[look'[u].key.table]
                      /\ \A v \in Pair : JniFills(v)' /\ look'[v].key.table = look'[u].key.table
                                            /\ look'[v].i = look'[u].i => v = u
                      /\ LET entry == entries'[look'[u].key.table][look'[u].i]
                         IN  /\ look'[u].at = "name" => entry = Jni!Blank
                             /\ look'[u].at = "signature" =>
                                   entry.name = Cut[look'[u].key.name] /\ entry.signature = ""
                             /\ look'[u].at = "static" =>
                                   /\ entry.name = Cut[look'[u].key.name]
                                   /\ entry.signature = CutSignature[look'[u].key.table][look'[u].key.signature]
    BY <1>4 DEF JniFillInv
  <2>1. JniFills(u) /\ look'[u].key = look[u].key /\ look'[u].i = look[u].i
    BY <1>11
  <2>2. \A v \in Pair : JniFills(v)' /\ look'[v].key.table = look'[u].key.table
                           /\ look'[v].i = look'[u].i => v = u
    BY <2>1, <1>1, <1>11, JniOwnEntry
  <2>3. look'[u].i < count[look'[u].key.table]
    BY <2>1, <1>1 DEF JniFillInv
  <2>4. CASE u = t
    BY <2>1, <2>2, <2>3, <2>4, <1>2, <1>5, <1>8 DEF Jni!NoLook
  <2>5. CASE u # t
    <3>1. Jni!TableOf(u) # k.table \/ look[u].i # x
      BY <2>1, <2>5, <1>1, <1>2, JniOwnEntry
    <3>2. Jni!TableOf(u) \in Jni!Tables /\ look[u].i \in 0..MaxLookups
      <4>1. Jni!KeyOf(u) \in Keys /\ look[u].i \in Nat
        BY <2>1, <1>1 DEF JniTypeOK
      <4>2. Jni!TableOf(u) \in Jni!Tables
        BY <4>1, JniRecNotBlank
      <4>3. count[Jni!TableOf(u)] <= MaxLookups /\ count[Jni!TableOf(u)] \in Nat /\ MaxLookups \in Nat
        BY <2>1, <4>2, <1>1, JniRoomLeft, JniLookupsNat
      <4> QED BY <2>1, <2>3, <4>1, <4>2, <4>3
    <3>3. entries'[Jni!TableOf(u)][look[u].i] = entries[Jni!TableOf(u)][look[u].i] /\ look'[u] = look[u]
      BY <2>5, <3>1, <3>2, <1>5, <1>6
    <3>4. LET entry == entries[Jni!TableOf(u)][look[u].i]
          IN  /\ look[u].at = "name" => entry = Jni!Blank
              /\ look[u].at = "signature" => entry.name = Cut[Jni!KeyOf(u).name] /\ entry.signature = ""
              /\ look[u].at = "static" =>
                    /\ entry.name = Cut[Jni!KeyOf(u).name]
                    /\ entry.signature = CutSignature[Jni!TableOf(u)][Jni!KeyOf(u).signature]
      BY <2>1, <1>1 DEF JniFillInv
    <3> QED BY <2>2, <2>3, <3>3, <3>4
  <2> QED BY <2>4, <2>5
<1>15. JniEntryInv'
  <2>1. ASSUME NEW table \in Jni!Tables \ overlapped, NEW s \in 0..MaxLookups, s >= count[table]
        PROVE  entries'[table][s] = Jni!Blank
    <3>1. table = k.table /\ s = x => FALSE
      <4> SUFFICES ASSUME table = k.table, s = x PROVE FALSE
        OBVIOUS
      <4>1. x < count[k.table] /\ count[k.table] \in Nat
        BY <1>8
      <4> QED BY <2>1, <4>1
    <3>2. entries'[table][s] = entries[table][s]
      BY <3>1, <1>6
    <3> QED BY <2>1, <3>2, <1>1 DEF JniEntryInv
  <2>2. ASSUME NEW table \in Jni!Tables, NEW s \in 0..MaxLookups, entries'[table][s].name # ""
        PROVE  \E j \in Keys : entries'[table][s].name = Cut[j.name]
    <3>1. CASE table # k.table \/ s # x
      <4>1. entries'[table][s] = entries[table][s]
        BY <3>1, <1>6
      <4> QED BY <2>2, <4>1, <1>1 DEF JniEntryInv
    <3>2. CASE table = k.table /\ s = x
      <4>1. entries[k.table][x] \in EntryType
        BY <3>2, <1>7
      <4>2. entries'[k.table][x].name = entries[k.table][x].name \/ entries'[k.table][x].name = Cut[k.name]
        BY <3>2, <4>1, <1>6 DEF EntryType
      <4> QED BY <2>2, <3>2, <4>2, <1>1 DEF JniEntryInv
    <3> QED BY <3>1, <3>2
  <2> QED BY <2>1, <2>2, <1>4 DEF JniEntryInv
<1>16. ASSUME NEW pair \in ids, pair[1].table \notin overlapped
       PROVE  /\ pair[1] \in Keys /\ pair[1].table \in Jni!Tables /\ pair[2] \in 0..MaxLookups
              /\ pair[1].table = k.table /\ pair[2] = x => look[t].at = "static"
  <2>1. pair[1] \in Keys /\ pair[2] \in Nat
    BY <1>1 DEF JniTypeOK
  <2>2. pair[1].table \in Jni!Tables
    BY <2>1, JniRecNotBlank
  <2>3. /\ count[pair[1].table] <= MaxLookups /\ count[pair[1].table] \in Nat /\ MaxLookups \in Nat
        /\ pair[2] < count[pair[1].table]
    BY <2>2, <1>16, <1>1, JniRoomLeft, JniLookupsNat DEF JniIdInv
  <2> QED BY <2>1, <2>2, <2>3, <1>1, <1>2, <1>16 DEF JniIdInv
<1>17. JniIdInv'
  <2> SUFFICES ASSUME NEW pair \in ids', pair[1].table \notin overlapped
               PROVE  /\ pair[2] < count[pair[1].table]
                      /\ entries'[pair[1].table][pair[2]].name = Cut[pair[1].name]
                      /\ \A u \in Pair : JniFills(u)' /\ look'[u].key.table = pair[1].table /\ look'[u].i = pair[2]
                              => look'[u].at = "static"
    BY <1>4 DEF JniIdInv
  <2>1. CASE pair \in ids
    <3>1. entries'[pair[1].table][pair[2]].name = entries[pair[1].table][pair[2]].name
      <4>1. CASE pair[1].table = k.table /\ pair[2] = x
        BY <2>1, <4>1, <1>8, <1>16
      <4>2. CASE ~(pair[1].table = k.table /\ pair[2] = x)
        BY <2>1, <4>2, <1>6, <1>16
      <4> QED BY <4>1, <4>2
    <3>2. ASSUME NEW u \in Pair, JniFills(u)', look'[u].key.table = pair[1].table, look'[u].i = pair[2]
          PROVE  look'[u].at = "static"
      <4>1. u # t
        BY <2>1, <3>2, <1>2, <1>5, <1>11, <1>16 DEF Jni!NoLook
      <4> QED BY <2>1, <3>2, <4>1, <1>1, <1>5 DEF JniIdInv
    <3> QED BY <2>1, <3>1, <3>2, <1>1 DEF JniIdInv
  <2>2. CASE pair \notin ids
    <3>1. pair = <<k, x>> /\ look[t].at = "static"
      BY <2>2, <1>4
    <3>2. ASSUME NEW u \in Pair, JniFills(u)', look'[u].key.table = k.table, look'[u].i = x
          PROVE  FALSE
      <4>1. u # t
        BY <3>1, <3>2, <1>5 DEF Jni!NoLook
      <4> QED BY <3>1, <3>2, <4>1, <1>1, <1>2, <1>11, JniOwnEntry
    <3> QED BY <3>1, <3>2, <1>8
  <2> QED BY <2>1, <2>2
<1>18. JniAlikeInv'
  BY <1>1, <1>4, <1>11, JniAlikeKept
<1>19. JniPassedInv'
  <2> SUFFICES ASSUME NEW u \in Pair, look'[u].at # "guest", JniGood(look'[u].key),
                      NEW s \in 0..MaxLookups,
                      look'[u].at = "search" => s < look'[u].i, JniFills(u)' => s # look'[u].i
               PROVE  entries'[look'[u].key.table][s] # JniRec(look'[u].key)
    BY <1>4, <1>10 DEF JniPassedInv
  <2>1. look[u].at # "guest" /\ look'[u].key = look[u].key /\ look[u].key \in Keys
    BY <1>1, <1>11 DEF JniTypeOK
  <2>2. look[u].key.table \in Jni!Tables
    BY <2>1, JniRecNotBlank
  <2>3. CASE u = t
    <3>1. s # x
      BY <2>3, <1>2, <1>5 DEF Jni!NoLook
    <3> QED BY <2>1, <2>2, <2>3, <3>1, <1>1, <1>2, <1>6 DEF JniPassedInv
  <2>4. CASE u # t
    <3>1. entries[look[u].key.table][s] # JniRec(look[u].key)
      BY <2>1, <2>4, <1>1, <1>5 DEF JniPassedInv
    <3>2. CASE look[u].key.table # k.table \/ s # x
      BY <2>1, <2>2, <3>1, <3>2, <1>6
    <3>3. CASE look[u].key.table = k.table /\ s = x
      <4>1. ~Jni!Alike(look[u].key, k)
        BY <2>1, <2>4, <1>1, <1>2 DEF JniAlikeInv, JniGood
      <4>2. ~Jni!Alike(k, look[u].key)
        BY <4>1 DEF Jni!Alike
      <4> QED BY <2>1, <3>3, <4>2, <1>9
    <3> QED BY <3>2, <3>3
  <2> QED BY <2>3, <2>4
<1>20. JniFirstInv'
  <2> SUFFICES ASSUME NEW pair \in ids', JniGood(pair[1])
               PROVE  /\ entries'[pair[1].table][pair[2]] = JniRec(pair[1])
                      /\ \A s \in 0..MaxLookups : s < pair[2] => entries'[pair[1].table][s] # JniRec(pair[1])
                      /\ \A u \in Pair :
                            JniFills(u)' /\ Jni!Alike(look'[u].key, pair[1]) => look'[u].i > pair[2]
    BY <1>4, <1>10 DEF JniFirstInv
  <2>1. CASE pair \in ids
    <3>1. /\ pair[1] \in Keys /\ pair[1].table \in Jni!Tables /\ pair[2] \in 0..MaxLookups
          /\ pair[1].table \notin overlapped
      BY <2>1, <1>16 DEF JniGood
    <3>2. Jni!Alike(k, pair[1]) => x > pair[2]
      BY <2>1, <1>1, <1>2 DEF JniFirstInv
    <3>3. entries[pair[1].table][pair[2]] = JniRec(pair[1])
      BY <2>1, <1>1 DEF JniFirstInv
    <3>4. ~(pair[1].table = k.table /\ pair[2] = x)
      <4> SUFFICES ASSUME pair[1].table = k.table, pair[2] = x PROVE FALSE
        OBVIOUS
      <4>1. look[t].at = "static"
        BY <2>1, <3>1, <1>16
      <4>2. Cut[k.name] = pair[1].name /\ CutSignature[k.table][k.signature] = pair[1].signature
        <5>1. /\ entries[k.table][x].name = Cut[k.name]
              /\ entries[k.table][x].signature = CutSignature[k.table][k.signature]
          BY <3>1, <4>1, <1>8
        <5>2. entries[k.table][x].name = pair[1].name /\ entries[k.table][x].signature = pair[1].signature
          BY <3>1, <3>3, JniRecNotBlank
        <5> QED BY <5>1, <5>2
      <4>3. Jni!Alike(k, pair[1])
        BY <4>2, <4>1, <3>1 DEF Jni!Alike, JniGood, Jni!Fits
      <4> QED BY <3>1, <3>2, <4>3
    <3>5. entries'[pair[1].table][pair[2]] = JniRec(pair[1])
      BY <3>1, <3>3, <3>4, <1>6
    <3>6. ASSUME NEW s \in 0..MaxLookups, s < pair[2]
          PROVE  entries'[pair[1].table][s] # JniRec(pair[1])
      <4>1. entries[pair[1].table][s] # JniRec(pair[1])
        BY <2>1, <3>6, <1>1 DEF JniFirstInv
      <4>2. CASE pair[1].table # k.table \/ s # x
        BY <3>1, <4>1, <4>2, <1>6
      <4>3. CASE pair[1].table = k.table /\ s = x
        <5>1. ~(x > pair[2])
          BY <3>1, <3>6, <4>3
        <5> QED BY <3>1, <3>2, <4>3, <5>1, <1>9
      <4> QED BY <4>2, <4>3
    <3>7. \A u \in Pair : JniFills(u)' /\ Jni!Alike(look'[u].key, pair[1]) => look'[u].i > pair[2]
      BY <2>1, <1>1, <1>11 DEF JniFirstInv
    <3> QED BY <3>5, <3>6, <3>7
  <2>2. CASE pair \notin ids
    <3>1. pair = <<k, x>> /\ look[t].at = "static"
      BY <2>2, <1>4
    <3>2. /\ k.table \notin overlapped /\ Cut[k.name] = k.name /\ k \notin contended
          /\ CutSignature[k.table][k.signature] = k.signature
      BY <3>1 DEF JniGood, Jni!Fits
    <3>3. entries'[k.table][x] = JniRec(k)
      BY <3>1, <3>2, <1>8 DEF JniRec
    <3>4. \A s \in 0..MaxLookups : s < x => entries'[k.table][s] # JniRec(k)
      <4>1. \A s \in 0..MaxLookups : s < x => s # x
        OBVIOUS
      <4> QED BY <3>1, <4>1, <1>1, <1>2, <1>3, <1>6 DEF JniPassedInv
    <3>5. ASSUME NEW u \in Pair, JniFills(u)', Jni!Alike(look'[u].key, k) PROVE FALSE
      <4>1. u # t /\ look[u].at # "guest" /\ Jni!Alike(k, look[u].key)
        BY <3>1, <3>5, <1>5, <1>11 DEF Jni!NoLook, Jni!Alike
      <4> QED BY <3>2, <4>1, <1>1, <1>2 DEF JniAlikeInv
    <3> QED BY <3>1, <3>3, <3>4, <3>5
  <2> QED BY <2>1, <2>2
<1> QED BY <1>12, <1>13, <1>14, <1>15, <1>17, <1>18, <1>19, <1>20 DEF JniIInv
-----------------------------------------------------------------------------
LEMMA JniInit ==
    ASSUME Jni!Init PROVE JniIInv
<1> USE DEF Jni!Init, Jni!In, Jni!KeyOf, Jni!TableOf, JniBusy, JniFills, Jni!NoLook
<1>1. JniTypeOK
  <2>1. entries \in [Jni!Tables -> [0..MaxLookups -> [name : JniTexts, signature : JniTexts, static : BOOLEAN]]]
    BY JniBlankOk
  <2>2. look \in [Pair -> [at : {"guest", "search", "grow", "claim", "store",
                                    "name", "signature", "static"},
                              key : Keys \cup {None}, i : Nat]]
    OBVIOUS
  <2>3. \A t \in Pair : look[t].at = "guest"
    OBVIOUS
  <2>4. MaxLookups \in Nat /\ lookups = 0
    BY RegistryAssumption
  <2>5. /\ count \in [Jni!Tables -> Nat] /\ ids \subseteq Keys \X Nat /\ lookups \in 0..MaxLookups
        /\ \A t \in Pair : JniBusy(t) => Jni!KeyOf(t) \in Keys
    BY <2>3, <2>4
  <2> QED BY <2>1, <2>2, <2>5 DEF JniTypeOK
<1>2. \A table : JniPending(table) = {} /\ Jni!Growing(table) = {}
  BY DEF JniPending, Jni!Growing
<1>3. JniGrowInv
  <2>1. \A table \in Jni!Tables : count[table] = 0 /\ Capacity[table] \in Nat
    BY RegistryAssumption
  <2>2. lookups = 0 /\ IsFiniteSet({}) /\ Cardinality({}) = 0
    BY FS_EmptySet
  <2>3. ASSUME NEW table \in Jni!Tables
        PROVE  /\ count[table] <= Capacity[table]
               /\ IsFiniteSet(JniPending(table)) /\ count[table] + Cardinality(JniPending(table)) <= lookups
               /\ \A t \in Jni!Growing(table) :
                     /\ count[table] < Capacity[table]
                     /\ Jni!In(t, "store") => look[t].i = count[table]
                     /\ \A u \in Jni!Growing(table) : u = t
    <3>1. JniPending(table) = {} /\ Jni!Growing(table) = {}
      BY <1>2
    <3>2. count[table] = 0 /\ Capacity[table] \in Nat
      BY <2>1
    <3>3. count[table] <= Capacity[table]
      BY <3>2
    <3>4. IsFiniteSet(JniPending(table)) /\ count[table] + Cardinality(JniPending(table)) <= lookups
      BY <3>1, <3>2, <2>2
    <3>5. \A t : t \notin Jni!Growing(table)
      BY <3>1
    <3> QED BY <3>3, <3>4, <3>5
  <2> QED BY <2>3 DEF JniGrowInv
<1>4. JniEntryInv
  BY DEF JniEntryInv, Jni!Blank
<1>5. JniFillInv /\ JniIdInv /\ JniAlikeInv /\ JniPassedInv /\ JniFirstInv
  BY DEF JniFillInv, JniIdInv, JniAlikeInv, JniPassedInv, JniFirstInv
<1> QED BY <1>1, <1>3, <1>4, <1>5 DEF JniIInv

LEMMA JniStutter ==
    ASSUME JniIInv, UNCHANGED Jni!vars PROVE JniIInv'
<1>1. \A table : JniPending(table)' = JniPending(table) /\ Jni!Growing(table)' = Jni!Growing(table)
  BY DEF Jni!vars, JniPending, Jni!Growing, Jni!TableOf
<1>2. \A k : JniGood(k)' <=> JniGood(k)
  BY DEF Jni!vars, JniGood
<1>3. UNCHANGED <<entries, count, look, ids, lookups, contended, overlapped>>
  BY DEF Jni!vars
<1>4. (JniTypeOK /\ JniEntryInv /\ JniAlikeInv)'
  BY <1>3 DEF JniIInv, JniTypeOK, JniEntryInv, JniAlikeInv, Jni!In, Jni!KeyOf, JniBusy
<1>5. JniGrowInv'
  BY <1>1, <1>3 DEF JniIInv, JniGrowInv, Jni!In
<1>6. JniFillInv' /\ JniIdInv'
  BY <1>3, JniFillKept, JniIdKept DEF JniIInv
<1>7. JniPassedInv'
  BY <1>2, <1>3 DEF JniIInv, JniPassedInv, Jni!In, Jni!KeyOf, Jni!TableOf, JniBusy, JniFills
<1>8. JniFirstInv'
  BY <1>2, <1>3 DEF JniIInv, JniFirstInv, Jni!KeyOf, JniFills
<1> QED BY <1>4, <1>5, <1>6, <1>7, <1>8 DEF JniIInv

LEMMA JniStep ==
    ASSUME JniIInv, Jni!Next PROVE JniIInv'
<1>1. PICK t \in Pair :
        \/ \E k \in Keys : Jni!LookUpMethod(t, k) \/ Jni!LookUpField(t, k)
        \/ Jni!Search(t) \/ Jni!Grow(t) \/ Jni!Claim(t) \/ Jni!Store(t) \/ Jni!Fill(t)
  BY DEF Jni!Next
<1>2. ASSUME NEW k \in Keys, Jni!LookUp(t, k) PROVE JniIInv'
  BY <1>2, JniLookUpKeeps
<1> QED
  BY <1>1, <1>2, JniSearchKeeps, JniGrowKeeps, JniClaimKeeps, JniStoreKeeps, JniFillKeeps
     DEF Jni!LookUpMethod, Jni!LookUpField

LEMMA JniConsequences ==
    ASSUME JniIInv PROVE Jni!IdsNameTheirMethods
<1>1. JniTypeOK /\ JniGrowInv /\ JniIdInv /\ JniFirstInv
  BY DEF JniIInv
<1> SUFFICES ASSUME NEW pair \in ids, pair[1].table \notin overlapped
             PROVE  /\ pair[2] < Capacity[pair[1].table]
                    /\ Jni!Dispatched(pair[1].table, pair[2]) = Cut[pair[1].name]
                    /\ Jni!Fits(pair[1]) /\ pair[1] \notin contended =>
                          \A other \in ids : other[1] = pair[1] => other[2] = pair[2]
  BY DEF Jni!IdsNameTheirMethods
<1>2. pair[1] \in Keys /\ pair[2] \in Nat /\ pair[1].table \in Jni!Tables
  BY <1>1, JniRecNotBlank DEF JniTypeOK
<1>3. /\ pair[2] < count[pair[1].table] /\ entries[pair[1].table][pair[2]].name = Cut[pair[1].name]
      /\ count[pair[1].table] <= Capacity[pair[1].table] /\ count[pair[1].table] \in Nat
      /\ Capacity[pair[1].table] \in Nat
  BY <1>1, <1>2, JniLookupsNat, RegistryAssumption DEF JniIdInv, JniGrowInv
<1>4. ASSUME JniGood(pair[1]), NEW other \in ids, other[1] = pair[1]
      PROVE  other[2] = pair[2]
  <2>1. other[2] \in Nat /\ other[2] < count[pair[1].table]
    BY <1>1, <1>4 DEF JniTypeOK, JniIdInv
  <2>2. count[pair[1].table] <= MaxLookups /\ MaxLookups \in Nat
    BY <1>1, <1>2, JniRoomLeft, JniLookupsNat
  <2>3. pair[2] \in 0..MaxLookups /\ other[2] \in 0..MaxLookups
    BY <1>2, <1>3, <2>1, <2>2
  <2>4. ~(other[2] < pair[2]) /\ ~(pair[2] < other[2])
    BY <1>1, <1>4, <2>3 DEF JniFirstInv
  <2> QED BY <2>3, <2>4
<1> QED BY <1>2, <1>3, <1>4 DEF Jni!Dispatched, JniGood
-----------------------------------------------------------------------------
(* The OBB index (ObbIndex).                                               *)

LEMMA ObbCounts == \A S : Obb!Cardinality(S) = Cardinality(S)
  BY DEF Obb!Cardinality, Cardinality

ObbEntries == [path : Seq(STRING), directory : BOOLEAN, size : Nat]
ObbLists == [at : {"guest", "empty", "scan", "copy"}, path : Seq(STRING), i : Nat,
          names : Seq(STRING \cup {None}), alone : BOOLEAN]
ObbTypeOK ==
    /\ state \in {"unopened", "reading", "failed", "open", "closed"}
    /\ state \in {"reading", "open"} => archive \in Archives
    /\ index \in Seq(ObbEntries)
    /\ buffer \in [1..Most -> STRING \cup {None}] /\ room \in Nat
    /\ list \in [Pair -> ObbLists]
    /\ \A t \in Pair : Obb!Listing(t) =>
          list[t].i >= 1 /\ Obb!Count(t) <= Most /\ (list[t].at = "scan" => Obb!Count(t) < list[t].i)
    /\ \A t \in Pair : ~Obb!Listing(t) => Obb!Count(t) = 0

\* The index is of the archive as far as it is read.
ObbIndexInv ==
    /\ state \in {"unopened", "failed", "closed"} => index = <<>>
    /\ state = "reading" =>
          /\ Len(index) <= Len(archive.entries)
          /\ \A i \in 1..Len(index) : index[i] = archive.entries[i]
    /\ state = "open" => index = archive.entries
    /\ state \in {"unopened", "reading", "failed"} => \A t \in Pair : list[t].at = "guest"

\* A listing has room for as many names as there are entries, and has put
\* no more than that there.
ObbRoomInv ==
    state = "open" => \A t \in Pair : Obb!Listing(t) => Len(index) <= room /\ Obb!Count(t) <= Len(index)

\* Nobody else lists beside one that is alone.
ObbAloneInv ==
    \A t \in Pair : Obb!Listing(t) /\ list[t].alone => \A u \in Pair : Obb!Listing(u) => u = t

ObbChild(path, k) == index[k].path[Len(path) + 1]

\* The buffer has the children among the first n entries, each once.
ObbCollected(t, n) ==
    /\ n <= Len(index) /\ Obb!Count(t) <= n
    /\ \A j, k \in 1..Obb!Count(t) : buffer[j] = buffer[k] => j = k
    /\ \A j \in 1..Obb!Count(t) : \E k \in 1..n :
          Obb!Below(list[t].path, index[k]) /\ buffer[j] = ObbChild(list[t].path, k)
    /\ \A k \in 1..n : Obb!Below(list[t].path, index[k]) =>
          \E j \in 1..Obb!Count(t) : buffer[j] = ObbChild(list[t].path, k)

ObbListInv ==
    \A t \in Pair : Obb!Listing(t) /\ list[t].alone =>
        /\ list[t].at = "scan" => ObbCollected(t, list[t].i - 1)
        /\ list[t].at = "copy" =>
              /\ ObbCollected(t, Len(index))
              /\ \A j \in 1..Obb!Count(t) : j < list[t].i => list[t].names[j] = buffer[j]

ObbIInv == ObbTypeOK /\ ObbIndexInv /\ ObbRoomInv /\ ObbAloneInv /\ ObbListInv
-----------------------------------------------------------------------------
LEMMA Least ==
    ASSUME NEW S, S \subseteq Nat, S # {}
    PROVE  \E n \in S : \A m \in S : n <= m
<1>1. PICK n \in S : \A m \in S : ~ (<<m, n>> \in OpToRel(<, Nat))
  BY Zenon, NatLessThanWellFounded, WFMin
<1>2. \A m \in S : ~(m < n)
  BY Zenon, <1>1 DEF OpToRel
<1> QED BY <1>2
-----------------------------------------------------------------------------
LEMMA ObbListOf ==
    ASSUME ObbTypeOK, NEW t \in Pair
    PROVE  /\ list[t].at \in {"guest", "empty", "scan", "copy"} /\ list[t].path \in Seq(STRING)
           /\ list[t].i \in Nat /\ list[t].names \in Seq(STRING \cup {None})
           /\ list[t].alone \in BOOLEAN /\ Obb!Count(t) \in Nat
<1>1. list[t] \in ObbLists
  BY DEF ObbTypeOK
<1> QED BY <1>1 DEF ObbLists, Obb!Count

LEMMA ObbOpenArchive ==
    ASSUME ObbTypeOK, ObbIndexInv, state \in {"reading", "open"}
    PROVE  /\ archive \in Archives /\ archive.entries \in Seq(ObbEntries)
           /\ Len(archive.entries) <= Most /\ Len(archive.entries) \in Nat /\ Most \in Nat
           /\ Len(index) \in Nat /\ Len(index) <= Most
<1>1. archive \in Archives
  BY DEF ObbTypeOK
<1>2. archive.entries \in Seq(ObbEntries) /\ Len(archive.entries) <= Most /\ Most \in Nat
  BY <1>1, ArchiveAssumption DEF ObbEntries
<1>3. index \in Seq(ObbEntries)
  BY DEF ObbTypeOK
<1> QED BY <1>1, <1>2, <1>3 DEF ObbIndexInv

\* What a thread has collected lies in its names, the buffer and the index.
LEMMA ObbCollectedKept ==
    ASSUME NEW t \in Pair, NEW n, UNCHANGED <<index, buffer>>,
           list'[t].path = list[t].path, Obb!Count(t)' = Obb!Count(t)
    PROVE  ObbCollected(t, n)' <=> ObbCollected(t, n)
  BY DEF ObbCollected, ObbChild, Obb!Below, Obb!StartsWith

LEMMA ObbInit ==
    ASSUME Obb!Init PROVE ObbIInv
<1> USE DEF Obb!Init, Obb!NoList, Obb!Listing, Obb!Count
<1>1. Obb!NoList \in ObbLists
  BY DEF ObbLists
<1>2. ObbTypeOK
  <2>1. index \in Seq(ObbEntries) /\ buffer \in [1..Most -> STRING \cup {None}] /\ room \in Nat
    OBVIOUS
  <2>2. list \in [Pair -> ObbLists] /\ \A t \in Pair : list[t].at = "guest" /\ Len(list[t].names) = 0
    BY <1>1
  <2> QED BY <2>1, <2>2 DEF ObbTypeOK
<1>3. \A t \in Pair : list[t].at = "guest"
  OBVIOUS
<1>4. ObbIndexInv /\ ObbRoomInv /\ ObbAloneInv /\ ObbListInv
  BY <1>3 DEF ObbIndexInv, ObbRoomInv, ObbAloneInv, ObbListInv
<1> QED BY <1>2, <1>4 DEF ObbIInv

LEMMA ObbStutter ==
    ASSUME ObbIInv, UNCHANGED Obb!vars PROVE ObbIInv'
<1>1. UNCHANGED <<archive, index, state, buffer, room, list>>
  BY DEF Obb!vars
<1>2. (ObbTypeOK /\ ObbIndexInv /\ ObbRoomInv /\ ObbAloneInv)'
  BY <1>1 DEF ObbIInv, ObbTypeOK, ObbIndexInv, ObbRoomInv, ObbAloneInv, Obb!Listing, Obb!Count
<1>3. \A t \in Pair : \A n : ObbCollected(t, n)' <=> ObbCollected(t, n)
  BY <1>1, ObbCollectedKept DEF Obb!Count
<1>4. ObbListInv'
  BY <1>1, <1>3 DEF ObbIInv, ObbListInv, Obb!Listing, Obb!Count
<1> QED BY <1>2, <1>4 DEF ObbIInv

\* Opening and closing: nobody lists alone afterwards.
LEMMA ObbOpenSteps ==
    ASSUME ObbIInv, Obb!Open \/ Obb!OpenEntry \/ Obb!Close
    PROVE  ObbIInv'
<1>1. ObbTypeOK /\ ObbIndexInv /\ ObbAloneInv
  BY DEF ObbIInv
<1>2. ASSUME buffer' = [i \in 1..Most |-> None]
      PROVE  buffer' \in [1..Most -> STRING \cup {None}]
  BY <1>2
<1>3. CASE Obb!Open
  <2>1. /\ index' = <<>> /\ list' = list /\ state = "unopened"
        /\ buffer' = [i \in 1..Most |-> None]
        /\ (state' = "reading" /\ archive' \in Archives) \/ state' = "failed"
        /\ room' = 0
    BY <1>3 DEF Obb!Open, Obb!Closed
  <2>2. \A t \in Pair : list'[t].at = "guest"
    BY <2>1, <1>1 DEF ObbIndexInv
  <2>3. ObbTypeOK'
    BY <2>1, <2>2, <1>1, <1>2 DEF ObbTypeOK, Obb!Listing, Obb!Count
  <2>4. ObbIndexInv'
    <3>1. state' = "reading" => archive'.entries \in Seq(ObbEntries)
      BY <2>1, ArchiveAssumption DEF ObbEntries
    <3> QED BY <2>1, <2>2, <3>1 DEF ObbIndexInv
  <2>5. ObbRoomInv' /\ ObbAloneInv' /\ ObbListInv'
    BY <2>2 DEF ObbRoomInv, ObbAloneInv, ObbListInv, Obb!Listing
  <2> QED BY <2>3, <2>4, <2>5 DEF ObbIInv
<1>4. CASE Obb!OpenEntry
  <2>1. list' = list /\ state = "reading" /\ \A t \in Pair : list[t].at = "guest"
    BY <1>1, <1>4 DEF Obb!OpenEntry, ObbIndexInv
  <2>2. /\ archive \in Archives /\ archive.entries \in Seq(ObbEntries) /\ Len(archive.entries) \in Nat
        /\ Len(index) \in Nat /\ Len(index) <= Len(archive.entries) /\ index \in Seq(ObbEntries)
        /\ \A i \in 1..Len(index) : index[i] = archive.entries[i]
    BY <1>1, <2>1, ObbOpenArchive DEF ObbIndexInv, ObbTypeOK
  <2>3. ObbRoomInv' /\ ObbAloneInv' /\ ObbListInv'
    BY <2>1 DEF ObbRoomInv, ObbAloneInv, ObbListInv, Obb!Listing
  <2>4. CASE Len(index) + 1 > Len(archive.entries)
    <3>1. state' = "open" /\ UNCHANGED <<index, buffer, room, archive>>
      BY <1>4, <2>4 DEF Obb!OpenEntry
    <3>2. Len(index) = Len(archive.entries)
      BY <2>2, <2>4
    <3>3. index = archive.entries
      BY <2>2, <3>2
    <3>4. ObbTypeOK'
      BY <1>1, <2>1, <2>2, <3>1 DEF ObbTypeOK, Obb!Listing, Obb!Count
    <3>5. ObbIndexInv'
      BY <2>1, <3>1, <3>3 DEF ObbIndexInv
    <3> QED BY <2>3, <3>4, <3>5 DEF ObbIInv
  <2>5. CASE Len(index) + 1 <= Len(archive.entries) /\ Len(index) + 1 = archive.invalid
    <3>1. index' = <<>> /\ buffer' = [i \in 1..Most |-> None] /\ room' = 0 /\ state' = "failed"
      BY <1>4, <2>2, <2>5 DEF Obb!OpenEntry, Obb!Closed
    <3>2. ObbTypeOK'
      BY <1>1, <1>2, <2>1, <3>1 DEF ObbTypeOK, Obb!Listing, Obb!Count
    <3>3. ObbIndexInv'
      BY <2>1, <3>1 DEF ObbIndexInv
    <3> QED BY <2>3, <3>2, <3>3 DEF ObbIInv
  <2>6. CASE Len(index) + 1 <= Len(archive.entries) /\ Len(index) + 1 # archive.invalid
    <3>1. /\ index' = Append(index, archive.entries[Len(index) + 1])
          /\ state' = state /\ buffer' = buffer /\ archive' = archive /\ room' = room
      BY <1>4, <2>2, <2>6 DEF Obb!OpenEntry
    <3>2. archive.entries[Len(index) + 1] \in ObbEntries
      BY <2>2, <2>6
    <3>3. /\ index' \in Seq(ObbEntries) /\ Len(index') = Len(index) + 1
          /\ \A i \in 1..Len(index') : index'[i] = archive.entries[i]
      BY <2>2, <3>1, <3>2
    <3>4. ObbTypeOK'
      BY <1>1, <2>1, <2>2, <3>1, <3>3 DEF ObbTypeOK, Obb!Listing, Obb!Count
    <3>5. ObbIndexInv'
      BY <2>1, <2>6, <3>1, <3>3 DEF ObbIndexInv
    <3> QED BY <2>3, <3>4, <3>5 DEF ObbIInv
  <2> QED BY <2>2, <2>4, <2>5, <2>6
<1>5. CASE Obb!Close
  <2>1. /\ index' = <<>> /\ buffer' = [i \in 1..Most |-> None] /\ room' = 0 /\ state' = "closed"
        /\ list' = [t \in Pair |-> [list[t] EXCEPT !.alone = FALSE]]
    BY <1>5 DEF Obb!Close, Obb!Closed
  <2>2. \A t \in Pair :
           /\ list'[t] \in ObbLists /\ list'[t].alone = FALSE
           /\ list'[t].at = list[t].at /\ list'[t].i = list[t].i /\ list'[t].names = list[t].names
    BY <1>1, <2>1 DEF ObbTypeOK, ObbLists
  <2>3. ObbTypeOK'
    BY <1>1, <1>2, <2>1, <2>2 DEF ObbTypeOK, Obb!Listing, Obb!Count
  <2>4. ObbIndexInv' /\ ObbRoomInv' /\ ObbAloneInv' /\ ObbListInv'
    BY <2>1, <2>2 DEF ObbIndexInv, ObbRoomInv, ObbAloneInv, ObbListInv, Obb!Listing
  <2> QED BY <2>3, <2>4 DEF ObbIInv
<1> QED BY <1>3, <1>4, <1>5

\* Stripped(path) is a sequence again.
LEMMA ObbStrippedSeq ==
    ASSUME NEW path \in Seq(STRING)
    PROVE  Obb!Stripped(path) \in Seq(STRING)
<1>1. CASE Obb!Named(path) = {}
  BY <1>1 DEF Obb!Stripped
<1>2. CASE Obb!Named(path) # {}
  <2>1. Obb!Named(path) \subseteq 1..Len(path) /\ Len(path) \in Nat
    <3>1. DOMAIN path = 1..Len(path) /\ Len(path) \in Nat
      OBVIOUS
    <3> QED BY <3>1 DEF Obb!Named
  <2>2. PICK first \in Obb!Named(path) : \A m \in Obb!Named(path) : first <= m
    BY <1>2, <2>1, Least
  <2>3. PICK last \in Obb!Named(path) : \A m \in Obb!Named(path) : last >= m
    <3> DEFINE Back == {Len(path) - m : m \in Obb!Named(path)}
    <3>1. Back \subseteq Nat /\ Back # {}
      BY <1>2, <2>1
    <3>2. PICK b \in Back : \A c \in Back : b <= c
      BY <3>1, Least
    <3>3. PICK l \in Obb!Named(path) : b = Len(path) - l
      BY <3>2
    <3>4. ASSUME NEW m \in Obb!Named(path)
          PROVE  l >= m
      <4>1. Len(path) - l <= Len(path) - m
        BY <3>2, <3>3
      <4> QED BY <4>1, <2>1
    <3> QED BY <3>4
  <2> DEFINE f == CHOOSE k \in Obb!Named(path) : \A j \in Obb!Named(path) : k <= j
             g == CHOOSE k \in Obb!Named(path) : \A j \in Obb!Named(path) : k >= j
  <2>4. f \in Obb!Named(path) /\ g \in Obb!Named(path)
    BY <2>2, <2>3
  <2>5. f \in 1..Len(path) /\ g \in 1..Len(path)
    BY <2>1, <2>4
  <2>6. Obb!Stripped(path) = SubSeq(path, f, g)
    BY <1>2 DEF Obb!Stripped
  <2> HIDE DEF f, g
  <2> QED BY <2>5, <2>6
<1> QED BY <1>1, <1>2

\* A listing begins; whoever lists already is not alone any more.
LEMMA ObbBeginSteps ==
    ASSUME ObbIInv, NEW t \in Pair, NEW path \in Requests, Obb!BeginList(t, path)
    PROVE  ObbIInv'
<1>1. ObbTypeOK /\ ObbIndexInv /\ ObbRoomInv
  BY DEF ObbIInv
<1>2. PICK alone \in BOOLEAN :
        /\ alone <=> \A u \in Pair : ~Obb!Listing(u)
        /\ list' = [u \in Pair |->
                       IF u = t THEN [at |-> "scan", path |-> Obb!Stripped(path), i |-> 1,
                                      names |-> <<>>, alone |-> alone]
                       ELSE [list[u] EXCEPT !.alone = FALSE]]
  BY DEF Obb!BeginList
<1>3. /\ state \in {"open", "closed"} /\ UNCHANGED <<archive, index, state, buffer>>
      /\ room' = IF room < Len(index) THEN Len(index) ELSE room
      /\ room' \in Nat /\ Len(index) \in Nat /\ room <= room' /\ Len(index) <= room'
  <2>1. /\ state \in {"open", "closed"} /\ UNCHANGED <<archive, index, state, buffer>>
        /\ room' = IF room < Len(index) THEN Len(index) ELSE room
    BY DEF Obb!BeginList
  <2>2. room \in Nat /\ Len(index) \in Nat
    BY <1>1 DEF ObbTypeOK
  <2> QED BY <2>1, <2>2
<1>4. Obb!Stripped(path) \in Seq(STRING)
  BY ArchiveAssumption, ObbStrippedSeq
<1>5. /\ list'[t] \in ObbLists /\ list'[t].at = "scan" /\ list'[t].alone = alone
      /\ list'[t].i = 1 /\ list'[t].names = <<>>
  BY <1>2, <1>4 DEF ObbLists
<1>6. \A u \in Pair \ {t} :
        /\ list'[u] \in ObbLists /\ list'[u].alone = FALSE
        /\ list'[u].at = list[u].at /\ list'[u].i = list[u].i /\ list'[u].names = list[u].names
  BY <1>1, <1>2 DEF ObbTypeOK, ObbLists
<1>7. ObbTypeOK'
  <2>1. list' \in [Pair -> ObbLists]
    BY <1>2, <1>5, <1>6
  <2>2. Len(list'[t].names) = 0 /\ Most \in Nat
    BY <1>5, ArchiveAssumption
  <2> QED BY <1>1, <1>3, <1>5, <1>6, <2>1, <2>2 DEF ObbTypeOK, Obb!Listing, Obb!Count
<1>8. ObbIndexInv'
  BY <1>1, <1>3 DEF ObbIndexInv
<1>9. ObbRoomInv' /\ ObbAloneInv'
  <2>1. Obb!Count(t)' = 0 /\ \A u \in Pair \ {t} : Obb!Count(u)' = Obb!Count(u)
    BY <1>5, <1>6 DEF Obb!Count
  <2>2. ObbRoomInv'
    BY <1>1, <1>3, <1>5, <1>6, <2>1 DEF ObbRoomInv, Obb!Listing
  <2>3. ObbAloneInv'
    BY <1>2, <1>5, <1>6 DEF ObbAloneInv, Obb!Listing
  <2> QED BY <2>2, <2>3
<1>10. ObbCollected(t, 0)'
  <2>1. Obb!Count(t)' = 0
    BY <1>5 DEF Obb!Count
  <2>2. Len(index)' \in Nat
    BY <1>1, <1>3 DEF ObbTypeOK
  <2> QED BY <2>1, <2>2 DEF ObbCollected
<1>11. ObbListInv'
  BY <1>5, <1>6, <1>10 DEF ObbListInv, Obb!Listing
<1> QED BY <1>7, <1>8, <1>9, <1>11 DEF ObbIInv

\* A step of a thread that lists neither before nor after it.
LEMMA ObbAsideKeeps ==
    ASSUME ObbIInv, NEW t \in Pair, ~Obb!Listing(t), ~Obb!Listing(t)',
           UNCHANGED <<archive, index, state, buffer, room>>,
           list' \in [Pair -> ObbLists], \A u \in Pair \ {t} : list'[u] = list[u],
           Obb!Count(t)' = 0, list'[t].at = "guest" \/ state \in {"open", "closed"}
    PROVE  ObbIInv'
<1>1. ObbTypeOK /\ ObbIndexInv /\ ObbRoomInv /\ ObbAloneInv /\ ObbListInv
  BY DEF ObbIInv
<1>2. \A u \in Pair : Obb!Listing(u)' => Obb!Listing(u) /\ u # t /\ list'[u] = list[u]
  BY DEF Obb!Listing
<1>3. \A u \in Pair \ {t} : Obb!Count(u)' = Obb!Count(u) /\ (Obb!Listing(u)' <=> Obb!Listing(u))
  BY DEF Obb!Count, Obb!Listing
<1>4. ObbTypeOK'
  BY <1>1, <1>3 DEF ObbTypeOK, Obb!Listing
<1>5. ObbIndexInv' /\ ObbRoomInv'
  BY <1>1, <1>2, <1>3 DEF ObbIndexInv, ObbRoomInv
<1>6. ObbAloneInv'
  BY <1>1, <1>2 DEF ObbAloneInv
<1>7. \A u \in Pair \ {t} : \A n : ObbCollected(u, n)' <=> ObbCollected(u, n)
  BY <1>3, ObbCollectedKept
<1>8. ObbListInv'
  BY <1>1, <1>2, <1>3, <1>7 DEF ObbListInv, Obb!Count
<1> QED BY <1>4, <1>5, <1>6, <1>8 DEF ObbIInv

LEMMA ObbNothingKeeps ==
    ASSUME ObbIInv, NEW t \in Pair, Obb!ListNothing(t)
    PROVE  ObbIInv'
<1>1. ObbTypeOK
  BY DEF ObbIInv
<1>2. /\ list[t].at = "guest" /\ list' = [list EXCEPT ![t].at = "empty"]
      /\ state \in {"open", "closed"} /\ UNCHANGED <<archive, index, state, buffer, room>>
  BY DEF Obb!ListNothing
<1>3. /\ list' \in [Pair -> ObbLists] /\ list'[t].at = "empty" /\ list'[t].names = list[t].names
      /\ \A u \in Pair \ {t} : list'[u] = list[u]
  BY <1>1, <1>2 DEF ObbTypeOK, ObbLists
<1>4. ~Obb!Listing(t) /\ ~Obb!Listing(t)' /\ Obb!Count(t)' = 0
  BY <1>1, <1>2, <1>3 DEF ObbTypeOK, Obb!Listing, Obb!Count
<1> QED BY <1>2, <1>3, <1>4, ObbAsideKeeps

\* What a step of thread t alone changes.
ObbMoved(t) ==
    /\ UNCHANGED <<archive, index, state, room>>
    /\ list[t].at \in {"scan", "copy"} /\ list'[t].at \in {"guest", "scan", "copy"}
    /\ list' \in [Pair -> ObbLists] /\ buffer' \in [1..Most -> STRING \cup {None}]
    /\ \A u \in Pair \ {t} : list'[u] = list[u]
    /\ list'[t].at = "guest" => Obb!Count(t)' = 0
    /\ list'[t].at # "guest" =>
          /\ list'[t].alone = list[t].alone /\ list'[t].i >= 1 /\ Obb!Count(t)' <= Most
          /\ list'[t].at = "scan" => Obb!Count(t)' < list'[t].i
          /\ state = "open" => Obb!Count(t)' <= Len(index)

LEMMA ObbMovedKeeps ==
    ASSUME ObbIInv, NEW t \in Pair, ObbMoved(t),
           list'[t].at # "guest" /\ list'[t].alone =>
               /\ list'[t].at = "scan" => \E n : n = list'[t].i - 1 /\ ObbCollected(t, n)'
               /\ list'[t].at = "copy" =>
                     /\ ObbCollected(t, Len(index))'
                     /\ \A j \in 1..Len(list'[t].names) :
                           j < list'[t].i => list'[t].names[j] = buffer'[j]
    PROVE  ObbIInv'
<1>1. ObbTypeOK /\ ObbIndexInv /\ ObbRoomInv /\ ObbAloneInv /\ ObbListInv
  BY DEF ObbIInv
<1>2. ObbTypeOK'
  BY <1>1 DEF ObbMoved, ObbTypeOK, Obb!Listing, Obb!Count
<1>3. ObbIndexInv' /\ ObbRoomInv'
  <2>1. ObbIndexInv'
    BY <1>1 DEF ObbMoved, ObbIndexInv
  <2>2. \A u \in Pair \ {t} : Obb!Count(u)' = Obb!Count(u)
    BY DEF ObbMoved, Obb!Count
  <2>3. ObbRoomInv'
    BY <1>1, <2>2 DEF ObbMoved, ObbRoomInv, Obb!Listing
  <2> QED BY <2>1, <2>3
<1>4. ObbAloneInv'
  BY <1>1 DEF ObbMoved, ObbAloneInv, Obb!Listing
<1>5. ASSUME NEW u \in Pair \ {t}
      PROVE  ~Obb!Listing(u)' \/ ~list'[u].alone
  BY <1>1 DEF ObbMoved, ObbAloneInv, Obb!Listing
<1>6. list'[t].at = "scan" /\ list'[t].alone => ObbCollected(t, list[t].i - 1)'
  BY DEF ObbCollected
<1>7. ObbListInv'
  BY <1>5, <1>6 DEF ObbListInv, Obb!Listing, Obb!Count
<1> QED BY <1>2, <1>3, <1>4, <1>7 DEF ObbIInv

LEMMA ElementOf ==
    ASSUME NEW S, NEW s \in Seq(S)
    PROVE  /\ Len(s) \in Nat /\ \A n \in Nat : n < Len(s) => s[n + 1] \in S
           /\ DOMAIN s = 1..Len(s) /\ \A n \in 1..Len(s) : s[n] \in S
           /\ SubSeq(s, 1, Len(s)) = s /\ <<>> \o s = s
  OBVIOUS

\* A child is a component of a path.
LEMMA ObbChildOk ==
    ASSUME ObbTypeOK, NEW path \in Seq(STRING), NEW k \in 1..Len(index), Obb!Below(path, index[k])
    PROVE  ObbChild(path, k) \in STRING
<1>1. index[k] \in ObbEntries
  BY DEF ObbTypeOK
<1>2. index[k].path \in Seq(STRING) /\ Len(index[k].path) > Len(path)
  BY <1>1 DEF ObbEntries, Obb!Below
<1>3. Len(path) \in Nat /\ Len(index[k].path) \in Nat
  BY <1>2, ElementOf
<1>4. index[k].path[Len(path) + 1] \in STRING
  BY <1>2, <1>3, ElementOf
<1> QED BY <1>4 DEF ObbChild

\* The thread goes on to entry k; it enters the child there unless it has it.
LEMMA ObbCollectedNext ==
    ASSUME NEW t \in Pair, NEW k \in 1..Len(index), Len(index) \in Nat, NEW path, NEW c \in Nat,
           ObbCollected(t, k - 1), list[t].path = path, Obb!Count(t) = c,
           list'[t].path = path, index' = index,
           \/ /\ Obb!Count(t)' = c + 1 /\ buffer'[c + 1] = ObbChild(path, k)
              /\ Obb!Below(path, index[k])
              /\ \A j \in 1..c : buffer'[j] = buffer[j] /\ buffer[j] # ObbChild(path, k)
           \/ /\ Obb!Count(t)' = c /\ buffer' = buffer
              /\ Obb!Below(path, index[k]) => \E j \in 1..c : buffer[j] = ObbChild(path, k)
    PROVE  ObbCollected(t, k)'
<1>1. /\ k \in Nat /\ c <= k - 1 /\ k - 1 <= Len(index)
      /\ \A i, j \in 1..c : buffer[i] = buffer[j] => i = j
      /\ \A j \in 1..c : \E m \in 1..(k - 1) : Obb!Below(path, index[m]) /\ buffer[j] = ObbChild(path, m)
      /\ \A m \in 1..(k - 1) : Obb!Below(path, index[m]) => \E j \in 1..c : buffer[j] = ObbChild(path, m)
  <2>1. k \in Nat /\ c <= k - 1 /\ k - 1 <= Len(index)
    BY DEF ObbCollected
  <2>2. \A i, j \in 1..c : buffer[i] = buffer[j] => i = j
    BY DEF ObbCollected
  <2>3. \A j \in 1..c : \E m \in 1..(k - 1) : Obb!Below(path, index[m]) /\ buffer[j] = ObbChild(path, m)
    BY DEF ObbCollected
  <2>4. \A m \in 1..(k - 1) : Obb!Below(path, index[m]) => \E j \in 1..c : buffer[j] = ObbChild(path, m)
    BY DEF ObbCollected
  <2> QED BY <2>1, <2>2, <2>3, <2>4
<1>2. \A m \in 1..k : m \in 1..(k - 1) \/ m = k
  BY <1>1
<1>3. CASE /\ Obb!Count(t)' = c + 1 /\ buffer'[c + 1] = ObbChild(path, k)
           /\ Obb!Below(path, index[k])
           /\ \A j \in 1..c : buffer'[j] = buffer[j] /\ buffer[j] # ObbChild(path, k)
  <2>1. \A j \in 1..(c + 1) : j \in 1..c \/ j = c + 1
    OBVIOUS
  <2>2. ASSUME NEW i \in 1..(c + 1), NEW j \in 1..(c + 1), buffer'[i] = buffer'[j]
        PROVE  i = j
    <3>1. CASE i \in 1..c /\ j \in 1..c
      BY <1>1, <1>3, <2>2, <3>1
    <3>2. CASE i = c + 1 /\ j \in 1..c
      BY <1>3, <2>2, <3>2
    <3>3. CASE i \in 1..c /\ j = c + 1
      BY <1>3, <2>2, <3>3
    <3> QED BY <2>1, <3>1, <3>2, <3>3
  <2>3. ASSUME NEW j \in 1..(c + 1)
        PROVE  \E m \in 1..k : Obb!Below(path, index[m]) /\ buffer'[j] = ObbChild(path, m)
    <3>1. CASE j \in 1..c
      <4>1. PICK m \in 1..(k - 1) : Obb!Below(path, index[m]) /\ buffer[j] = ObbChild(path, m)
        BY <1>1, <3>1
      <4>2. m \in 1..k /\ buffer'[j] = buffer[j]
        BY <1>1, <1>3, <3>1
      <4> QED BY <4>1, <4>2
    <3>2. CASE j = c + 1
      BY <1>1, <1>3, <3>2
    <3> QED BY <2>1, <3>1, <3>2
  <2>4. ASSUME NEW m \in 1..k, Obb!Below(path, index[m])
        PROVE  \E j \in 1..(c + 1) : buffer'[j] = ObbChild(path, m)
    <3>1. CASE m = k
      BY <1>3, <3>1
    <3>2. CASE m # k
      <4>1. PICK j \in 1..c : buffer[j] = ObbChild(path, m)
        BY <1>1, <1>2, <2>4, <3>2
      <4> QED BY <1>3, <4>1
    <3> QED BY <3>1, <3>2
  <2>5. k <= Len(index) /\ c + 1 <= k
    BY <1>1
  <2> QED BY <1>3, <2>2, <2>3, <2>4, <2>5 DEF ObbCollected, ObbChild
<1>4. CASE /\ Obb!Count(t)' = c /\ buffer' = buffer
           /\ Obb!Below(path, index[k]) => \E j \in 1..c : buffer[j] = ObbChild(path, k)
  <2>1. \A j \in 1..c : \E m \in 1..k : Obb!Below(path, index[m]) /\ buffer[j] = ObbChild(path, m)
    BY <1>1
  <2>2. \A m \in 1..k : Obb!Below(path, index[m]) => \E j \in 1..c : buffer[j] = ObbChild(path, m)
    BY <1>1, <1>2, <1>4
  <2>3. k <= Len(index) /\ c <= k
    BY <1>1
  <2> QED BY <1>1, <1>4, <2>1, <2>2, <2>3 DEF ObbCollected, ObbChild
<1> QED BY <1>3, <1>4

\* f turns into g when t advances to entry i with the names it has collected.
ObbAdvanced(f, g, t, i, names) ==
    /\ g \in [Pair -> ObbLists]
    /\ \A u \in Pair \ {t} : g[u] = f[u]
    /\ g[t].at = f[t].at /\ g[t].path = f[t].path /\ g[t].alone = f[t].alone
    /\ g[t].i = i /\ g[t].names = names

LEMMA ObbPasses ==
    ASSUME NEW f \in [Pair -> ObbLists], NEW t \in Pair, NEW i \in Nat,
           NEW g, g = [f EXCEPT ![t].i = i]
    PROVE  ObbAdvanced(f, g, t, i, f[t].names)
<1> DEFINE m == [f[t] EXCEPT !.i = i]
<1>1. m \in ObbLists
  BY DEF ObbLists
<1>2. m.i = i /\ m.at = f[t].at /\ m.path = f[t].path /\ m.alone = f[t].alone /\ m.names = f[t].names
  BY DEF ObbLists
<1>3. g = [f EXCEPT ![t] = m]
  OBVIOUS
<1> HIDE DEF m
<1>4. g \in [Pair -> ObbLists] /\ g[t] = m /\ \A u \in Pair \ {t} : g[u] = f[u]
  BY <1>1, <1>3
<1> QED BY <1>2, <1>4 DEF ObbAdvanced

LEMMA ObbCollects ==
    ASSUME NEW f \in [Pair -> ObbLists], NEW t \in Pair, NEW i \in Nat,
           NEW names \in Seq(STRING \cup {None}),
           NEW g, g = [f EXCEPT ![t] = [[f[t] EXCEPT !.i = i] EXCEPT !.names = names]]
    PROVE  ObbAdvanced(f, g, t, i, names)
<1> DEFINE l == [f[t] EXCEPT !.i = i]
           m == [l EXCEPT !.names = names]
<1>1. l \in ObbLists /\ l.i = i /\ l.at = f[t].at /\ l.path = f[t].path /\ l.alone = f[t].alone
  BY DEF ObbLists
<1>2. g = [f EXCEPT ![t] = m]
  OBVIOUS
<1> HIDE DEF l
<1>3. /\ m \in ObbLists /\ m.names = names
      /\ m.i = l.i /\ m.at = l.at /\ m.path = l.path /\ m.alone = l.alone
  BY <1>1 DEF ObbLists
<1> HIDE DEF m
<1>4. g \in [Pair -> ObbLists] /\ g[t] = m /\ \A u \in Pair \ {t} : g[u] = f[u]
  BY <1>2, <1>3
<1> QED BY <1>1, <1>3, <1>4 DEF ObbAdvanced

LEMMA ObbScanKeeps ==
    ASSUME ObbIInv, NEW t \in Pair, Obb!Scan(t)
    PROVE  ObbIInv'
<1>1. ObbTypeOK /\ ObbIndexInv /\ ObbRoomInv /\ ObbAloneInv /\ ObbListInv
  BY DEF ObbIInv
<1>2. /\ list[t].at = "scan" /\ list[t].path \in Seq(STRING) /\ list[t].i \in Nat
      /\ list[t].names \in Seq(STRING \cup {None}) /\ list[t].alone \in BOOLEAN /\ list[t] \in ObbLists
      /\ Obb!Count(t) \in Nat /\ Obb!Count(t) = Len(list[t].names) /\ list[t].i <= Len(index)
      /\ UNCHANGED <<archive, index, state, room>> /\ Len(index) \in Nat /\ list[t].i >= 1
  BY <1>1, ObbListOf DEF Obb!Scan, ObbTypeOK, Obb!Count, Obb!Listing
<1>3. PICK path \in Seq(STRING), k \in 1..Len(index), c \in Nat :
        list[t].path = path /\ list[t].i = k /\ Obb!Count(t) = c
  BY <1>2
<1> DEFINE new == Obb!Below(path, index[k]) /\ ObbChild(path, k) \notin {buffer[j] : j \in 1..c}
           names == IF new THEN Append(list[t].names, None) ELSE list[t].names
<1>4. /\ new => /\ buffer' = [buffer EXCEPT ![c + 1] = ObbChild(path, k)]
                /\ list' = [list EXCEPT ![t].i = @ + 1, ![t].names = Append(@, None)]
      /\ ~new => list' = [list EXCEPT ![t].i = @ + 1] /\ buffer' = buffer
  BY <1>3 DEF Obb!Scan, ObbChild
<1> HIDE DEF new
<1>5. ObbAdvanced(list, list', t, k + 1, names)
  <2>1. list \in [Pair -> ObbLists]
    BY <1>1 DEF ObbTypeOK
  <2>2. CASE new
    <3>1. list' = [list EXCEPT ![t] =
                     [[list[t] EXCEPT !.i = list[t].i + 1] EXCEPT !.names = Append(list[t].names, None)]]
      BY <1>4, <2>2
    <3>2. Append(list[t].names, None) \in Seq(STRING \cup {None}) /\ list[t].i + 1 \in Nat
      BY <1>2
    <3>3. ObbAdvanced(list, list', t, list[t].i + 1, Append(list[t].names, None))
      BY <2>1, <3>1, <3>2, ObbCollects
    <3> QED BY <1>3, <2>2, <3>3
  <2>3. CASE ~new
    <3>1. list' = [list EXCEPT ![t].i = list[t].i + 1] /\ list[t].i + 1 \in Nat
      BY <1>2, <1>4, <2>3
    <3>2. ObbAdvanced(list, list', t, list[t].i + 1, list[t].names)
      BY <2>1, <3>1, ObbPasses
    <3> QED BY <1>3, <2>3, <3>2
  <2> QED BY <2>2, <2>3
<1> HIDE DEF names
<1>9. buffer' \in [1..Most -> STRING \cup {None}]
  <2>1. new => ObbChild(path, k) \in STRING
    BY <1>1, ObbChildOk DEF new
  <2> QED BY <1>1, <1>4, <2>1 DEF ObbTypeOK
<1>10. /\ ObbMoved(t) /\ list'[t].at = "scan" /\ list'[t].path = path /\ list'[t].i = k + 1
       /\ Obb!Count(t)' = IF new THEN c + 1 ELSE c
  <2>1. state \in {"reading", "open"}
    BY <1>1, <1>2 DEF ObbIndexInv, ObbTypeOK
  <2>2. k <= Most /\ Most \in Nat
    BY <1>1, <2>1, ObbOpenArchive
  <2>3. c < k
    BY <1>1, <1>2, <1>3 DEF ObbTypeOK, Obb!Listing
  <2>4. /\ list'[t].at = "scan" /\ list'[t].path = path /\ list'[t].i = k + 1
        /\ list'[t].alone = list[t].alone
        /\ list'[t].names = names
    BY <1>2, <1>3, <1>5 DEF ObbAdvanced
  <2>5. Len(names) = IF new THEN c + 1 ELSE c
    <3>1. list[t].names \in Seq(STRING \cup {None}) /\ Len(list[t].names) = c
      BY <1>2, <1>3
    <3>2. Len(Append(list[t].names, None)) = c + 1
      BY <3>1
    <3> QED BY <3>1, <3>2 DEF names
  <2>6. Obb!Count(t)' = IF new THEN c + 1 ELSE c
    BY <2>4, <2>5 DEF Obb!Count
  <2>7. list' \in [Pair -> ObbLists] /\ \A u \in Pair \ {t} : list'[u] = list[u]
    BY <1>5 DEF ObbAdvanced
  <2> QED BY <1>2, <1>3, <1>9, <2>2, <2>3, <2>4, <2>6, <2>7 DEF ObbMoved
<1>11. ASSUME list'[t].alone
       PROVE  ObbCollected(t, k)'
  <2>1. state = "open" /\ ObbCollected(t, k - 1)
    <3>1. state = "open"
      BY <1>1, <1>2 DEF ObbIndexInv, ObbTypeOK
    <3> QED BY <3>1, <1>1, <1>2, <1>3, <1>10, <1>11 DEF ObbMoved, ObbListInv, Obb!Listing
  <2>2. Len(index) <= Most /\ Most \in Nat
    BY <1>1, <2>1, ObbOpenArchive
  <2>3. c + 1 \in 1..Most
    BY <1>2, <1>3, <2>1, <2>2 DEF ObbCollected
  <2>4. new => /\ buffer'[c + 1] = ObbChild(path, k)
               /\ \A j \in 1..c : buffer'[j] = buffer[j]
    BY <1>1, <1>4, <2>2, <2>3 DEF ObbTypeOK
  <2>5. index' = index /\ Obb!Count(t) = c /\ list[t].path = path /\ list'[t].path = path
    BY <1>2, <1>3, <1>10
  <2>6. CASE new
    <3>1. /\ Obb!Count(t)' = c + 1 /\ buffer'[c + 1] = ObbChild(path, k)
          /\ Obb!Below(path, index[k])
          /\ \A j \in 1..c : buffer'[j] = buffer[j] /\ buffer[j] # ObbChild(path, k)
      BY <1>10, <2>4, <2>6 DEF new
    <3> QED BY <1>2, <2>1, <2>5, <3>1, ObbCollectedNext
  <2>7. CASE ~new
    <3>1. /\ Obb!Count(t)' = c /\ buffer' = buffer
          /\ Obb!Below(path, index[k]) => \E j \in 1..c : buffer[j] = ObbChild(path, k)
      <4>1. ~(Obb!Below(path, index[k]) /\ ObbChild(path, k) \notin {buffer[j] : j \in 1..c})
        BY <2>7 DEF new
      <4> QED BY <1>4, <1>10, <2>7, <4>1
    <3> QED BY <1>2, <2>1, <2>5, <3>1, ObbCollectedNext
  <2> QED BY <2>6, <2>7
<1> QED BY <1>10, <1>11, ObbMovedKeeps

\* The index was read to its end.
LEMMA ObbScanDoneKeeps ==
    ASSUME ObbIInv, NEW t \in Pair, Obb!ScanDone(t)
    PROVE  ObbIInv'
<1>1. ObbTypeOK /\ ObbIndexInv /\ ObbRoomInv /\ ObbAloneInv /\ ObbListInv
  BY DEF ObbIInv
<1>2. /\ list[t].at = "scan" /\ list[t].i \in Nat /\ list[t].i > Len(index) /\ Len(index) \in Nat
      /\ list' = [list EXCEPT ![t].at = "copy", ![t].i = 1]
      /\ UNCHANGED <<archive, index, state, buffer, room>>
  BY <1>1, ObbListOf DEF Obb!ScanDone, ObbTypeOK
<1>3. /\ list' = [u \in Pair |-> list'[u]]
      /\ \A u \in Pair \ {t} : list'[u] = list[u]
      /\ list'[t] = [[list[t] EXCEPT !.at = "copy"] EXCEPT !.i = 1]
  BY <1>1, <1>2 DEF ObbTypeOK
<1>4. /\ list'[t] \in ObbLists /\ list'[t].at = "copy" /\ list'[t].i = 1
      /\ list'[t].path = list[t].path /\ list'[t].names = list[t].names
      /\ list'[t].alone = list[t].alone
  <2>1. PICK l \in ObbLists : l = list[t]
    BY <1>1 DEF ObbTypeOK
  <2>2. list'[t] = [[l EXCEPT !.at = "copy"] EXCEPT !.i = 1]
    BY <1>3, <2>1
  <2>3. [l EXCEPT !.at = "copy"] =
           [at |-> "copy", path |-> l.path, i |-> l.i, names |-> l.names, alone |-> l.alone]
    BY DEF ObbLists
  <2>4. list'[t] = [at |-> "copy", path |-> l.path, i |-> 1, names |-> l.names, alone |-> l.alone]
    BY <2>2, <2>3
  <2> QED BY <2>1, <2>4 DEF ObbLists
<1>5. \A u \in Pair : list'[u] \in ObbLists
  BY <1>1, <1>3, <1>4 DEF ObbTypeOK
<1>6. ObbMoved(t)
  <2>1. state = "open" => Obb!Count(t) <= Len(index)
    BY <1>1, <1>2 DEF ObbRoomInv, Obb!Listing
  <2> QED BY <1>1, <1>2, <1>3, <1>4, <1>5, <2>1 DEF ObbMoved, ObbTypeOK, Obb!Listing, Obb!Count
<1>7. ASSUME list'[t].alone
      PROVE  ObbCollected(t, Len(index))'
  <2>1. ObbCollected(t, list[t].i - 1)
    BY <1>1, <1>2, <1>4, <1>7 DEF ObbListInv, Obb!Listing
  <2>2. list[t].i - 1 = Len(index)
    BY <1>2, <2>1 DEF ObbCollected
  <2>3. ObbCollected(t, Len(index))
    BY <2>1, <2>2
  <2>4. UNCHANGED <<index, buffer>> /\ list'[t].path = list[t].path /\ Obb!Count(t)' = Obb!Count(t)
    BY <1>2, <1>4 DEF Obb!Count
  <2>5. \A m : ObbCollected(t, m)' <=> ObbCollected(t, m)
    BY <2>4, ObbCollectedKept
  <2>6. PICK m : m = Len(index)
    OBVIOUS
  <2>7. ObbCollected(t, m)'
    BY <2>3, <2>5, <2>6
  <2> QED BY <1>2, <2>6, <2>7 DEF ObbCollected
<1> QED BY <1>4, <1>6, <1>7, ObbMovedKeeps

\* One name is copied out of the buffer.
LEMMA ObbCopyKeeps ==
    ASSUME ObbIInv, NEW t \in Pair, Obb!Copy(t)
    PROVE  ObbIInv'
<1>1. ObbTypeOK /\ ObbIndexInv /\ ObbRoomInv /\ ObbAloneInv /\ ObbListInv
  BY DEF ObbIInv
<1>2. /\ list[t].at = "copy" /\ list[t].i \in Nat /\ list[t].i >= 1 /\ list[t].i <= Obb!Count(t)
      /\ list[t].names \in Seq(STRING \cup {None}) /\ Obb!Count(t) = Len(list[t].names)
      /\ Obb!Count(t) \in Nat /\ list[t].alone \in BOOLEAN /\ list[t].path \in Seq(STRING)
      /\ list' = [list EXCEPT ![t].i = @ + 1, ![t].names[list[t].i] = buffer[list[t].i]]
      /\ UNCHANGED <<archive, index, state, buffer, room>>
  BY <1>1, ObbListOf DEF Obb!Copy, Obb!Count, ObbTypeOK, Obb!Listing
<1>3. PICK k \in 1..Obb!Count(t), c \in Nat, n \in Seq(STRING \cup {None}) :
        list[t].i = k /\ Obb!Count(t) = c /\ list[t].names = n
  BY <1>2
<1> DEFINE names == [n EXCEPT ![k] = buffer[k]]
<1>4. /\ names \in Seq(STRING \cup {None}) /\ Len(names) = c /\ names[k] = buffer[k]
      /\ \A j \in 1..c : j # k => names[j] = n[j]
  <2>1. buffer[k] \in STRING \cup {None}
    <3>1. Obb!Count(t) <= Most /\ Most \in Nat
      BY <1>1, <1>2, ArchiveAssumption DEF ObbTypeOK, Obb!Listing
    <3> QED BY <1>1, <1>2, <3>1 DEF ObbTypeOK
  <2>2. Len(n) = c
    BY <1>2, <1>3
  <2> QED BY <1>3, <2>1, <2>2
<1>5. ObbAdvanced(list, list', t, k + 1, names)
  <2>1. list \in [Pair -> ObbLists]
    BY <1>1 DEF ObbTypeOK
  <2>2. list' = [list EXCEPT ![t] =
                   [[list[t] EXCEPT !.i = list[t].i + 1]
                      EXCEPT !.names = [list[t].names EXCEPT ![list[t].i] = buffer[list[t].i]]]]
    BY <1>2
  <2>3. names = [list[t].names EXCEPT ![list[t].i] = buffer[list[t].i]]
    BY <1>3
  <2> HIDE DEF names
  <2>4. list' = [list EXCEPT ![t] = [[list[t] EXCEPT !.i = list[t].i + 1] EXCEPT !.names = names]]
    BY <2>2, <2>3
  <2>5. ObbAdvanced(list, list', t, list[t].i + 1, names)
    <3>1. list[t].i + 1 \in Nat /\ names \in Seq(STRING \cup {None})
      BY <1>2, <1>4
    <3> QED BY <2>1, <2>4, <3>1, ObbCollects
  <2> QED BY <1>3, <2>5
<1> HIDE DEF names
<1>6. list' \in [Pair -> ObbLists] /\ \A u \in Pair \ {t} : list'[u] = list[u]
  BY <1>5 DEF ObbAdvanced
<1>7. /\ list'[t].at = "copy" /\ list'[t].path = list[t].path /\ list'[t].i = k + 1
      /\ list'[t].alone = list[t].alone /\ Obb!Count(t)' = c /\ list'[t].names = names
  BY <1>2, <1>4, <1>5 DEF ObbAdvanced, Obb!Count
<1>8. ObbMoved(t)
  <2>1. state = "open" => c <= Len(index)
    BY <1>1, <1>2, <1>3 DEF ObbRoomInv, Obb!Listing
  <2> QED BY <1>1, <1>2, <1>3, <1>6, <1>7, <2>1 DEF ObbMoved, ObbTypeOK, Obb!Listing
<1>9. ASSUME list'[t].alone
       PROVE  /\ ObbCollected(t, Len(index))'
              /\ \A j \in 1..c : j < k + 1 => names[j] = buffer'[j]
  <2>1. /\ ObbCollected(t, Len(index))
        /\ \A j \in 1..c : j < k => n[j] = buffer[j]
    BY <1>1, <1>2, <1>3, <1>7, <1>9 DEF ObbListInv, Obb!Listing
  <2>2. \A m : ObbCollected(t, m)' <=> ObbCollected(t, m)
    BY <1>2, <1>3, <1>7, ObbCollectedKept
  <2>3. PICK m : m = Len(index)
    OBVIOUS
  <2>4. ObbCollected(t, m)'
    BY <2>1, <2>2, <2>3
  <2>5. \A j \in 1..c : j < k + 1 => names[j] = buffer'[j]
    BY <1>2, <1>4, <2>1
  <2> QED BY <1>2, <2>3, <2>4, <2>5 DEF ObbCollected
<1>10. Len(list'[t].names) = c
  BY <1>4, <1>7
<1> QED BY <1>7, <1>8, <1>9, <1>10, ObbMovedKeeps

LEMMA ObbReturnKeeps ==
    ASSUME ObbIInv, NEW t \in Pair, Obb!Return(t)
    PROVE  ObbIInv'
<1>1. ObbTypeOK
  BY DEF ObbIInv
<1>2. /\ list[t].at \in {"empty", "copy"} /\ list' = [list EXCEPT ![t] = Obb!NoList]
      /\ UNCHANGED <<archive, index, state, buffer, room>>
  BY DEF Obb!Return
<1>3. Obb!NoList \in ObbLists /\ Obb!NoList.at = "guest" /\ Len(Obb!NoList.names) = 0
  BY DEF Obb!NoList, ObbLists
<1>4. /\ list' \in [Pair -> ObbLists] /\ list'[t].at = "guest" /\ Obb!Count(t)' = 0
      /\ \A u \in Pair \ {t} : list'[u] = list[u]
  BY <1>1, <1>2, <1>3 DEF ObbTypeOK, Obb!Count
<1>5. CASE list[t].at = "copy"
  <2>1. ObbMoved(t)
    BY <1>1, <1>2, <1>4, <1>5 DEF ObbMoved, ObbTypeOK
  <2> QED BY <1>4, <2>1, ObbMovedKeeps
<1>6. CASE list[t].at = "empty"
  BY <1>2, <1>4, <1>6, ObbAsideKeeps DEF Obb!Listing
<1> QED BY <1>2, <1>5, <1>6

LEMMA ObbStep ==
    ASSUME ObbIInv, Obb!Next PROVE ObbIInv'
  BY ObbOpenSteps, ObbBeginSteps, ObbNothingKeeps, ObbScanKeeps, ObbScanDoneKeeps, ObbCopyKeeps,
     ObbReturnKeeps DEF Obb!Next

\* Nothing is stripped from a path whose components all have a name.
LEMMA ObbWholeNamed ==
    ASSUME NEW path, NEW n \in Nat, Obb!Named(path) = 1..n
    PROVE  Obb!Stripped(path) = IF n = 0 THEN <<>> ELSE SubSeq(path, 1, n)
<1>1. CASE n = 0
  BY <1>1 DEF Obb!Stripped
<1>2. CASE n > 0
  <2> DEFINE f == CHOOSE k \in Obb!Named(path) : \A j \in Obb!Named(path) : k <= j
             g == CHOOSE k \in Obb!Named(path) : \A j \in Obb!Named(path) : k >= j
  <2>1. \E k \in Obb!Named(path) : \A j \in Obb!Named(path) : k <= j
    <3>1. 1 \in 1..n /\ \A j \in 1..n : 1 <= j
      BY <1>2
    <3> QED BY <3>1
  <2>2. \E k \in Obb!Named(path) : \A j \in Obb!Named(path) : k >= j
    <3>1. n \in 1..n /\ \A j \in 1..n : n >= j
      BY <1>2
    <3> QED BY <3>1
  <2>3. f \in Obb!Named(path) /\ \A j \in Obb!Named(path) : f <= j
    BY <2>1
  <2>4. g \in Obb!Named(path) /\ \A j \in Obb!Named(path) : g >= j
    BY <2>2
  <2>5. Obb!Named(path) # {} => Obb!Stripped(path) = SubSeq(path, f, g)
    BY DEF Obb!Stripped
  <2> HIDE DEF f, g
  <2>6. 1 \in 1..n /\ n \in 1..n
    BY <1>2
  <2>7. f = 1
    <3>1. f \in 1..n /\ f <= 1
      BY <2>3, <2>6
    <3> QED BY <3>1
  <2>8. g = n
    <3>1. g \in 1..n /\ g >= n
      BY <2>4, <2>6
    <3> QED BY <3>1
  <2>9. Obb!Named(path) # {} 
    BY <2>6
  <2> QED BY <2>5, <2>7, <2>8, <2>9, <1>2
<1> QED BY <1>1, <1>2

\* A path of non-empty components is asked for as it is.
LEMMA ObbStrippedWhole ==
    ASSUME NEW S, NEW path \in Seq(S), Obb!Named(path) = DOMAIN path
    PROVE  Obb!Stripped(path) = path
<1>1. Len(path) \in Nat /\ DOMAIN path = 1..Len(path) /\ SubSeq(path, 1, Len(path)) = path
  BY ElementOf
<1>2. Obb!Stripped(path) = IF Len(path) = 0 THEN <<>> ELSE SubSeq(path, 1, Len(path))
  BY <1>1, ObbWholeNamed
<1>3. Len(path) = 0 => path = <<>>
  OBVIOUS
<1> QED BY <1>1, <1>2, <1>3

\* A file of the index is found again by its path, under no prefix.
LEMMA ObbFoundAgain ==
    ASSUME ObbTypeOK, ObbIndexInv, state = "open", NEW i \in 1..Len(index),
           ~index[i].directory, index[i].size < IntLimit
    PROVE  Obb!GetAssetSize(index[i].path) = index[i].size
<1> DEFINE e == index[i]
           hits == Obb!Hits(e.path)
<1>1. archive \in Archives /\ index = archive.entries /\ index \in Seq(ObbEntries) /\ DOMAIN index = 1..Len(index)
  BY ElementOf DEF ObbTypeOK, ObbIndexInv
<1>2. /\ e \in ObbEntries /\ e.path \in Seq(STRING) /\ e.size \in Nat
      /\ \A k \in DOMAIN e.path : e.path[k] # ""
  <2>1. e \in ObbEntries
    BY <1>1, ElementOf
  <2>2. \A k \in DOMAIN e.path : e.path[k] # ""
    BY <1>1, ArchiveAssumption
  <2> HIDE DEF e
  <2> QED BY <2>1, <2>2 DEF ObbEntries
<1>3. Obb!Candidates(e.path)[1] = e.path
  <2>1. Obb!Stripped(e.path) = e.path
    <3> HIDE DEF e
    <3>1. Obb!Named(e.path) = DOMAIN e.path
      BY <1>2 DEF Obb!Named
    <3> QED BY Zenon, <1>2, <3>1, ObbStrippedWhole
  <2>2. 1 \in DOMAIN Obb!Prefixes /\ Obb!Prefixes[1] = <<>>
    BY DEF Obb!Prefixes
  <2>3. <<>> \o e.path = e.path
    BY <1>2, ElementOf
  <2> QED BY <2>1, <2>2, <2>3 DEF Obb!Candidates
<1>4. DOMAIN Obb!Prefixes = 1..3
  BY DEF Obb!Prefixes
<1>5. /\ hits \subseteq (1..3) \X (1..Len(index)) /\ <<1, i>> \in hits
      /\ \A h \in hits : h[1] = 1 => index[h[2]].path = e.path
      /\ \A n \in 1..Len(index) : index[n].path = e.path => <<1, n>> \in hits
  BY <1>1, <1>3, <1>4 DEF Obb!Hits
<1>6. PICK n \in 1..Len(index) :
        index[n].path = e.path /\ \A m \in 1..Len(index) : index[m].path = e.path => n <= m
  <2> DEFINE S == {m \in 1..Len(index) : index[m].path = e.path}
  <2>1. S \subseteq Nat /\ i \in S
    OBVIOUS
  <2>2. PICK n \in S : \A m \in S : n <= m
    BY <2>1, Least
  <2> QED BY <2>2
<1> DEFINE First(h) == \A g \in hits : h[1] < g[1] \/ (h[1] = g[1] /\ h[2] <= g[2])
           hit == CHOOSE h \in hits : First(h)
<1>7. <<1, n>> \in hits /\ First(<<1, n>>)
  <2>1. <<1, n>> \in hits
    BY <1>5, <1>6
  <2>2. ASSUME NEW g \in hits
        PROVE  1 < g[1] \/ (1 = g[1] /\ n <= g[2])
    <3>1. g[1] \in 1..3 /\ g[2] \in 1..Len(index)
      BY <1>5
    <3> QED BY <1>5, <1>6, <3>1
  <2> QED BY <2>1, <2>2
<1>8. hit \in hits /\ First(hit)
  BY <1>7
<1>9. hit[1] = 1 /\ hit[2] \in 1..Len(index) /\ index[hit[2]].path = e.path
  <2>1. hit[1] \in 1..3 /\ hit[2] \in 1..Len(index)
    BY <1>5, <1>8
  <2>2. hit[1] < 1 \/ hit[1] = 1
    BY <1>7, <1>8
  <2> HIDE DEF hit
  <2> QED BY <1>5, <1>8, <2>1, <2>2
<1>10. index[hit[2]] = e
  <2>1. \A m, l \in DOMAIN archive.entries :
           archive.entries[m].path = archive.entries[l].path => archive.entries[m] = archive.entries[l]
    BY <1>1, ArchiveAssumption
  <2> HIDE DEF hit
  <2> QED BY <1>1, <1>9, <2>1
<1>11. Obb!AssetSize(e.path) = e.size
  <2>1. hits # {}
    BY <1>5
  <2>2. Obb!AssetSize(e.path) =
           LET entry == index[hit[2]] IN IF entry.directory THEN -1 ELSE entry.size
    BY <2>1 DEF Obb!AssetSize
  <2> HIDE DEF hit, hits
  <2> QED BY <1>10, <2>2
<1> HIDE DEF e
<1> QED BY <1>2, <1>11 DEF Obb!GetAssetSize, e

\* A sequence that repeats nothing has as many elements as places.
LEMMA CountedOnce ==
    ASSUME NEW n \in Nat, NEW names, \A j, k \in 1..n : names[j] = names[k] => j = k
    PROVE  Cardinality({names[i] : i \in 1..n}) = n
<1> DEFINE f == [i \in 1..n |-> names[i]]
           given == {names[i] : i \in 1..n}
<1>1. f \in Bijection(1..n, given)
  BY DEF Bijection, Injection, Surjection, IsInjective
<1>2. ExistsBijection(1..n, given)
  BY <1>1 DEF ExistsBijection
<1> QED BY <1>2, FS_CountingElements

\* The children of a directory are those that were collected.
LEMMA ObbChildrenCollected ==
    ASSUME ObbTypeOK, NEW t \in Pair, index = archive.entries, ObbCollected(t, Len(index))
    PROVE  Obb!Children(list[t].path) = {buffer[j] : j \in 1..Obb!Count(t)}
<1> DEFINE path == list[t].path
           inside == {e \in {archive.entries[i] : i \in DOMAIN archive.entries} : Obb!Below(path, e)}
<1>1. DOMAIN archive.entries = 1..Len(index)
  BY ElementOf DEF ObbTypeOK
<1>2. ASSUME NEW c \in Obb!Children(path)
      PROVE  \E j \in 1..Obb!Count(t) : c = buffer[j]
  <2>1. PICK e \in inside : c = e.path[Len(path) + 1]
    BY <1>2 DEF Obb!Children
  <2>2. PICK k \in 1..Len(index) : e = index[k] /\ Obb!Below(path, index[k])
    BY <1>1, <2>1
  <2> QED BY <2>1, <2>2 DEF ObbCollected, ObbChild
<1>3. ASSUME NEW j \in 1..Obb!Count(t)
      PROVE  buffer[j] \in Obb!Children(path)
  <2>1. PICK k \in 1..Len(index) : Obb!Below(path, index[k]) /\ buffer[j] = ObbChild(path, k)
    BY DEF ObbCollected
  <2>2. index[k] \in inside /\ buffer[j] = index[k].path[Len(path) + 1]
    BY <1>1, <2>1 DEF ObbChild
  <2> QED BY <2>2 DEF Obb!Children
<1> QED BY <1>2, <1>3

LEMMA ObbConsequences ==
    ASSUME ObbIInv PROVE Obb!ListingsSound
<1>1. ObbTypeOK /\ ObbIndexInv /\ ObbRoomInv /\ ObbListInv
  BY DEF ObbIInv
<1>2. ASSUME NEW t \in Pair, state = "open", list[t].at = "copy", list[t].i > Obb!Count(t), list[t].alone
      PROVE  LET l == list[t]
                 given == {l.names[i] : i \in DOMAIN l.names}
             IN  /\ given = Obb!Children(l.path) /\ Obb!Cardinality(given) = Len(l.names)
                 /\ \A i \in DOMAIN index :
                       LET e == index[i] IN
                       (~e.directory /\ e.size < IntLimit /\ \E c \in given : e.path = Append(l.path, c))
                           => Obb!GetAssetSize(e.path) = e.size
  <2> DEFINE l == list[t]
             given == {l.names[i] : i \in DOMAIN l.names}
  <2>1. /\ index = archive.entries /\ ObbCollected(t, Len(index))
        /\ \A j \in 1..Obb!Count(t) : j < l.i => l.names[j] = buffer[j]
    BY <1>1, <1>2 DEF ObbIndexInv, ObbListInv, Obb!Listing
  <2>2. Obb!Count(t) \in Nat /\ l.i \in Nat /\ Obb!Count(t) = Len(l.names) /\ DOMAIN l.names = 1..Obb!Count(t)
    BY <1>1, ObbListOf, ElementOf DEF Obb!Count
  <2>3. \A j \in 1..Obb!Count(t) : l.names[j] = buffer[j]
    BY <1>2, <2>1, <2>2
  <2>4. given = {buffer[j] : j \in 1..Obb!Count(t)}
    BY <2>2, <2>3
  <2>5. given = Obb!Children(l.path)
    BY <1>1, <2>1, <2>4, ObbChildrenCollected
  <2>6. Obb!Cardinality(given) = Len(l.names)
    <3>1. \A j, k \in 1..Obb!Count(t) : buffer[j] = buffer[k] => j = k
      BY <2>1 DEF ObbCollected
    <3>2. Cardinality({buffer[j] : j \in 1..Obb!Count(t)}) = Obb!Count(t)
      <4>1. Obb!Count(t) \in Nat
        BY <2>2
      <4>2. PICK n, b : n = Obb!Count(t) /\ b = buffer
        BY Zenon
      <4>3. Cardinality({b[j] : j \in 1..n}) = n
        <5>1. n \in Nat /\ \A j, k \in 1..n : b[j] = b[k] => j = k
          BY <3>1, <4>1, <4>2
        <5> QED BY <5>1, CountedOnce
      <4> QED BY Zenon, <4>2, <4>3
    <3> HIDE DEF given
    <3> QED BY Zenon, <2>2, <2>4, <3>2, ObbCounts
  <2>7. ASSUME NEW i \in DOMAIN index, ~index[i].directory, index[i].size < IntLimit
        PROVE  Obb!GetAssetSize(index[i].path) = index[i].size
    <3>1. i \in 1..Len(index)
      BY <1>1, ElementOf DEF ObbTypeOK
    <3> QED BY <1>1, <1>2, <2>7, <3>1, ObbFoundAgain
  <2> HIDE DEF given
  <2> QED BY <2>5, <2>6, <2>7 DEF given
<1>3. /\ state = "open" => index = archive.entries
      /\ state \in {"unopened", "failed", "closed"} => index = <<>>
  BY <1>1 DEF ObbIndexInv
<1>4. ASSUME state = "open", NEW t \in Pair
      PROVE  Obb!Count(t) <= room
  <2>1. room \in Nat /\ Len(index) \in Nat /\ Obb!Count(t) \in Nat
    BY <1>1, ObbListOf DEF ObbTypeOK
  <2>2. CASE Obb!Listing(t)
    BY <1>1, <1>4, <2>1, <2>2 DEF ObbRoomInv
  <2>3. CASE ~Obb!Listing(t)
    BY <1>1, <2>1, <2>3 DEF ObbTypeOK
  <2> QED BY <2>2, <2>3
<1> QED BY <1>2, <1>3, <1>4 DEF Obb!ListingsSound
-----------------------------------------------------------------------------
(* The four together.                                                      *)

SharedIInv == IInv /\ RwIInv /\ JniIInv /\ ObbIInv

LEMMA SharedInitInv ==
    ASSUME SharedInit PROVE SharedIInv
  BY InitIInv, RwInit, JniInit, ObbInit DEF SharedInit, SharedIInv

\* A step is one of a bridge, and leaves the others alone.
LEMMA SharedStepInv ==
    ASSUME SharedIInv, [SharedNext]_sharedVars PROVE SharedIInv'
<1>1. IInv /\ RwIInv /\ JniIInv /\ ObbIInv
  BY DEF SharedIInv
<1>2. /\ UNCHANGED vars => IInv'
      /\ Next => IInv'
  BY <1>1, StepIInv
<1>3. /\ UNCHANGED rwVars => RwIInv'
      /\ Rw!Next => RwIInv'
  <2>1. UNCHANGED rwVars => UNCHANGED Rw!vars
    BY DEF rwVars, Rw!vars, Rw!lockVars, Rw!slotVars
  <2> QED BY <1>1, <2>1, RwStutter, RwStep
<1>4. /\ UNCHANGED jniVars => JniIInv'
      /\ Jni!Next => JniIInv'
  <2>1. UNCHANGED jniVars => UNCHANGED Jni!vars
    BY DEF jniVars, Jni!vars
  <2> QED BY <1>1, <2>1, JniStutter, JniStep
<1>5. /\ UNCHANGED obbVars => ObbIInv'
      /\ Obb!Next => ObbIInv'
  <2>1. UNCHANGED obbVars => UNCHANGED Obb!vars
    BY DEF obbVars, Obb!vars
  <2> QED BY <1>1, <2>1, ObbStutter, ObbStep
<1>6. /\ Next \/ UNCHANGED vars
      /\ Rw!Next \/ UNCHANGED rwVars
      /\ Jni!Next \/ UNCHANGED jniVars
      /\ Obb!Next \/ UNCHANGED obbVars
  BY DEF SharedNext, sharedVars
<1> QED BY <1>2, <1>3, <1>4, <1>5, <1>6 DEF SharedIInv

\* The inductive invariant of the four holds in every reachable state.
THEOREM SharedInvariant == SharedSpec => []SharedIInv
<1>1. SharedInit => SharedIInv
  BY SharedInitInv
<1>2. SharedIInv /\ [SharedNext]_sharedVars => SharedIInv'
  BY SharedStepInv
<1> QED BY <1>1, <1>2, PTL DEF SharedSpec

\* The host semaphore holds the tokens the guest counts, on every semaphore
\* whose first uses never overlapped, through creation, destruction and
\* reuse of the address; and nowhere do more waits succeed than were posted
\* (compat_bridge.c:750-860).
THEOREM TokensAreConserved == SharedSpec => []TokensConserved
<1>1. SharedIInv => TokensConserved
  BY Consequences DEF SharedIInv
<1> QED BY <1>1, SharedInvariant, PTL

\* The host answers for the count of the guest: a wait goes through and a try
\* fails just by the tokens that are there, and a post adds one unless
\* SEM_VALUE_MAX are.
WaitsAnswerTrue ==
    [][\A t \in Threads, g \in Guests \ raced :
          call[t].at = "host" /\ call[t].g = g /\ AtGuest(t)' => WaitTold(t, g)]_vars

\* Every wait, try and post on a semaphore without a first-use race is
\* answered by the count of the guest itself, whatever other semaphores are
\* created, raced for and freed meanwhile (compat_bridge.c:793-823).
THEOREM WaitsAreAnswered == SharedSpec => WaitsAnswerTrue
<1> DEFINE Told == \A t \in Threads, g \in Guests \ raced :
                      call[t].at = "host" /\ call[t].g = g /\ AtGuest(t)' => WaitTold(t, g)
<1>1. SharedIInv /\ [SharedNext]_sharedVars => [Told]_vars
  <2> SUFFICES ASSUME SharedIInv, [SharedNext]_sharedVars, vars' # vars PROVE Told
    OBVIOUS
  <2>1. IInv
    BY DEF SharedIInv
  <2>2. Next
    BY DEF SharedNext, sharedVars
  <2> QED BY <2>1, <2>2, WaitsAreToldTrue
<1> QED BY <1>1, SharedInvariant, PTL DEF SharedSpec, WaitsAnswerTrue

\* No call reaches a freed host semaphore and no guest word points to one
\* (compat_bridge.c:750-860).
THEOREM NoHostDangles == SharedSpec => []NoDanglingHost
<1>1. SharedIInv => NoDanglingHost
  BY Consequences DEF SharedIInv
<1> QED BY <1>1, SharedInvariant, PTL

\* Readers exclude writers and writers each other, and the host lock counts
\* what the guest holds, unless first uses of the lock overlapped; no call
\* ever reaches a freed host lock (compat_bridge.c:693-712).
THEOREM LocksAreSound == SharedSpec => []LocksSound
<1>1. SharedIInv => LocksSound
  BY RwConsequences DEF SharedIInv, LocksSound
<1> QED BY <1>1, SharedInvariant, PTL

\* An id dispatches to the name it was looked up by, as far as the entry
\* holds it, and lies in its table, and lookups of a name and signature that
\* fit, which nothing contended for, gave the one id, except where two
\* threads grew the table at a time (jni_bridge.c:724-776, 1386-1434).
THEOREM IdsAreNamed == SharedSpec => []IdsNameTheirMethods
<1>1. SharedIInv => IdsNameTheirMethods
  BY JniConsequences DEF SharedIInv, IdsNameTheirMethods
<1> QED BY <1>1, SharedInvariant, PTL

\* A listing that no other overlapped is of every child of the directory,
\* each once, unless there was no memory for it, and each file it lists is
\* found again with its size (obb_index.c:59-163, 177-295,
\* jni_bridge.c:826-843).
THEOREM ListingsAreSound == SharedSpec => []ListingsSound
<1>1. SharedIInv => ListingsSound
  BY ObbConsequences DEF SharedIInv, ListingsSound
<1> QED BY <1>1, SharedInvariant, PTL
=============================================================================
