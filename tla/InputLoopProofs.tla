--------------------------- MODULE InputLoopProofs ---------------------------
(***************************************************************************)
(* Proofs about InputLoop for any order of buttons, frame times and        *)
(* modulus of the tick counter.                                            *)
(***************************************************************************)
EXTENDS InputLoop, SequenceTheorems, TLAPS

\* In mouse mode the guest has down only what it caught, B and Start; and it
\* never hears of Select.
KeysOfTheMode ==
    /\ "select" \notin keys
    /\ cursor => keys \ {"B", "start"} \subseteq caught

\* Until the limit the timer reads no more than the time that has passed.
TimerNotFast == (cursor /\ quiet < IdleLimit) => Elapsed <= quiet

FingerNeedsCursor == (touch \/ scroll) => cursor

ClickHeld == touch => "A" \in previous

ScrollHeld == (scroll /\ stage \in {"edges", "tick", "input"}) => ScrollStep # 0

IInv ==
    /\ TypeOK
    /\ TouchStreamSound
    /\ FingerNeedsCursor
    /\ ClickHeld
    /\ ScrollHeld
    /\ NoStuckKeyUnlessCaught
    /\ KeysOfTheMode
    /\ TimerNotFast

\* Remainders one turn of the counter to either side.
LEMMA Remainder ==
    ASSUME NEW m \in Nat \ {0}, NEW a \in Int
    PROVE  /\ a % m \in 0..m - 1
           /\ a \in 0..m - 1 => a % m = a
           /\ a \in m..2 * m - 1 => a % m = a - m
           /\ a \in -m..-1 => a % m = a + m
  BY Z3

\* The unsigned difference of two readings.
LEMMA Difference ==
    ASSUME NEW m \in Nat \ {0}, NEW x \in 0..m - 1, NEW l \in 0..m - 1
    PROVE  (x - l) % m = IF x >= l THEN x - l ELSE x - l + m
<1>1. CASE x >= l
  <2>1. x - l \in 0..m - 1 /\ x - l \in Int
    BY <1>1
  <2> QED BY <1>1, <2>1, Remainder
<1>2. CASE ~(x >= l)
  <2>1. x - l \in -m..-1 /\ x - l \in Int
    BY <1>2
  <2> QED BY <1>2, <2>1, Remainder
<1> QED BY <1>1, <1>2

\* A frame of d milliseconds moves the timer on by at most d.
LEMMA ElapsedGrows ==
    ASSUME NEW m \in Nat \ {0}, NEW n \in 0..m - 1, NEW l \in 0..m - 1, NEW d \in 0..m - 1
    PROVE  (((n + d) % m) - l) % m <= ((n - l) % m) + d
<1> DEFINE x == (n + d) % m
<1>1. x \in 0..m - 1 /\ (x = n + d \/ x = n + d - m)
  <2>1. n + d \in Int /\ (n + d \in 0..m - 1 \/ n + d \in m..2 * m - 1)
    OBVIOUS
  <2>2. (n + d) % m \in 0..m - 1 /\ ((n + d) % m = n + d \/ (n + d) % m = n + d - m)
    <3>1. PICK a \in Int : a = n + d
      BY <2>1
    <3>2. a % m \in 0..m - 1 /\ (a % m = a \/ a % m = a - m)
      BY <2>1, <3>1, Remainder
    <3> QED BY <3>1, <3>2
  <2> QED BY <2>2
<1>2. (n - l) % m = IF n >= l THEN n - l ELSE n - l + m
  BY Difference
<1> HIDE DEF x
<1>3. (x - l) % m = IF x >= l THEN x - l ELSE x - l + m
  BY <1>1, Difference
<1>4. (x - l) % m <= ((n - l) % m) + d
  BY <1>1, <1>2, <1>3
<1> QED BY <1>4 DEF x

\* There is a button to start with.
LEMMA OrderNotEmpty == Len(Order) \in Nat \ {0}
<1>1. Order \in Seq(STRING) /\ Order # <<>>
  BY InputAssumption
<1> QED BY <1>1, EmptySeq, LenProperties

\* The invariant holds initially.
LEMMA InitInvariant == Init => IInv
<1> SUFFICES ASSUME Init PROVE IInv
  OBVIOUS
<1> USE InputAssumption DEF Init
<1>1. TypeOK
  <2>1. Len(Order) \in Nat \ {0}
    BY OrderNotEmpty
  <2>2. index \in 1..Len(Order) /\ quiet \in 0..IdleLimit
    BY <2>1
  <2>3. now \in 0..TickMod - 1 /\ last \in 0..TickMod - 1
    OBVIOUS
  <2> QED BY <2>2, <2>3 DEF TypeOK
<1>2. TimerNotFast
  <2>1. now - last = 0
    OBVIOUS
  <2>2. (now - last) % TickMod = 0
    BY <2>1, Remainder
  <2> QED BY <2>2 DEF TimerNotFast, Elapsed
<1> QED
  BY <1>1, <1>2 DEF IInv, TouchStreamSound, FingerNeedsCursor, ClickHeld, ScrollHeld,
                    NoStuckKeyUnlessCaught, KeysOfTheMode

\* What an action does to the touch events: the parts that TypeOK leaves open.
LEMMA TouchSteps ==
    ASSUME IInv, [Next]_vars
    PROVE  TouchStreamSound' /\ FingerNeedsCursor'
<1> USE DEF IInv, TypeOK, TouchStreamSound, FingerNeedsCursor, Down, Up, Move, UpIf
<1>1. CASE HideIdleCursor
  BY <1>1 DEF HideIdleCursor
<1>2. CASE Scroll
  BY <1>2 DEF Scroll
<1>3. CASE ScrollEnds
  BY <1>3 DEF ScrollEnds
<1>4. CASE SwitchMode
  BY <1>4 DEF SwitchMode
<1>5. CASE PressA
  BY <1>5 DEF PressA
<1>6. CASE ReleaseA
  BY <1>6 DEF ReleaseA
<1>7. CASE ReadInput \/ FrameLimit \/ RestartTimer \/ KeepCursor \/ NoScroll \/ KeyEdge
           \/ NoEdge \/ Tick \/ UNCHANGED vars
  BY <1>7 DEF ReadInput, FrameLimit, RestartTimer, KeepCursor, NoScroll, KeyEdge, NoEdge,
              Tick, modeVars, vars
<1> QED BY <1>1, <1>2, <1>3, <1>4, <1>5, <1>6, <1>7 DEF Next

\* The edge loop's bookkeeping keeps its types.
LEMMA NextButtonTypes ==
    ASSUME IInv, NextButton
    PROVE  /\ Button \in Keys
           /\ stage' \in {"edges", "tick"}
           /\ index' \in 1..Len(Order)
           /\ previous' \subseteq Keys
<1>1. Button \in Keys /\ Len(Order) \in Nat \ {0}
  BY InputAssumption DEF IInv, TypeOK, Button, Keys
<1> QED BY <1>1 DEF IInv, TypeOK, NextButton

\* A scroll finger goes up in the frame that does not scroll: only Scroll
\* puts it down, and the stick and the buttons are read again after the
\* stages that look at it.
LEMMA ScrollSteps ==
    ASSUME IInv, [Next]_vars
    PROVE  ScrollHeld'
<1> USE DEF IInv, ScrollHeld
<1>1. CASE ReadInput \/ RestartTimer \/ HideIdleCursor \/ KeepCursor
  BY <1>1 DEF ReadInput, RestartTimer, HideIdleCursor, KeepCursor
<1>2. CASE Scroll \/ ScrollEnds
  BY <1>2 DEF Scroll, ScrollEnds, ScrollStep, inputVars
<1>3. CASE NoScroll
  BY <1>3 DEF NoScroll, FingerNeedsCursor, modeVars
<1>4. CASE SwitchMode \/ KeyEdge \/ PressA \/ ReleaseA \/ NoEdge
  <2>1. stage = "edges" /\ UNCHANGED inputVars /\ (scroll' => scroll)
    BY <1>4 DEF SwitchMode, KeyEdge, PressA, ReleaseA, NoEdge, NextButton, modeVars
  <2> QED BY <2>1 DEF ScrollStep, inputVars
<1>5. CASE FrameLimit \/ Tick \/ UNCHANGED vars
  BY <1>5 DEF FrameLimit, Tick, ScrollStep, inputVars, modeVars, vars
<1> QED BY <1>1, <1>2, <1>3, <1>4, <1>5 DEF Next

\* Every step keeps the types.
LEMMA TypeSteps ==
    ASSUME IInv, [Next]_vars
    PROVE  TypeOK'
<1> USE DEF IInv
<1>1. pointer' \in {"up", "down", "bad"}
  BY TouchSteps DEF TouchStreamSound
<1>2. CASE ReadInput
  <2>1. PICK delay \in Delays :
            /\ now' = (now + delay) % TickMod
            /\ quiet' = IF quiet + delay < IdleLimit THEN quiet + delay ELSE IdleLimit
    BY <1>2 DEF ReadInput
  <2>2. now' \in 0..TickMod - 1
    BY <2>1, Remainder, InputAssumption DEF TypeOK
  <2>3. quiet' \in 0..IdleLimit
    BY <2>1, InputAssumption DEF TypeOK
  <2> QED BY <1>2, <2>2, <2>3 DEF ReadInput, TypeOK, modeVars
<1>3. CASE FrameLimit \/ KeepCursor \/ NoScroll \/ Tick \/ UNCHANGED vars
  BY <1>3 DEF FrameLimit, KeepCursor, NoScroll, Tick, TypeOK, modeVars, inputVars, vars
<1>4. CASE RestartTimer
  BY <1>1, <1>4, InputAssumption DEF RestartTimer, TypeOK, inputVars
<1>7. CASE HideIdleCursor
  BY <1>1, <1>7 DEF HideIdleCursor, TypeOK, inputVars
<1>8. CASE Scroll
  BY <1>1, <1>8 DEF Scroll, TypeOK, inputVars
<1>9. CASE ScrollEnds
  BY <1>1, <1>9 DEF ScrollEnds, TypeOK, inputVars
<1>5. CASE SwitchMode
  <2>1. keys' \subseteq Keys
    BY <1>5, NextButtonTypes DEF SwitchMode, SendKey, TypeOK
  <2>2. caught' \subseteq Keys
    BY <1>5, <2>1 DEF SwitchMode, TypeOK
  <2>3. quiet' \in 0..IdleLimit /\ last' \in 0..TickMod - 1 /\ UNCHANGED inputVars
    BY <1>5, InputAssumption DEF SwitchMode, NextButton, TypeOK, inputVars
  <2>4. cursor' \in BOOLEAN /\ touch' \in BOOLEAN /\ scroll' \in BOOLEAN /\ used' \in BOOLEAN
    BY <1>5, Zenon DEF SwitchMode, TypeOK
  <2>5. NextButton
    BY <1>5 DEF SwitchMode
  <2> QED BY <1>1, <2>1, <2>2, <2>3, <2>4, <2>5, NextButtonTypes DEF TypeOK, inputVars
<1>6. CASE KeyEdge \/ PressA \/ ReleaseA \/ NoEdge
  <2>1. NextButton
    BY <1>6 DEF KeyEdge, PressA, ReleaseA, NoEdge
  <2>2. keys' \subseteq Keys
    BY <1>6, <2>1, NextButtonTypes DEF KeyEdge, PressA, ReleaseA, NoEdge, SendKey, TypeOK
  <2>3. caught' \subseteq Keys /\ UNCHANGED <<cursor, used, last, quiet>>
    BY <1>6 DEF KeyEdge, PressA, ReleaseA, NoEdge, TypeOK, modeVars
  <2>4. touch' \in BOOLEAN /\ scroll' \in BOOLEAN
    BY <1>6 DEF KeyEdge, PressA, ReleaseA, NoEdge, TypeOK, modeVars
  <2>5. UNCHANGED inputVars
    BY <2>1 DEF NextButton
  <2> QED
    BY <1>1, <2>1, <2>2, <2>3, <2>4, <2>5, NextButtonTypes DEF TypeOK, inputVars
<1> QED BY <1>2, <1>3, <1>4, <1>5, <1>6, <1>7, <1>8, <1>9 DEF Next

\* What a button's edge does to the keys the guest holds down.
LEMMA EdgeKeys ==
    ASSUME IInv, NextButton, Pressed \/ Released, NEW visible \in BOOLEAN, SendKey(visible),
           visible => (cursor \/ Switches)
    PROVE  /\ "select" \notin keys'
           /\ \A k \in keys' \ previous' :
                 k \in keys /\ (k \in caught \/ (k = Button /\ visible /\ k \notin {"B", "start"}))
           /\ {"B", "start"} \cap keys' \subseteq previous'
           /\ visible => keys' \ {"B", "start"} \subseteq keys
  BY DEF IInv, NextButton, Pressed, Released, SendKey, NoStuckKeyUnlessCaught, KeysOfTheMode

\* Keys and clicks follow the buttons.
LEMMA KeySteps ==
    ASSUME IInv, [Next]_vars
    PROVE  ClickHeld' /\ NoStuckKeyUnlessCaught' /\ KeysOfTheMode'
<1> USE DEF IInv, ClickHeld, NoStuckKeyUnlessCaught, KeysOfTheMode
<1>1. CASE SwitchMode
  <2>1. NextButton /\ Pressed /\ Switches /\ SendKey(~cursor) /\ Button \in previous'
        /\ cursor' = ~cursor
    BY <1>1 DEF SwitchMode, Switches, Pressed, NextButton
  <2>2. "A" \in previous => "A" \in previous'
    BY <2>1 DEF NextButton
  <2>3. ClickHeld'
    BY <1>1, <2>2 DEF SwitchMode
  <2>4. "select" \notin keys' /\ {"B", "start"} \cap keys' \subseteq previous'
    BY <2>1, EdgeKeys DEF TypeOK
  <2>5. CASE cursor
    <3>1. caught' = caught \cap keys' /\ keys' = IF Button = "select" THEN keys ELSE keys \cup {Button}
      BY <1>1, <2>1, <2>5 DEF SwitchMode, SendKey
    <3>2. keys' \ previous' \subseteq caught'
      BY <2>1, <3>1 DEF NextButton, Pressed
    <3> QED BY <2>1, <2>3, <2>4, <2>5, <3>1, <3>2
  <2>6. CASE ~cursor
    <3>1. caught' = keys'
      BY <1>1, <2>6 DEF SwitchMode
    <3> QED BY <2>1, <2>3, <2>4, <2>6, <3>1
  <2> QED BY <2>5, <2>6
<1>2. CASE KeyEdge \/ PressA \/ ReleaseA
  <2>1. NextButton /\ (Pressed \/ Released) /\ SendKey(cursor) /\ caught' = caught \cap keys'
        /\ cursor' = cursor
    BY <1>2 DEF KeyEdge, PressA, ReleaseA
  <2>2. ClickHeld'
    BY <1>2 DEF KeyEdge, PressA, ReleaseA, NextButton, Pressed
  <2>3. /\ "select" \notin keys'
        /\ {"B", "start"} \cap keys' \subseteq previous'
        /\ keys' \ previous' \subseteq caught
        /\ cursor => keys' \ {"B", "start"} \subseteq keys
    BY <2>1, EdgeKeys DEF TypeOK
  <2> QED BY <2>1, <2>2, <2>3
<1>3. CASE NoEdge
  BY <1>3 DEF NoEdge, NextButton, Pressed, Released, modeVars
<1>4. CASE ReadInput \/ FrameLimit \/ RestartTimer \/ HideIdleCursor \/ KeepCursor \/ Scroll
           \/ ScrollEnds \/ NoScroll \/ Tick \/ UNCHANGED vars
  BY <1>4 DEF ReadInput, FrameLimit, RestartTimer, HideIdleCursor, KeepCursor, Scroll,
              ScrollEnds, NoScroll, Tick, modeVars, vars
<1> QED BY <1>1, <1>2, <1>3, <1>4 DEF Next

\* The idle timer never runs ahead of the time that has passed.
LEMMA TimerSteps ==
    ASSUME IInv, [Next]_vars
    PROVE  TimerNotFast'
<1> USE InputAssumption DEF IInv, TypeOK
<1>1. ASSUME UNCHANGED <<now, last, quiet>>, cursor' => cursor
      PROVE  TimerNotFast'
  BY <1>1 DEF TimerNotFast, Elapsed
<1>2. ASSUME last' = now, now' = now
      PROVE  TimerNotFast'
  <2>1. now' - last' = 0 /\ quiet' >= 0
    BY <1>2, TypeSteps
  <2>2. (now' - last') % TickMod = 0
    BY <2>1, Remainder
  <2> QED BY <2>1, <2>2 DEF TimerNotFast, Elapsed
<1>3. CASE ReadInput
  <2>1. PICK delay \in Delays :
            /\ now' = (now + delay) % TickMod
            /\ quiet' = IF quiet + delay < IdleLimit THEN quiet + delay ELSE IdleLimit
    BY <1>3 DEF ReadInput
  <2>2. (now' - last) % TickMod <= ((now - last) % TickMod) + delay
    BY <2>1, ElapsedGrows
  <2>3. last' = last /\ cursor' = cursor
    BY <1>3 DEF ReadInput, modeVars
  <2>4. (now - last) % TickMod \in Nat /\ (now' - last) % TickMod \in Nat /\ delay \in Nat
    <3>1. now - last \in Int /\ now' - last \in Int /\ delay \in Nat
      BY <2>1, TypeSteps
    <3>2. \A a \in Int : a % TickMod \in Nat
      BY Remainder
    <3> QED BY <3>1, <3>2
  <2> DEFINE e == (now - last) % TickMod
             f == (now' - last) % TickMod
  <2>5. e \in Nat /\ f \in Nat /\ f <= e + delay
    BY <2>2, <2>4
  <2>6. TimerNotFast <=> ((cursor /\ quiet < IdleLimit) => e <= quiet)
    BY DEF TimerNotFast, Elapsed
  <2>7. TimerNotFast' <=> ((cursor' /\ quiet' < IdleLimit) => f <= quiet')
    BY <2>3 DEF TimerNotFast, Elapsed
  <2> HIDE DEF e, f
  <2> QED BY <2>1, <2>3, <2>4, <2>5, <2>6, <2>7
<1>4. CASE RestartTimer
  BY <1>2, <1>4 DEF RestartTimer, inputVars
<1>5. CASE SwitchMode
  BY <1>1, <1>2, <1>5 DEF SwitchMode, NextButton, inputVars
<1>6. CASE KeyEdge \/ PressA \/ ReleaseA \/ NoEdge
  BY <1>1, <1>6 DEF KeyEdge, PressA, ReleaseA, NoEdge, NextButton, inputVars, modeVars
<1>7. CASE FrameLimit \/ HideIdleCursor \/ KeepCursor \/ Scroll \/ ScrollEnds \/ NoScroll
           \/ Tick \/ UNCHANGED vars
  BY <1>1, <1>7 DEF FrameLimit, HideIdleCursor, KeepCursor, Scroll, ScrollEnds, NoScroll,
                    Tick, inputVars, modeVars, vars
<1> QED BY <1>3, <1>4, <1>5, <1>6, <1>7 DEF Next

\* IInv is an inductive invariant of the loop.
THEOREM Invariance == Spec => []IInv
<1>1. IInv /\ [Next]_vars => IInv'
  BY TypeSteps, TouchSteps, ScrollSteps, KeySteps, TimerSteps DEF IInv
<1> QED BY InitInvariant, <1>1, PTL DEF Spec

\* The loop's variables keep their types; the button index stays inside the
\* table, whatever its length.
THEOREM TypeCorrect == Spec => []TypeOK
<1>1. IInv => TypeOK
  BY DEF IInv
<1> QED BY <1>1, Invariance, PTL

\* The guest's touch stream is well formed for any buttons and stick.
THEOREM TouchStream == Spec => []TouchStreamSound
<1>1. IInv => TouchStreamSound
  BY DEF IInv
<1> QED BY <1>1, Invariance, PTL

\* No finger is down that the player does not hold, nor any while driving.
THEOREM FingerHeld == Spec => []PointerHeldByInput
<1>1. IInv => PointerHeldByInput
  BY DEF IInv, PointerHeldByInput, FingerNeedsCursor, ClickHeld, ScrollHeld
<1> QED BY <1>1, Invariance, PTL

\* The guest holds down no key the player released unless the mode switch
\* caught it, and B and Start never.
THEOREM KeysReleased == Spec => []NoStuckKeyUnlessCaught
<1>1. IInv => NoStuckKeyUnlessCaught
  BY DEF IInv
<1> QED BY <1>1, Invariance, PTL

\* The cursor is hidden only after IdleLimit milliseconds without counted
\* input, for any modulus of the tick counter.
THEOREM IdleTimer == Spec => IdleCursorHides
<1>1. IInv /\ [Next]_vars => [HideIdleCursor => quiet = IdleLimit]_vars
  <2> SUFFICES ASSUME IInv, HideIdleCursor PROVE quiet = IdleLimit
    OBVIOUS
  <2>1. Elapsed \in Nat /\ Elapsed >= IdleLimit /\ cursor
    BY Remainder, InputAssumption DEF HideIdleCursor, Elapsed, IInv, TypeOK
  <2> QED BY <2>1, InputAssumption DEF IInv, TypeOK, TimerNotFast
<1> QED BY <1>1, Invariance, PTL DEF Spec, IdleCursorHides
=============================================================================
