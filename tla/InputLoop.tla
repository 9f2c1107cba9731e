------------------------------ MODULE InputLoop ------------------------------
(***************************************************************************)
(* The input half of the game loop in nfsmw_jni_run (jni_bridge.c): how a  *)
(* frame turns the controller's state into touch events, MOGA key events   *)
(* and the switch between mouse controls (cursor shown) and driving        *)
(* controls.  The loop is one thread; a frame is a sequence of stages.     *)
(*                                                                         *)
(* Guest code runs inside every touch and key call, so the invariants are  *)
(* stated of every stage and not only of whole frames.                     *)
(***************************************************************************)
EXTENDS Integers, Sequences

CONSTANTS Order,     (* buttons with a key code, in the order of the loop  *)
          Deflection,(* positions of the right stick, as scroll steps:     *)
                     (* raw / 8192; 1 stands for exactly 8192              *)
          Delays,    (* milliseconds a frame may take                      *)
          IdleLimit, (* 15000                                              *)
          TickMod    (* the tick counter wraps: 2^32                       *)

ASSUME InputAssumption ==
    /\ Order \in Seq(STRING) /\ Order # <<>>
    /\ Deflection \subseteq Int /\ 0 \in Deflection
    /\ IdleLimit \in Nat \ {0}
    /\ TickMod \in Nat \ {0}
    /\ Delays \subseteq 0..TickMod - 1

Keys == {Order[i] : i \in 1..Len(Order)}

VARIABLES stage,      (* where the frame is                                *)
          index,      (* the button the edge loop is at                    *)
          buttons,    (* buttons down in this frame                        *)
          previous,   (* previous[]: buttons down when last looked at      *)
          analog,     (* right stick                                       *)
          cursor,     (* cursor_visible                                    *)
          touch,      (* touch_down                                        *)
          scroll,     (* scroll_touch_down                                 *)
          used,       (* gameplay_mode_used                                *)
          now, last,  (* ticks, and last_cursor_activity                   *)
          pointer,    (* the guest's view of the finger: "up", "down", or  *)
                      (* "bad" after an event that does not fit            *)
          keys,       (* keys the guest has seen go down and not up        *)
          caught,     (* history: keys the guest saw down when the cursor  *)
                      (* came on, until it sees them up                    *)
          quiet       (* history: time without counted input, capped       *)

modeVars == <<cursor, touch, scroll, used, last, pointer, caught>>
inputVars == <<buttons, analog, now>>
vars == <<stage, index, buttons, previous, analog, cursor, touch, scroll, used,
          now, last, pointer, keys, caught, quiet>>

TypeOK ==
    /\ stage \in {"input", "idle", "scroll", "edges", "tick", "exit"}
    /\ index \in 1..Len(Order)
    /\ buttons \subseteq Keys /\ previous \subseteq Keys
    /\ analog \in Deflection
    /\ cursor \in BOOLEAN /\ touch \in BOOLEAN /\ scroll \in BOOLEAN /\ used \in BOOLEAN
    /\ now \in 0..TickMod - 1 /\ last \in 0..TickMod - 1
    /\ pointer \in {"up", "down", "bad"}
    /\ keys \subseteq Keys /\ caught \subseteq Keys
    /\ quiet \in 0..IdleLimit

Init ==
    /\ stage = "input" /\ index = 1
    /\ buttons = {} /\ previous = {} /\ analog = 0
    /\ cursor = TRUE
    /\ touch = FALSE /\ scroll = FALSE /\ used = FALSE
    /\ now \in 0..TickMod - 1 /\ last = now
    /\ pointer = "up" /\ keys = {} /\ caught = {}
    /\ quiet = 0

\* Touch events as the guest sees them (nativeOnTouch action 0, 1, 2).
Down(p) == IF p = "up" THEN "down" ELSE "bad"
Up(p) == IF p = "down" THEN "up" ELSE "bad"
Move(p) == IF p = "down" THEN "down" ELSE "bad"
UpIf(held, p) == IF held THEN Up(p) ELSE p

\* Scroll steps: the right stick and the shoulder buttons add up.
ScrollStep ==
    (IF "R1" \in buttons THEN 4 ELSE 0) - (IF "L1" \in buttons THEN 4 ELSE 0) - analog

\* What the idle timer counts as input: a button, or a stick past its
\* threshold and not on it.
Counted == buttons # {} \/ analog > 1 \/ analog < -1

\* The unsigned difference of two readings of the tick counter.
Elapsed == (now - last) % TickMod
-----------------------------------------------------------------------------
(* nfsmw_platform_runtime_input, some time after the last frame's.         *)
ReadInput ==
    /\ stage = "input"
    /\ buttons' \in SUBSET Keys
    /\ analog' \in Deflection
    /\ \E delay \in Delays :
          /\ now' = (now + delay) % TickMod
          /\ quiet' = IF quiet + delay < IdleLimit THEN quiet + delay ELSE IdleLimit
    /\ stage' = "idle"
    /\ UNCHANGED <<index, previous, modeVars, keys>>

\* The frame limit ends the loop.
FrameLimit ==
    /\ stage = "input"
    /\ stage' = "exit"
    /\ UNCHANGED <<index, inputVars, previous, modeVars, keys, quiet>>

\* Mutant of RestartTimer: input does not restart it.
IgnoreInput ==
    /\ stage = "idle" /\ cursor /\ Counted
    /\ quiet' = 0
    /\ stage' = "scroll"
    /\ UNCHANGED <<index, inputVars, previous, modeVars, keys>>

\* The idle timer runs while the cursor is shown: input restarts it, ...
RestartTimer ==
    /\ stage = "idle" /\ cursor /\ Counted
    /\ last' = now
    /\ quiet' = 0
    /\ stage' = "scroll"
    /\ UNCHANGED <<index, inputVars, previous, cursor, touch, scroll, used, pointer, keys, caught>>

\* Mutant of HideIdleCursor: the finger stays down.
HideHoldingFinger ==
    /\ stage = "idle" /\ cursor /\ ~Counted
    /\ Elapsed >= IdleLimit
    /\ cursor' = FALSE
    /\ used' = TRUE
    /\ stage' = "scroll"
    /\ UNCHANGED <<index, inputVars, previous, touch, scroll, last, pointer, keys, caught, quiet>>

\* ... and when it runs out a held finger is lifted and driving begins.
HideIdleCursor ==
    /\ stage = "idle" /\ cursor /\ ~Counted
    /\ Elapsed >= IdleLimit
    /\ pointer' = UpIf(touch \/ scroll, pointer)
    /\ touch' = FALSE /\ scroll' = FALSE
    /\ cursor' = FALSE
    /\ used' = TRUE
    /\ stage' = "scroll"
    /\ UNCHANGED <<index, inputVars, previous, last, keys, caught, quiet>>

KeepCursor ==
    /\ stage = "idle"
    /\ cursor => (~Counted /\ Elapsed < IdleLimit)
    /\ stage' = "scroll"
    /\ UNCHANGED <<index, inputVars, previous, modeVars, keys, quiet>>

\* Mutant of Scroll: a click in progress is forgotten and not ended.
ScrollOverClick ==
    /\ stage = "scroll" /\ cursor /\ ScrollStep # 0
    /\ pointer' = Move(IF scroll THEN pointer ELSE Down(pointer))
    /\ touch' = FALSE
    /\ scroll' = TRUE
    /\ stage' = "edges"
    /\ UNCHANGED <<index, inputVars, previous, cursor, used, last, keys, caught, quiet>>

\* Scrolling drags a finger of its own: a click in progress is ended first.
Scroll ==
    /\ stage = "scroll" /\ cursor /\ ScrollStep # 0
    /\ LET lifted == UpIf(touch, pointer)
           pressed == IF scroll THEN lifted ELSE Down(lifted)
       IN  pointer' = Move(pressed)
    /\ touch' = FALSE
    /\ scroll' = TRUE
    /\ stage' = "edges"
    /\ UNCHANGED <<index, inputVars, previous, cursor, used, last, keys, caught, quiet>>

\* Mutant of ScrollEnds: the drag goes on without input.
ScrollStaysHeld ==
    /\ stage = "scroll" /\ cursor /\ ScrollStep = 0
    /\ stage' = "edges"
    /\ UNCHANGED <<index, inputVars, previous, modeVars, keys, quiet>>

ScrollEnds ==
    /\ stage = "scroll" /\ cursor /\ ScrollStep = 0
    /\ pointer' = UpIf(scroll, pointer)
    /\ scroll' = FALSE
    /\ stage' = "edges"
    /\ UNCHANGED <<index, inputVars, previous, cursor, touch, used, last, keys, caught, quiet>>

NoScroll ==
    /\ stage = "scroll" /\ ~cursor
    /\ stage' = "edges"
    /\ UNCHANGED <<index, inputVars, previous, modeVars, keys, quiet>>
-----------------------------------------------------------------------------
(* The edge loop: one button after the other, when it changed.             *)

Button == Order[index]
Pressed == Button \in buttons \ previous
Released == Button \in previous \ buttons

\* previous[index] = buttons[index]; on to the next button or the tick.
NextButton ==
    /\ stage = "edges"
    /\ previous' = IF Button \in buttons THEN previous \cup {Button} ELSE previous \ {Button}
    /\ IF index < Len(Order)
       THEN index' = index + 1 /\ UNCHANGED stage
       ELSE index' = 1 /\ stage' = "tick"
    /\ UNCHANGED inputVars

\* Select, unless it is half of the exit chord, and Start, once driving
\* controls have been used, switch the mode.
Switches ==
    /\ Pressed
    /\ \/ Button = "select" /\ "start" \notin buttons
       \/ Button = "start" /\ used

\* Mutant of SendKey: mouse mode withholds B and Start too.
SendKeyDriving(visible) ==
    keys' = IF Button = "select" \/ visible THEN keys
            ELSE IF Pressed THEN keys \cup {Button} ELSE keys \ {Button}

\* The key event of the button, withheld for Select and, in mouse mode, for
\* all but B and Start.
SendKey(visible) ==
    keys' = IF Button = "select" \/ (visible /\ Button \notin {"B", "start"})
            THEN keys
            ELSE IF Pressed THEN keys \cup {Button} ELSE keys \ {Button}

SwitchMode ==
    /\ Switches
    /\ NextButton
    /\ cursor' = ~cursor
    /\ last' = IF cursor THEN last ELSE now
    /\ quiet' = IF cursor THEN quiet ELSE 0
    /\ pointer' = UpIf(scroll, UpIf(cursor /\ touch, pointer))
    /\ touch' = (touch /\ ~cursor)
    /\ scroll' = FALSE
    /\ used' = (used \/ (Button = "select" /\ cursor))
    /\ SendKey(~cursor)
    /\ caught' = IF cursor THEN caught \cap keys' ELSE keys'

KeyEdge ==
    /\ Pressed \/ Released
    /\ ~Switches /\ Button # "A"
    /\ NextButton
    /\ SendKey(cursor)
    /\ caught' = caught \cap keys'
    /\ UNCHANGED <<cursor, touch, scroll, used, last, pointer, quiet>>

\* A clicks in mouse mode; its key goes to the guest while driving.
PressA ==
    /\ Button = "A" /\ Pressed
    /\ NextButton
    /\ SendKey(cursor)
    /\ caught' = caught \cap keys'
    /\ IF cursor /\ ~touch
       THEN /\ pointer' = Down(UpIf(scroll, pointer))
            /\ scroll' = FALSE
            /\ touch' = TRUE
       ELSE UNCHANGED <<pointer, scroll, touch>>
    /\ UNCHANGED <<cursor, used, last, quiet>>

ReleaseA ==
    /\ Button = "A" /\ Released
    /\ NextButton
    /\ SendKey(cursor)
    /\ caught' = caught \cap keys'
    /\ pointer' = UpIf(touch, pointer)
    /\ touch' = FALSE
    /\ UNCHANGED <<cursor, scroll, used, last, quiet>>

NoEdge ==
    /\ ~Pressed /\ ~Released
    /\ NextButton
    /\ UNCHANGED <<modeVars, keys, quiet>>
-----------------------------------------------------------------------------
\* The guest's frame, sound and picture; Select and Start together exit.
Tick ==
    /\ stage = "tick"
    /\ stage' = IF {"select", "start"} \subseteq buttons THEN "exit" ELSE "input"
    /\ UNCHANGED <<index, inputVars, previous, modeVars, keys, quiet>>

Next ==
    \/ ReadInput \/ FrameLimit
    \/ RestartTimer \/ HideIdleCursor \/ KeepCursor
    \/ Scroll \/ ScrollEnds \/ NoScroll
    \/ SwitchMode \/ KeyEdge \/ PressA \/ ReleaseA \/ NoEdge
    \/ Tick

Spec == Init /\ [][Next]_vars
-----------------------------------------------------------------------------
\* The guest gets a well-formed touch stream whatever the player does: a
\* finger goes down only when it is up, moves and goes up only when it is
\* down, and is down exactly while the loop holds a click or a scroll,
\* never both.
TouchStreamSound ==
    /\ pointer = (IF touch \/ scroll THEN "down" ELSE "up")
    /\ ~(touch /\ scroll)

\* A click needs A, down when last looked at, and between frames a scroll
\* finger needs a frame that scrolled; both need mouse mode, so that every
\* way out of it (Select, Start, the idle timer) lifts the finger.
PointerHeldByInput ==
    /\ (touch \/ scroll) => cursor
    /\ touch => "A" \in previous
    /\ (scroll /\ stage \in {"edges", "tick", "input"}) => ScrollStep # 0

\* The guest never sees a key down that the player has released, except a
\* key held while the mode switched to the mouse; B and Start never.
NoStuckKeyUnlessCaught ==
    /\ keys \ previous \subseteq caught
    /\ {"B", "start"} \cap caught \subseteq previous

\* The cursor goes only after IdleLimit without counted input, also when the
\* tick counter wraps meanwhile.
IdleCursorHides ==
    [][HideIdleCursor => quiet = IdleLimit]_vars
=============================================================================
