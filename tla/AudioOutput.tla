------------------------------ MODULE AudioOutput ------------------------------
(***************************************************************************)
(* Sound on its way to the one SDL device: the OpenSL queue of guest       *)
(* threads (runtime/src/opensl_bridge.c), the audio calls of the platform  *)
(* runtime (runtime/src/platform_probe.c:893-929), and the frame loop, in  *)
(* which the main thread runs the game, pulls the FMOD mixer, pumps the    *)
(* OpenSL callback and presents the frame (jni_bridge.c:2370-2442).        *)
(*                                                                         *)
(* There is no lock: a step is one access to what the threads share, or    *)
(* one SDL call.  Calls outlive nfsmw_platform_runtime_stop, which runs on *)
(* the main thread while guest threads go on.  A call through a library    *)
(* that is unloaded or through cleared memory ends the process; crash      *)
(* tells whether the call had been made before the stop was over, or       *)
(* whether the pump ran while the guest replaced its callback.             *)
(***************************************************************************)
EXTENDS PlatformRuntime

CONSTANTS Main,       (* the thread of the frame loop                      *)
          Guests,     (* guest threads that queue sound                    *)
          Owner,      (* the one that makes, registers and destroys the    *)
                      (* player                                            *)
          Clients,    (* callbacks, each with the context of its own       *)
          Null,       (* NULL, and what was not read yet                   *)
          FmodBytes,  (* bytes FMOD mixes at a time                        *)
          BufferBytes,(* bytes of an OpenSL buffer                         *)
          MaxPrimed   (* bound on buffers queued outside the callback      *)

Threads == Guests \cup {Main}

ASSUME AudioAssumption ==
    /\ Main \notin Guests /\ Owner \in Guests
    /\ Null \notin Clients
    /\ FmodBytes \in Nat \ {0} /\ BufferBytes \in Nat \ {0} /\ MaxPrimed \in Nat

VARIABLES callback,   (* queue_callback                                    *)
          context,    (* queue_context                                     *)
          size,       (* queue_buffer_size                                 *)
          level,      (* level[d]: bytes queued on device d                *)
          loop,       (* where the frame loop is                           *)
          fmod,       (* fmod_audio_started                                *)
          do,         (* do[t]: what thread t is in the middle of          *)
          pump,       (* what the pump has read, and whether registering   *)
                      (* or destroying went on since it looked             *)
          player,     (* the guest has a player                            *)
          registered, (* history: client the player belongs to             *)
          primed,     (* history: buffers queued outside the callback      *)
          crash       (* "no", or what a call into nothing is due to       *)

soundVars == <<callback, context, size, level, player, registered, primed>>
frameVars == <<loop, fmod, pump, gl>>
audioVars == <<callback, context, size, level, loop, fmod, do, pump, player, registered,
               primed, crash>>
restVars == <<held, plat, passed>>  \* no audio call and no frame changes these

Idle == [at |-> "idle", device |-> NoDevice, early |-> FALSE]
Unread == [callback |-> Null, context |-> Null, left |-> {}, touched |-> FALSE]

AudioInit ==
    /\ callback = Null /\ context = Null /\ size = 0
    /\ level = [d \in Devices |-> 0]
    /\ loop = "enter" /\ fmod = FALSE
    /\ do = [t \in Threads |-> Idle]
    /\ pump = Unread
    /\ player = FALSE /\ registered = Null /\ primed = 0
    /\ crash = "no"

At(t, place) == do[t].at = place
GoOn(t, place) == do' = [do EXCEPT ![t].at = place]

\* A call begins; early: before the stop was over.
Begin(t, place) ==
    do' = [do EXCEPT ![t] = [at |-> place, device |-> NoDevice, early |-> plat # "stopped"]]

\* It ends.  The main thread looks at the outcome.
End(t, ok) ==
    LET place == IF t # Main THEN "idle" ELSE IF ok THEN "done" ELSE "refused"
    IN  do' = [do EXCEPT ![t] = [at |-> place, device |-> NoDevice, early |-> FALSE]]

Crash(why) ==
    /\ crash' = why
    /\ UNCHANGED <<held, open, known, plat, passed, soundVars, frameVars, do>>

Stray(t) == Crash(IF do[t].early THEN "overlapped" ELSE "unexplained")
-----------------------------------------------------------------------------
(* nfsmw_platform_runtime_audio_start                                      *)

\* What is there already is taken, whatever its format.
StartAudio(t) ==
    /\ IF ~known.started THEN End(t, FALSE)
       ELSE IF known.device # NoDevice THEN End(t, TRUE)
       ELSE Begin(t, "open")

\* SDL_OpenAudioDevice; after SDL_Quit it fails.
OpenDevice(t) ==
    /\ At(t, "open")
    /\ IF "library" \notin held THEN Stray(t)
       ELSE \E d \in {NoDevice} \cup (IF "sdl" \in held THEN Devices \ open ELSE {}) :
               /\ open' = open \cup ({d} \ {NoDevice})
               /\ level' = [e \in Devices |-> IF e = d THEN 0 ELSE level[e]]
               /\ do' = [do EXCEPT ![t] = [at |-> "store", device |-> d, early |-> @.early]]
               /\ UNCHANGED <<restVars, known, frameVars, callback, context, size, player,
                              registered, primed, crash>>

\* The handle is stored and the device unpaused, or the error is fetched.
StoreDevice(t) ==
    /\ At(t, "store")
    /\ IF "library" \notin held /\ ~(do[t].device = NoDevice /\ plat = "stopped")
       THEN Stray(t)
       ELSE /\ known' = [known EXCEPT !.device = do[t].device]
            /\ End(t, do[t].device # NoDevice)
            /\ player' = (player \/ (t = Owner /\ do[t].device # NoDevice))
            /\ UNCHANGED <<restVars, open, frameVars, callback, context, size, level,
                           registered, primed, crash>>
-----------------------------------------------------------------------------
(* nfsmw_platform_runtime_audio_queue and queue_enqueue                    *)

QueueCheck(t) ==
    IF known.device = NoDevice THEN End(t, FALSE) ELSE Begin(t, "queue")

\* Mutant of QueueSamples: the samples go to the device twice.
QueueTwice(t, bytes, next) ==
    IF "library" \notin held THEN Stray(t)
    ELSE /\ \/ /\ known.device \in open
               /\ level' = [level EXCEPT ![known.device] = @ + 2 * bytes]
               /\ IF next = "done" THEN End(t, TRUE) ELSE GoOn(t, next)
            \/ End(t, FALSE) /\ UNCHANGED level
         /\ UNCHANGED <<restVars, open, known, frameVars, callback, context, size, player,
                        registered, primed, crash>>

\* SDL_QueueAudio, with the handle read once more; it fails on a device that
\* is closed, and may fail.
QueueSamples(t, bytes, next) ==
    IF "library" \notin held THEN Stray(t)
    ELSE /\ \/ /\ known.device \in open
               /\ level' = [level EXCEPT ![known.device] = @ + bytes]
               /\ IF next = "done" THEN End(t, TRUE) ELSE GoOn(t, next)
            \/ End(t, FALSE) /\ UNCHANGED level
         /\ UNCHANGED <<restVars, open, known, frameVars, callback, context, size, player,
                        registered, primed, crash>>

EnqueueSamples(t) ==
    At(t, "queue") /\ (t = Main => loop = "called") /\ QueueSamples(t, BufferBytes, "size")

\* queue_enqueue notes the size after the samples are queued.
EnqueueSize(t) ==
    /\ At(t, "size")
    /\ size' = BufferBytes
    /\ End(t, TRUE)
    /\ UNCHANGED <<restVars, open, known, frameVars, callback, context, level, player,
                   registered, primed, crash>>

\* nfsmw_platform_runtime_audio_queued as the main thread asks it, which is
\* also the one that stops.
Queued == IF known.device \in open THEN level[known.device] ELSE 0
-----------------------------------------------------------------------------
(* What guest threads call.                                                *)

Touched == pump' = [pump EXCEPT !.touched = @ \/ loop \in {"level", "load", "called"}]

CreatePlayer ==
    /\ At(Owner, "idle") /\ ~player
    /\ StartAudio(Owner)
    /\ player' = (known.started /\ known.device # NoDevice)
    /\ UNCHANGED <<restVars, open, known, frameVars, callback, context, size, level, registered,
                   primed, crash>>

\* queue_register_callback stores the callback, then its context.
Register(c) ==
    /\ At(Owner, "idle") /\ player
    /\ callback' = c
    /\ registered' = c
    /\ Begin(Owner, "context")
    /\ Touched
    /\ UNCHANGED <<restVars, open, known, context, size, level, loop, fmod, gl, player, primed,
                   crash>>

RegisterContext ==
    /\ At(Owner, "context")
    /\ context' = registered
    /\ End(Owner, TRUE)
    /\ Touched
    /\ UNCHANGED <<restVars, open, known, callback, size, level, loop, fmod, gl, player,
                   registered, primed, crash>>

\* Mutant of DestroyPlayer: the callback of the player stays.
DestroyPlayerKeeping ==
    /\ At(Owner, "idle") /\ player
    /\ player' = FALSE /\ registered' = Null
    /\ Begin(Owner, "drop context")
    /\ Touched
    /\ UNCHANGED <<restVars, open, known, callback, context, size, level, loop, fmod, gl,
                   primed, crash>>

\* object_destroy on the player; what it has queued still plays.
DestroyPlayer ==
    /\ At(Owner, "idle") /\ player
    /\ callback' = Null
    /\ player' = FALSE /\ registered' = Null
    /\ Begin(Owner, "drop context")
    /\ Touched
    /\ UNCHANGED <<restVars, open, known, context, size, level, loop, fmod, gl, primed, crash>>

DestroyRest ==
    /\ \/ At(Owner, "drop context") /\ context' = Null /\ GoOn(Owner, "drop size") /\ UNCHANGED size
       \/ At(Owner, "drop size") /\ size' = 0 /\ End(Owner, TRUE) /\ UNCHANGED context
    /\ Touched
    /\ UNCHANGED <<restVars, open, known, callback, level, loop, fmod, gl, player, registered,
                   primed, crash>>

\* A guest thread queues a buffer on its own account.
Enqueue(t) ==
    /\ At(t, "idle") /\ player /\ primed < MaxPrimed
    /\ QueueCheck(t)
    /\ primed' = primed + 1
    /\ UNCHANGED <<restVars, open, known, frameVars, callback, context, size, level, player,
                   registered, crash>>

\* queue_get_state: a guest thread asks how much is queued, whichever thread
\* stops the runtime meanwhile.  Without a device the answer is 0.
AskQueued(t) ==
    /\ At(t, "idle") /\ player /\ known.device # NoDevice
    /\ Begin(t, "ask")
    /\ UNCHANGED <<restVars, open, known, frameVars, soundVars, crash>>

AnswerQueued(t) ==
    /\ At(t, "ask")
    /\ IF "library" \notin held THEN Stray(t)
       ELSE End(t, TRUE) /\ UNCHANGED <<restVars, open, known, frameVars, soundVars, crash>>

GuestSound ==
    \/ CreatePlayer \/ \E c \in Clients : Register(c)
    \/ RegisterContext \/ DestroyPlayer \/ DestroyRest
    \/ \E t \in Guests : Enqueue(t) \/ AskQueued(t) \/ AnswerQueued(t)
    \/ \E t \in Guests : OpenDevice(t) \/ StoreDevice(t) \/ EnqueueSamples(t) \/ EnqueueSize(t)

\* The device plays what is queued.
Drain ==
    /\ \E d \in open : level[d] > 0 /\ level' = [level EXCEPT ![d] = @ - 1]
    /\ UNCHANGED <<restVars, open, known, frameVars, callback, context, size, player,
                   registered, primed, crash, do>>
-----------------------------------------------------------------------------
(* One turn of the frame loop in nfsmw_jni_run.                            *)

Frame(next) == loop' = next /\ UNCHANGED <<restVars, open, known, soundVars, crash>>

\* All is looked up and started that the loop needs.
EnterLoop ==
    /\ loop = "enter"
    /\ Frame("tick")
    /\ UNCHANGED <<fmod, pump, gl, do>>

\* The game's tick, which leaves GL in any state; then FMOD is asked for its
\* sample rate: not there yet, nonsense, or fit to start.
Tick ==
    /\ loop = "tick"
    /\ \/ Frame(IF fmod THEN "mixer" ELSE "pump")
       \/ ~fmod /\ (Frame("failed") \/ Frame("fmod"))
    /\ gl' \in GlStates
    /\ UNCHANGED <<fmod, pump, do>>

FmodStarts ==
    /\ loop = "fmod" /\ At(Main, "idle")
    /\ StartAudio(Main)
    /\ Frame(loop)
    /\ UNCHANGED <<fmod, pump, gl>>

\* "FMOD AudioTrack SDL output startup failed" and "PCM queue failed".
FmodAnswered ==
    /\ loop \in {"fmod", "fmod queue"} /\ do[Main].at \in {"done", "refused"}
    /\ do' = [do EXCEPT ![Main] = Idle]
    /\ fmod' = (fmod \/ At(Main, "done"))
    /\ Frame(IF At(Main, "refused") THEN "failed" ELSE IF loop = "fmod" THEN "mixer" ELSE "pump")
    /\ UNCHANGED <<pump, gl>>

\* Mutant of Mixer: the queue's length is not looked at.
MixerUnchecked ==
    /\ loop = "mixer"
    /\ \/ Frame("pump") /\ UNCHANGED do
       \/ Frame("fmod queue") /\ QueueCheck(Main)
    /\ UNCHANGED <<fmod, pump, gl>>

\* One buffer is mixed while no more than two are queued and the mixer runs.
Mixer ==
    /\ loop = "mixer"
    /\ \/ Frame("pump") /\ UNCHANGED do
       \/ Queued <= 2 * FmodBytes /\ Frame("fmod queue") /\ QueueCheck(Main)
    /\ UNCHANGED <<fmod, pump, gl>>

FmodQueue ==
    /\ loop = "fmod queue" /\ At(Main, "queue")
    /\ QueueSamples(Main, FmodBytes, "done")

\* nfsmw_opensl_pump.  callback_active is never set here: the pump is the
\* main thread's, and no callback pumps.
PumpCheck ==
    /\ loop = "pump"
    /\ Frame(IF callback # Null /\ size # 0 THEN "level" ELSE "present")
    /\ pump' = [Unread EXCEPT !.left = {"callback", "context"},
                !.touched = do[Owner].at \in {"context", "drop context", "drop size"}]
    /\ UNCHANGED <<fmod, gl, do>>

PumpLevel ==
    /\ loop = "level"
    /\ Frame(IF Queued <= size THEN "load" ELSE "present")
    /\ UNCHANGED <<fmod, pump, gl, do>>

\* The callback and its context are loaded one by one, in either order.
PumpLoad ==
    /\ loop = "load"
    /\ \/ /\ "callback" \in pump.left
          /\ pump' = [pump EXCEPT !.callback = callback, !.left = @ \ {"callback"}]
       \/ /\ "context" \in pump.left
          /\ pump' = [pump EXCEPT !.context = context, !.left = @ \ {"context"}]
    /\ Frame(loop)
    /\ UNCHANGED <<fmod, gl, do>>

PumpCall ==
    /\ loop = "load" /\ pump.left = {}
    /\ IF pump.callback = Null
       THEN Crash(IF pump.touched THEN "overlapped" ELSE "unexplained")
       ELSE Frame("called") /\ UNCHANGED <<fmod, pump, gl, do>>

\* In the callback the guest queues a buffer, or none.
CallbackEnqueues ==
    /\ loop = "called" /\ At(Main, "idle")
    /\ QueueCheck(Main)
    /\ Frame(loop)
    /\ UNCHANGED <<fmod, pump, gl>>

PumpReturns ==
    /\ loop = "called" /\ do[Main].at \in {"idle", "done", "refused"}
    /\ do' = [do EXCEPT ![Main] = Idle]
    /\ Frame("present")
    /\ pump' = Unread
    /\ UNCHANGED <<fmod, gl>>

\* nfsmw_platform_runtime_present, then the exit chord or the next frame.
Present ==
    /\ loop = "present"
    /\ \E capture, cursor \in BOOLEAN : gl' = Presented(gl, capture, cursor)
    /\ Frame("tick") \/ Frame("quit")
    /\ pump' = Unread
    /\ UNCHANGED <<fmod, do>>

FrameLoop ==
    \/ EnterLoop \/ Tick \/ FmodStarts \/ FmodAnswered \/ Mixer \/ FmodQueue \/ PumpCheck \/ PumpLevel
    \/ PumpLoad \/ PumpCall \/ CallbackEnqueues \/ PumpReturns \/ Present
    \/ OpenDevice(Main) \/ StoreDevice(Main) \/ EnqueueSamples(Main) \/ EnqueueSize(Main)
-----------------------------------------------------------------------------
\* The pump calls what the guest registered last, with the context that was
\* registered with it, unless it ran while the guest was registering or
\* destroying: the check, the level and the two loads are four looks at
\* what other threads write (opensl_bridge.c:276-281).
CallsItsClient ==
    loop = "called" /\ ~pump.touched =>
        pump.callback = registered /\ pump.context = registered

\* Sound calls into nothing only when a guest thread was inside one while
\* the runtime stopped, or was destroying its player while the pump ran:
\* one that begins when the stop is over is refused (platform_probe.c:953).
CrashOnlyOverlapped == crash # "unexplained"

\* However mixer, callback and guest threads share the device, it never has
\* more queued than either pull allows, but for what guest threads queued
\* on their own account (jni_bridge.c:2411-2425, opensl_bridge.c:278).
QueueBounded ==
    LET pulls == {3 * FmodBytes, 2 * BufferBytes}
    IN  \A d \in Devices :
            level[d] <= (CHOOSE p \in pulls : \A q \in pulls : q <= p) + primed * BufferBytes

\* Presenting a frame gives back the GL state that the game's tick left:
\* the captured framebuffer, the scissor box and test, the clear color and
\* the mask (platform_probe.c:713-780).
GuestGlKept == [][loop = "present" => gl' = gl]_<<platformVars, audioVars>>
=============================================================================
