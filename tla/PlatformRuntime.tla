---------------------------- MODULE PlatformRuntime ----------------------------
(***************************************************************************)
(* The SDL side of the runtime (runtime/src/platform_probe.c): the         *)
(* preflight probe, start and stop of the persistent runtime with what     *)
(* each of them acquires and gives back, and the frame's presentation over *)
(* the guest's GL state.  A step is one SDL call, or a run of calls that   *)
(* acquire nothing; every call that the code checks may fail.              *)
(***************************************************************************)
EXTENDS Naturals, FiniteSets

CONSTANTS Devices,   (* handles SDL_OpenAudioDevice can return             *)
          NoDevice,  (* 0                                                  *)
          GlStates   (* GL states a guest can leave at the end of a tick   *)

ASSUME PlatformAssumption ==
    /\ NoDevice \notin Devices
    /\ GlStates # {}
    /\ \A g \in GlStates :
          /\ g = [framebuffer |-> g.framebuffer, scissor |-> g.scissor, box |-> g.box,
                  color |-> g.color, mask |-> g.mask]
          /\ g.scissor \in BOOLEAN

VARIABLES held,    (* SDL resources that are held, but for audio devices   *)
          open,    (* audio devices that are open                          *)
          known,   (* fields of the runtime structure that threads look at *)
          plat,    (* where the probe, the start or the stop is            *)
          passed,  (* tests of the probe that passed                       *)
          gl       (* GL state that the presentation touches               *)

platformVars == <<held, open, known, plat, passed, gl>>

Tests == {"graphics", "controller", "audio"}

\* What has to be there for a resource to be there.
Parent == [sdl |-> "library", window |-> "sdl", context |-> "window", controller |-> "sdl"]

Cleared == [started |-> FALSE, device |-> NoDevice]

PlatformInit ==
    /\ held = {} /\ open = {}
    /\ known = Cleared
    /\ plat = "idle" /\ passed = {}
    /\ gl \in GlStates

To(next) == plat' = next /\ UNCHANGED <<open, known, gl>>
Get(r) == held' = held \cup {r}
Drop(r) == held' = held \ {r}
Pass(t) == passed' \in {passed, passed \cup {t}}
-----------------------------------------------------------------------------
(* nfsmw_platform_probe                                                    *)

\* open_sdl: no library, or one in which a symbol is missing and which is
\* left open; or all is well.
ProbeOpen ==
    /\ plat = "idle"
    /\ \/ held' \in {{}, {"library"}} /\ To("probed")
       \/ Get("library") /\ To("probe init")
    /\ UNCHANGED passed

ProbeInit ==
    /\ plat = "probe init"
    /\ \/ Get("sdl") /\ To("probe window")
       \/ UNCHANGED held /\ To("probe close")
    /\ UNCHANGED passed

\* probe_graphics.  Subsystem, attributes or window fail: it returns.
ProbeWindow ==
    /\ plat = "probe window"
    /\ \/ Get("window") /\ To("probe context")
       \/ UNCHANGED held /\ To("probe controller")
    /\ UNCHANGED passed

ProbeContext ==
    /\ plat = "probe context"
    /\ \/ Get("context") /\ To("probe gl")
       \/ UNCHANGED held /\ To("probe unwind")
    /\ UNCHANGED passed

\* GL functions, thunk binding, three frames, drawable size.
ProbeGl ==
    /\ plat = "probe gl"
    /\ Pass("graphics")
    /\ To("probe unwind")
    /\ UNCHANGED held

ProbeUnwind ==
    /\ plat = "probe unwind"
    /\ IF "context" \in held THEN Drop("context") /\ To("probe unwind")
                             ELSE Drop("window") /\ To("probe controller")
    /\ UNCHANGED passed

\* probe_controller: the first controller that opens is closed again.
ProbeController ==
    /\ plat = "probe controller"
    /\ \/ Get("controller") /\ passed' = passed \cup {"controller"}
       \/ UNCHANGED <<held, passed>>
    /\ To("probe audio")

\* Mutant: the controller is left open.
ProbeAudioFirst ==
    /\ plat = "probe audio"
    /\ plat' = "probe queue"
    /\ open' \in {{}} \cup {{d} : d \in Devices}
    /\ UNCHANGED <<held, known, passed, gl>>

\* probe_audio
ProbeAudio ==
    /\ plat = "probe audio"
    /\ IF "controller" \in held
       THEN Drop("controller") /\ To("probe audio")
       ELSE /\ plat' = "probe queue"
            /\ open' \in {{}} \cup {{d} : d \in Devices}
            /\ UNCHANGED <<held, known, gl>>
    /\ UNCHANGED passed

\* Silence is queued on the device, which is closed whatever comes of it.
ProbeQueue ==
    /\ plat = "probe queue"
    /\ IF open = {} THEN UNCHANGED passed ELSE Pass("audio")
    /\ open' = {}
    /\ plat' = "probe quit"
    /\ UNCHANGED <<held, known, gl>>

ProbeQuit ==
    /\ \/ plat = "probe quit" /\ Drop("sdl") /\ To("probe close")
       \/ plat = "probe close" /\ Drop("library") /\ To("probed")
    /\ UNCHANGED passed

Probe ==
    \/ ProbeOpen \/ ProbeInit \/ ProbeWindow \/ ProbeContext \/ ProbeGl \/ ProbeUnwind
    \/ ProbeController \/ ProbeAudio \/ ProbeQueue \/ ProbeQuit
-----------------------------------------------------------------------------
(* nfsmw_platform_runtime_start and nfsmw_platform_runtime_stop            *)

\* One acquisition; when it or a check after it fails, all is stopped.
Acquire(from, r, next) ==
    /\ plat = from
    /\ \/ Get(r) /\ To(next)
       \/ held' \in {held, held \cup {r}} /\ To("stop audio")
    /\ UNCHANGED passed

StartOpen    == Acquire("probed", "library", "start init")
StartInit    == Acquire("start init", "sdl", "start window")
StartWindow  == Acquire("start window", "window", "start context")
StartContext == Acquire("start context", "context", "start controller")

\* A controller is not required.
StartController ==
    /\ plat = "start controller"
    /\ \/ Get("controller")
       \/ UNCHANGED held
    /\ known' = [known EXCEPT !.started = TRUE]
    /\ plat' = "running"
    /\ UNCHANGED <<open, passed, gl>>

Start == StartOpen \/ StartInit \/ StartWindow \/ StartContext \/ StartController

\* The device the runtime knows of is closed.
StopAudio ==
    /\ plat \in {"running", "stop audio"}
    /\ open' = open \ {known.device}
    /\ plat' = "stop video"
    /\ UNCHANGED <<held, known, passed, gl>>

\* Mutant of StopVideo: the window goes before its context.
StopWindowFirst ==
    /\ plat = "stop video"
    /\ IF "controller" \in held THEN Drop("controller") /\ To("stop video")
       ELSE IF "window" \in held THEN Drop("window") /\ To("stop video")
       ELSE Drop("context") /\ To("stop quit")
    /\ UNCHANGED passed

\* Controller, context and window, as far as they are there.
StopVideo ==
    /\ plat = "stop video"
    /\ IF "controller" \in held THEN Drop("controller") /\ To("stop video")
       ELSE IF "context" \in held THEN Drop("context") /\ To("stop video")
       ELSE Drop("window") /\ To("stop quit")
    /\ UNCHANGED passed

\* SDL_Quit closes every audio device that is still open.
StopQuit ==
    /\ plat = "stop quit"
    /\ Drop("sdl")
    /\ open' = {}
    /\ plat' = "stop close"
    /\ UNCHANGED <<known, passed, gl>>

StopClose ==
    /\ plat = "stop close"
    /\ Drop("library")
    /\ To("stop clear")
    /\ UNCHANGED passed

\* Mutant: the structure keeps the handles.
StopForgetting ==
    /\ plat = "stop clear"
    /\ plat' = "stopped"
    /\ UNCHANGED <<held, open, known, passed, gl>>

\* The runtime structure is set to zero.
StopClear ==
    /\ plat = "stop clear"
    /\ known' = Cleared
    /\ plat' = "stopped"
    /\ UNCHANGED <<held, open, passed, gl>>

Stop == StopAudio \/ StopVideo \/ StopQuit \/ StopClose \/ StopClear

\* nfsmw_jni_shutdown may stop what is stopped or was never started.
Stopped == plat \in {"probed", "stopped"}
-----------------------------------------------------------------------------
(* nfsmw_platform_runtime_present                                          *)

\* runtime_capture_frame reads the frame from the default framebuffer.
Captured(g) == [[g EXCEPT !.framebuffer = 0] EXCEPT !.framebuffer = g.framebuffer]

\* Mutant: the scissor test is left on.
CursorLeavingScissor(g) ==
    LET drawing == [framebuffer |-> 0, scissor |-> TRUE, box |-> "cursor",
                    color |-> "cursor", mask |-> "all"]
    IN  [drawing EXCEPT !.color = g.color, !.mask = g.mask, !.box = g.box,
                        !.framebuffer = g.framebuffer]

\* runtime_draw_cursor: what it reads before it draws, it sets again after
\* it; the scissor test is switched off only when it was off.
CursorDrawn(g) ==
    LET drawing == [framebuffer |-> 0, scissor |-> TRUE, box |-> "cursor",
                    color |-> "cursor", mask |-> "all"]
    IN  [drawing EXCEPT !.color = g.color, !.mask = g.mask, !.box = g.box,
                        !.scissor = IF g.scissor THEN @ ELSE FALSE,
                        !.framebuffer = g.framebuffer]

Presented(g, capture, cursor) ==
    LET captured == IF capture THEN Captured(g) ELSE g
    IN  IF cursor THEN CursorDrawn(captured) ELSE captured
-----------------------------------------------------------------------------
\* Nothing is left when the probe, a start that failed or the stop is over,
\* but for the library in which the probe missed a symbol, which the
\* process then ends with; and no resource outlives the one it was made
\* from: the context goes before its window, all windows and devices before
\* SDL_Quit, and the library last (platform_probe.c:930-954).
PlatformReleased ==
    /\ Stopped => open = {} /\ (held = {} \/ (held = {"library"} /\ passed = {}))
    /\ \A r \in held \cap DOMAIN Parent : Parent[r] \in held
    /\ open # {} => "sdl" \in held
=============================================================================
