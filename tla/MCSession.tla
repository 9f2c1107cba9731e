------------------------------ MODULE MCSession ------------------------------
(* Instances of Session for TLC.                                           *)
EXTENDS Session

\* One image with no lifecycle function, one with a few.
MCInits == <<0, 2>>
MCFinis == <<1, 0>>
MCPatched == {2}

\* GL as the game may leave it: on its own framebuffer, scissored or not.
MCGlStates ==
    {[framebuffer |-> f, scissor |-> s, box |-> "guest", color |-> "guest", mask |-> "guest"] :
        f \in {1}, s \in BOOLEAN}
=============================================================================
