------------------------------ MODULE GuestMutex ------------------------------
(***************************************************************************)
(* What a pthread mutex promises the guest: a thread takes a mutex only    *)
(* while nobody, or for a recursive mutex the thread itself, holds it, and *)
(* only the holder gives it back.                                          *)
(***************************************************************************)
EXTENDS Naturals

CONSTANTS Threads, Guests, None

VARIABLES holder,  (* holder[g]: thread that holds mutex g, or None        *)
          depth,   (* depth[g]: locks the holder has not undone            *)
          inside   (* inside[t][g]: successful locks of g by t, less its   *)
                   (* unlocks                                              *)

mvars == <<holder, depth, inside>>

Init ==
    /\ holder = [g \in Guests |-> None]
    /\ depth = [g \in Guests |-> 0]
    /\ inside = [t \in Threads |-> [g \in Guests |-> 0]]

Take(t, g) ==
    /\ holder[g] \in {None, t}
    /\ holder' = [holder EXCEPT ![g] = t]
    /\ depth' = [depth EXCEPT ![g] = @ + 1]
    /\ inside' = [inside EXCEPT ![t][g] = @ + 1]

Give(t, g) ==
    /\ holder[g] = t
    /\ depth' = [depth EXCEPT ![g] = @ - 1]
    /\ holder' = [holder EXCEPT ![g] = IF depth[g] = 1 THEN None ELSE t]
    /\ inside' = [inside EXCEPT ![t][g] = @ - 1]

Next == \E t \in Threads, g \in Guests : Take(t, g) \/ Give(t, g)

Spec == Init /\ [][Next]_mvars
=============================================================================
