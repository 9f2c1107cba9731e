---------------------------- MODULE MCInputLoop ----------------------------
(* Instances of InputLoop for TLC.                                         *)
EXTENDS InputLoop

\* Every button the loop treats specially, in its order.
MCOrder == <<"A", "B", "select", "start", "L1">>

\* At rest, on the threshold, and fully deflected to the side where -32768
\* cancels the shoulder button L1.
MCDeflection == {0, 1, -4}
=============================================================================
