---------------------------- MODULE MCCondBridge ----------------------------
(* Instances of CondBridge for TLC.                                        *)
EXTENDS CondBridge, TLC

MCOps == {"none", "init", "destroy", "wait", "timedwait", "signal", "broadcast"}

\* Threads and host addresses are interchangeable.
Symmetry == Permutations(Threads) \cup Permutations(Hosts)
=============================================================================
