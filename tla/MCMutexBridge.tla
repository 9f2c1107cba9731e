---------------------------- MODULE MCMutexBridge ----------------------------
(* Instances of MutexBridge for TLC.                                       *)
EXTENDS MutexBridge, TLC

MCWords == {"normal", "recursive", "errorcheck"}
MCOps == {"none", "init", "destroy", "lock", "trylock", "unlock"}

\* Threads and host addresses are interchangeable.
Symmetry == Permutations(Threads) \cup Permutations(Hosts)
=============================================================================
