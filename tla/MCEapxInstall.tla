---------------------------- MODULE MCEapxInstall ----------------------------
(* Instances of EapxInstall for TLC: two roots, and two payloads that      *)
(* differ in both or only in the second.                                   *)
EXTENDS EapxInstall

CONSTANTS libs, obb, libs2, obb2

Distinct == {<<libs, obb>>, <<libs2, obb2>>}
Sharing == {<<libs, obb>>, <<libs, obb2>>}
EachRoot == {{1}, {2}}
BothRoots == {{1, 2}}
=============================================================================
