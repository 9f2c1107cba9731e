---------------------------- MODULE AtomicInstall ----------------------------
(***************************************************************************)
(* What an installer promises of the game data (Transaction in             *)
(* tools/eapx.py, lines 2461-2652): whatever happens on the way, the data  *)
(* are either as they were or all of the payload.  Installing is one step. *)
(***************************************************************************)
EXTENDS Naturals

CONSTANTS Roots,   (* paths the recipe publishes                           *)
          Plans,   (* payloads: plan[r] is the content for root r          *)
          Absent,  (* no file or directory                                 *)
          Damaged  (* something no plan contains                           *)

VARIABLES data,    (* data[r]: what is installed at root r                 *)
          plan     (* the payload of the recipe and the packages           *)

Init ==
    /\ data \in Plans \cup {[r \in Roots |-> Absent]}
    /\ plan \in Plans

Install == data' = plan /\ UNCHANGED plan

\* The user gets another recipe or package.
ChangePlan == plan' \in Plans /\ UNCHANGED data

\* Outside the installer roots are damaged.
Damage ==
    /\ \E broken \in SUBSET Roots :
          data' = [r \in Roots |-> IF r \in broken THEN Damaged ELSE data[r]]
    /\ UNCHANGED plan

Next == Install \/ ChangePlan \/ Damage

Spec == Init /\ [][Next]_<<data, plan>>
=============================================================================
