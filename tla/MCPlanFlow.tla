------------------------------ MODULE MCPlanFlow ------------------------------
(* PlanFlow for TLC. *)
EXTENDS PlanFlow
=============================================================================
