--------------------------- MODULE MCShadowContext ---------------------------
(* ShadowContext for TLC: annotations are interchangeable model values. The   *)
(* tasks are too, but symmetry is not used: a run checks liveness.            *)
EXTENDS ShadowContext
=============================================================================
