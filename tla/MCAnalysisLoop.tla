--------------------------- MODULE MCAnalysisLoop ---------------------------
(* AnalysisLoop for TLC.  No symmetry: the passing run checks liveness. *)
EXTENDS AnalysisLoop
=============================================================================
