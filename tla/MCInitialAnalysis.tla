-------------------------- MODULE MCInitialAnalysis --------------------------
EXTENDS InitialAnalysis
=============================================================================
