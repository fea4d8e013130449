----------------------------- MODULE LatestWins -----------------------------
(***************************************************************************)
(* What a client of the debounced analyses is promised (trigger_analysis   *)
(* and AnalysisState of guess.py): one worker at a time, started for the   *)
(* newest request and for nothing older; requests may go unanswered, but   *)
(* the answers that come are of the request at work, in the order of the   *)
(* requests, one at most for each.  A new connection counts from zero.     *)
(***************************************************************************)
EXTENDS Naturals

VARIABLES
  newest,          \* number of the newest request
  started,         \* number of the request that was last worked on
  working,         \* a worker is at it
  answered         \* number of the request that was last answered

vars == <<newest, started, working, answered>>

Init == newest = 0 /\ started = 0 /\ ~ working /\ answered = 0

\* A request comes while the one before it is worked on: it has to wait, ...
Supersede ==
  /\ working /\ newest = started
  /\ newest' = newest + 1 /\ UNCHANGED <<started, working, answered>>

\* ... and starts when the worker has gone.
Start ==
  /\ ~ working /\ started < newest
  /\ started' = newest /\ working' = TRUE /\ UNCHANGED <<newest, answered>>

\* A request that finds nobody at work starts at once.
RequestAndStart ==
  /\ ~ working /\ newest = started
  /\ newest' = newest + 1 /\ started' = newest' /\ working' = TRUE
  /\ UNCHANGED answered

\* The worker ends with an answer or without one.
Deliver ==
  /\ working /\ answered < started
  /\ working' = FALSE /\ answered' = started /\ UNCHANGED <<newest, started>>
Stop == working /\ working' = FALSE /\ UNCHANGED <<newest, started, answered>>

\* A new connection never finds a worker of the one before.
Reconnect ==
  /\ ~ working
  /\ newest' = 0 /\ started' = 0 /\ answered' = 0 /\ UNCHANGED working

Next == Supersede \/ Start \/ RequestAndStart \/ Deliver \/ Stop \/ Reconnect

Spec == Init /\ [][Next]_vars
=============================================================================
