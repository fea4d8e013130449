------------------------------ MODULE ChangeBox ------------------------------
(***************************************************************************)
(* What the changes accumulated during an initial analysis are promised    *)
(* (SessionInfo of session_manager.py): they are put into a box while the  *)
(* analysis is running, the analysis takes all of them when it ends, and   *)
(* from then on none is put into the box, where nobody would find it.      *)
(***************************************************************************)
CONSTANT Changes   \* changes of the client's files

VARIABLES
  open,            \* the initial analysis is running
  box,             \* changes put into the box
  taken            \* changes the analysis took out of it

vars == <<open, box, taken>>

Init == ~ open /\ box = {} /\ taken = {}

Open == ~ open /\ taken = {} /\ open' = TRUE /\ UNCHANGED <<box, taken>>
Put(c) == open /\ c \notin box \cup taken /\ box' = box \cup {c} /\ UNCHANGED <<open, taken>>
Take == open /\ open' = FALSE /\ box' = {} /\ taken' = box

Next == Open \/ Take \/ \E c \in Changes : Put(c)

Spec == Init /\ [][Next]_vars
=============================================================================
