------------------------- MODULE AnalysisLoop_proofs -------------------------
(***************************************************************************)
(* Proofs about AnalysisLoop, for every set of patches, every number of    *)
(* analyses and both backends.                                             *)
(***************************************************************************)
EXTENDS AnalysisLoop, TLAPS

\* The generation leaves room for the trigger that a sync may end with.
Room == loop \in {"apply", "commit", "ack"} => generation < MaxGen

\* How the numbers follow one another: the loop counts generation up, the
\* pending task catches up when it is created, results when it ends.
Order ==
  /\ answered <= pending /\ pending <= generation
  /\ loop = "await" => 0 < pending /\ pending < generation
  /\ loop # "await" /\ PendingLive => pending = generation
  /\ \A g \in Generations : Live(g) => answered < g

\* Only a loop that awaits the end of its task has told it to stop.
Told ==
  \A g \in Generations :
    /\ pending < g => signal[g] = "no"
    /\ Live(g) /\ signal[g] \in {"requested", "cancel"} => loop \in {"await", "cleanup"}
    /\ Live(g) /\ loop = "await" => signal[g] # "no"
    /\ task[g] = "abort" => signal[g] = "cancel"

\* The debounced analyses begin when the initial analysis is over.
Apart ==
  initial # "over" => loop # "await" /\ \A g \in Generations : ~ Live(g)

\* What is left when no task runs, at every stage between two syncs.
Collected ==
  /\ \A g \in Generations : task[g] = "report" => Deliverable = {}
  /\ loop \notin {"closed", "await", "cleanup"} /\ ~ PendingLive =>
       \/ Deliverable \subseteq byInitial
       \/ \E g \in Generations : pending = g /\ task[g] = "failed"

IInv ==
  TypeOK /\ Room /\ AtMostOneTask /\ NoTaskOutlivesConnection /\ Order /\ Told
  /\ Apart /\ Collected

USE DEF Generations, Live, PendingLive, fileVars, Write, InitialGoto

-----------------------------------------------------------------------------
LEMMA InitIInv == Init => IInv
<1> SUFFICES ASSUME Init PROVE IInv
  OBVIOUS
<1> USE MaxGenAssumption DEF Init, Ended
<1>1. TypeOK
  <2>1. up \in BOOLEAN /\ hint \in BOOLEAN /\ initial \in InitialStages
    BY DEF InitialStages
  <2>2. task \in [Generations -> TaskStages] /\ signal \in [Generations -> Signals]
    BY DEF TaskStages, Signals
  <2> QED
    BY <2>1, <2>2 DEF TypeOK, LoopStages
<1>2. \A g \in Generations : ~ Live(g)
  OBVIOUS
<1>3. Room /\ AtMostOneTask /\ NoTaskOutlivesConnection /\ Told /\ Apart
  BY <1>2 DEF Room, AtMostOneTask, NoTaskOutlivesConnection, Told, Apart
<1>4. Order
  BY <1>2 DEF Order
<1>5. Collected
  BY DEF Collected, Deliverable
<1> QED
  BY <1>1, <1>3, <1>4, <1>5 DEF IInv

LEMMA TaskType ==
  ASSUME TypeOK, NEW g \in Generations, TaskStep(g)
  PROVE  TypeOK'
<1> USE DEF TypeOK, TaskStages, Ended, Signals, Goto, At, NothingSaved, MarkSent, Deliverable,
            loopVars, tagVars, ghostVars
<1>1. ASSUME WakeUp(g) \/ EnterContext(g) \/ RunEnds(g) PROVE TypeOK'
  BY <1>1 DEF TaskStep, WakeUp, EnterContext, RunEnds
<1>2. ASSUME Finish(g) \/ FinishRaises(g) \/ FinishCancelled(g) \/ AbortEnds(g) PROVE TypeOK'
  BY <1>2 DEF TaskStep, Finish, FinishRaises, FinishCancelled, AbortEnds, AfterCancel
<1>3. ASSUME ReportEnds(g) PROVE TypeOK'
  BY <1>3 DEF TaskStep, ReportEnds
<1>4. ASSUME CancelRun(g) \/ CancelContext(g) PROVE TypeOK'
  BY <1>4 DEF TaskStep, CancelRun, CancelContext, AfterCancel
<1>5. ASSUME CancelElsewhere(g) PROVE TypeOK'
  BY <1>5 DEF TaskStep, CancelElsewhere
<1>6. ASSUME NEW ps \in SUBSET Patches, SavePatches(g, ps) PROVE TypeOK'
  BY <1>6 DEF TaskStep, SavePatches
<1> QED
  BY <1>1, <1>2, <1>3, <1>4, <1>5, <1>6 DEF TaskStep, TaskBody

\* Every step keeps the types.
LEMMA TypeStep == TypeOK /\ Room /\ [Next]_vars => TypeOK'
<1> SUFFICES ASSUME TypeOK, Room, [Next]_vars PROVE TypeOK'
  OBVIOUS
<1> USE DEF TypeOK, LoopStages, MarkSent, Deliverable, CreateTask, LeaveLoop,
            TaskStages, Ended, Signals, InitialStages, loopVars, stateVars, taskVars, tagVars, ghostVars
<1>0. ASSUME UNCHANGED backend, Connect PROVE TypeOK'
  <2>1. hint' \in BOOLEAN
    BY <1>0 DEF Connect
  <2>2. loop' \in LoopStages /\ generation' = 0 /\ pending' = 0 /\ answered' = 0
    BY <1>0 DEF Connect
  <2>3. task' \in [Generations -> TaskStages] /\ signal' \in [Generations -> Signals]
    BY <1>0 DEF Connect
  <2> QED
    BY <1>0, <2>1, <2>2, <2>3, MaxGenAssumption DEF Connect
<1>1. ASSUME UNCHANGED backend, ClientGone \/ InitialStep \/ Crash PROVE TypeOK'
  <2>1. CASE ClientGone \/ Crash
    BY <1>1, <2>1, MaxGenAssumption DEF ClientGone, Crash
  <2>2. CASE InitialEnters \/ InitialEnds
    BY <1>1, <2>2, MaxGenAssumption DEF InitialEnters, InitialEnds
  <2>3. ASSUME NEW ps \in SUBSET Patches, InitialSaves(ps) PROVE TypeOK'
    BY <1>1, <2>3, MaxGenAssumption DEF InitialSaves
  <2> QED
    BY <1>1, <2>1, <2>2, <2>3 DEF InitialStep
<1>2. ASSUME UNCHANGED backend, Poll \/ PushEnds \/ ReceiveSync \/ Applied \/ Committed PROVE TypeOK'
  BY <1>2 DEF Poll, PushEnds, ReceiveSync, Applied, Committed
<1>3. ASSUME UNCHANGED backend, Trigger PROVE TypeOK'
  BY <1>3, MaxGenAssumption DEF Trigger, Room
<1>4. ASSUME UNCHANGED backend, Accumulate \/ AwaitedCancelled \/ CleanedUp PROVE TypeOK'
  BY <1>4, MaxGenAssumption DEF Accumulate, AwaitedCancelled, CleanedUp
<1>5. ASSUME UNCHANGED backend, ReceiveAsk \/ Answer \/ \E ps \in SUBSET Patches : AskEnds(ps) PROVE TypeOK'
  BY <1>5 DEF ReceiveAsk, Answer, AskEnds
<1>6. ASSUME UNCHANGED backend, Disconnected \/ CommitRaises \/ AskRaises \/ AwaitedFailed PROVE TypeOK'
  BY <1>6 DEF Disconnected, CommitRaises, AskRaises, AwaitedFailed
<1>7. CASE UNCHANGED vars
  BY <1>7 DEF vars
<1> QED
  BY <1>0, <1>1, <1>2, <1>3, <1>4, <1>5, <1>6, <1>7, TaskType DEF Next, LoopStep

-----------------------------------------------------------------------------
\* Only a live task steps, it moves nobody else, and it does not tell itself
\* to stop or forget that it was told.
LEMMA TaskFrame ==
  ASSUME TypeOK, NEW g \in Generations, TaskStep(g)
  PROVE  /\ Live(g)
         /\ loop' = loop /\ generation' = generation /\ pending' = pending
         /\ \A h \in Generations : h # g => task'[h] = task[h] /\ signal'[h] = signal[h]
         /\ signal'[g] = "no" => signal[g] = "no"
         /\ signal'[g] \in {"requested", "cancel"} => signal[g] \in {"requested", "cancel"}
         /\ task'[g] = "abort" => signal'[g] = "cancel"
         /\ answered' = answered \/ (answered' = g /\ task'[g] \in Ended)
<1> USE DEF TypeOK, Ended, Goto, At, NothingSaved, loopVars, ghostVars
<1>1. loop' = loop /\ generation' = generation /\ pending' = pending
  BY DEF TaskStep
<1>2. CASE WakeUp(g) \/ EnterContext(g) \/ FinishRaises(g) \/ FinishCancelled(g) \/ AbortEnds(g)
  BY <1>1, <1>2 DEF WakeUp, EnterContext, FinishRaises, FinishCancelled, AbortEnds, AfterCancel
<1>3. CASE RunEnds(g)
  BY <1>1, <1>3 DEF RunEnds
<1>4. CASE Finish(g)
  BY <1>1, <1>4 DEF Finish
<1>5. CASE ReportEnds(g)
  BY <1>1, <1>5 DEF ReportEnds
<1>6. CASE CancelRun(g)
  BY <1>1, <1>6 DEF CancelRun
<1>7. CASE CancelContext(g)
  BY <1>1, <1>7 DEF CancelContext, AfterCancel
<1>8. CASE CancelElsewhere(g)
  BY <1>1, <1>8 DEF CancelElsewhere
<1>9. CASE \E ps \in SUBSET Patches : SavePatches(g, ps)
  BY <1>1, <1>9 DEF SavePatches
<1> QED
  BY <1>2, <1>3, <1>4, <1>5, <1>6, <1>7, <1>8, <1>9 DEF TaskStep, TaskBody

Sequencing == Room /\ AtMostOneTask /\ NoTaskOutlivesConnection /\ Order /\ Told

\* The steps of the initial analysis leave the loop and its tasks alone.
LEMMA InitialFrame ==
  ASSUME InitialStep
  PROVE  /\ UNCHANGED <<up, loop, outbox, generation, pending, hint>>
         /\ UNCHANGED <<task, signal, report, received, answered>>
         /\ initial # "over"
BY DEF InitialStep, InitialEnters, InitialSaves, InitialEnds, loopVars, taskVars, ghostVars

LEMMA SequencingStep == TypeOK /\ Sequencing /\ [Next]_vars => Sequencing'
<1> SUFFICES ASSUME TypeOK, Sequencing, [Next]_vars PROVE Sequencing'
  OBVIOUS
<1> USE DEF TypeOK, Sequencing, Room, AtMostOneTask, NoTaskOutlivesConnection, Order, Told, Ended
<1>1. CASE Connect
  BY <1>1, MaxGenAssumption DEF Connect
<1>2. CASE Crash
  BY <1>2 DEF Crash, ghostVars
<1>3. CASE ClientGone \/ InitialStep
  BY <1>3, InitialFrame DEF ClientGone, loopVars, stateVars, taskVars, ghostVars
<1>4. CASE Poll \/ PushEnds \/ ReceiveSync \/ Applied \/ Committed \/ Accumulate \/ CleanedUp
  BY <1>4 DEF Poll, PushEnds, ReceiveSync, Applied, Committed, Accumulate, CleanedUp,
              stateVars, taskVars, ghostVars
<1>5. CASE ReceiveAsk \/ Answer \/ \E ps \in SUBSET Patches : AskEnds(ps)
  BY <1>5 DEF ReceiveAsk, Answer, AskEnds, stateVars, taskVars, ghostVars
<1>6. CASE Trigger
  <2>1. generation' = generation + 1 /\ loop = "ack" /\ answered' = answered
    BY <1>6 DEF Trigger, ghostVars
  <2>2. CASE PendingLive
    <3>1. pending \in Generations /\ pending = generation
      BY <2>1, <2>2
    <3>2. loop' = "await" /\ task' = task /\ pending' = pending
          /\ signal' = [signal EXCEPT ![pending] = "requested"]
      BY <1>6, <2>2 DEF Trigger
    <3>3. (Room /\ AtMostOneTask /\ NoTaskOutlivesConnection)'
      BY <3>2
    <3>4. Order'
      BY <2>1, <3>1, <3>2
    <3>5. task[pending] # "abort"
      BY <2>1, <3>1
    <3>6. Told'
      BY <3>1, <3>2, <3>5
    <3> QED
      BY <3>3, <3>4, <3>6
  <2>3. CASE ~ PendingLive
    <3>1. loop' = "recv" /\ pending' = generation + 1 /\ signal' = signal
          /\ task' = [task EXCEPT ![generation + 1] = "sleep"]
      BY <1>6, <2>1, <2>3 DEF Trigger, CreateTask
    <3>2. generation + 1 \in Generations /\ \A g \in Generations : ~ Live(g)
      BY <2>1, <2>3, MaxGenAssumption
    <3>3. (Room /\ AtMostOneTask /\ NoTaskOutlivesConnection)'
      BY <3>1, <3>2
    <3>4. Order'
      BY <2>1, <3>1, <3>2
    <3>5. Told'
      BY <3>1, <3>2
    <3> QED
      BY <3>3, <3>4, <3>5
  <2> QED
    BY <2>2, <2>3
<1>7. CASE AwaitedCancelled
  BY <1>7 DEF AwaitedCancelled, CreateTask, ghostVars
<1>8. CASE Disconnected \/ CommitRaises \/ AskRaises \/ AwaitedFailed
  <2>1. /\ generation' = generation /\ pending' = pending /\ task' = task /\ answered' = answered
        /\ loop' = (IF PendingLive THEN "cleanup" ELSE "closed")
        /\ signal' = (IF PendingLive THEN [signal EXCEPT ![pending] = "requested"] ELSE signal)
    BY <1>8 DEF Disconnected, CommitRaises, AskRaises, AwaitedFailed, LeaveLoop, stateVars, ghostVars
  <2>2. loop \notin {"await", "cleanup"} \/ ~ PendingLive
    BY <1>8 DEF Disconnected, CommitRaises, AskRaises, AwaitedFailed
  <2>3. (Room /\ AtMostOneTask /\ NoTaskOutlivesConnection)'
    BY <2>1
  <2>4. Order'
    BY <2>1, <2>2
  <2>5. PendingLive => pending \in Generations /\ task[pending] # "abort"
    BY <2>2
  <2>6. Told'
    BY <2>1, <2>2, <2>5
  <2> QED
    BY <2>3, <2>4, <2>6
<1>9. ASSUME NEW g \in Generations, TaskStep(g) PROVE Sequencing'
  BY <1>9, TaskFrame
<1>10. CASE UNCHANGED vars
  BY <1>10 DEF vars, loopVars, stateVars, taskVars, ghostVars
<1> QED
  BY <1>1, <1>2, <1>3, <1>4, <1>5, <1>6, <1>7, <1>8, <1>9, <1>10 DEF Next, LoopStep

\* Tasks begin when the initial analysis is over, and it never begins again.
LEMMA ApartStep == IInv /\ [Next]_vars => Apart'
<1> SUFFICES ASSUME IInv, [Next]_vars PROVE Apart'
  OBVIOUS
<1> USE DEF IInv, TypeOK, Apart, Ended
<1>1. CASE Connect \/ Crash
  BY <1>1 DEF Connect, Crash
<1>2. CASE ClientGone \/ Poll \/ PushEnds \/ ReceiveSync \/ Applied \/ Committed
           \/ Accumulate \/ CleanedUp
  BY <1>2 DEF ClientGone, Poll, PushEnds, ReceiveSync, Applied, Committed, Accumulate,
              CleanedUp, stateVars, taskVars
<1>3. CASE ReceiveAsk \/ Answer \/ \E ps \in SUBSET Patches : AskEnds(ps)
  BY <1>3 DEF ReceiveAsk, Answer, AskEnds, stateVars, taskVars
<1>4. CASE Trigger \/ AwaitedCancelled
  BY <1>4 DEF Trigger, AwaitedCancelled, CreateTask
<1>5. CASE Disconnected \/ CommitRaises \/ AskRaises \/ AwaitedFailed
  BY <1>5 DEF Disconnected, CommitRaises, AskRaises, AwaitedFailed, LeaveLoop, stateVars
<1>6. CASE InitialStep
  BY <1>6, InitialFrame
<1>7. ASSUME NEW g \in Generations, TaskStep(g) PROVE Apart'
  BY <1>7, TaskFrame DEF TaskStep
<1>8. CASE UNCHANGED vars
  BY <1>8 DEF vars, loopVars, stateVars, taskVars
<1> QED
  BY <1>1, <1>2, <1>3, <1>4, <1>5, <1>6, <1>7, <1>8 DEF Next, LoopStep

-----------------------------------------------------------------------------
LEMMA TaskCollected ==
  ASSUME IInv, NEW g \in Generations, TaskStep(g)
  PROVE  Collected'
<1> USE DEF TypeOK, Ended, Goto, At, NothingSaved, MarkSent, Deliverable, tagVars
<1>1. /\ \A h \in Generations : h # g => ~ Live(h) /\ task'[h] = task[h]
      /\ loop' = loop /\ pending' = pending /\ pending = g
      /\ task'[g] \in TaskStages
  BY TaskFrame, TaskType DEF IInv, AtMostOneTask
\* It is enough to look at g: if it has ended while the loop goes on, it has
\* failed or left nothing.
<1>2. ASSUME task'[g] = "report" => Deliverable' = {},
             loop \notin {"closed", "await", "cleanup"} /\ task'[g] \in Ended =>
               Deliverable' \subseteq byInitial' \/ task'[g] = "failed"
      PROVE  Collected'
  BY <1>1, <1>2 DEF Collected
<1>3. loop \notin {"closed", "await", "cleanup"} =>
        g = generation /\ signal[g] \notin {"requested", "cancel"}
  BY <1>1, TaskFrame DEF IInv, Order, Told
<1>4. CASE WakeUp(g) \/ EnterContext(g) \/ RunEnds(g)
  BY <1>2, <1>3, <1>4 DEF IInv, WakeUp, EnterContext, RunEnds
<1>5. CASE Finish(g)
  BY <1>2, <1>3, <1>5 DEF IInv, Finish
<1>6. CASE FinishRaises(g)
  BY <1>2, <1>6 DEF IInv, FinishRaises
<1>7. CASE FinishCancelled(g) \/ AbortEnds(g)
  <2>1. signal[g] = "cancel"
    BY <1>7 DEF IInv, Told, FinishCancelled, AbortEnds
  <2> QED
    BY <1>2, <1>3, <1>7, <2>1 DEF IInv, FinishCancelled, AbortEnds, AfterCancel
<1>8. CASE ReportEnds(g)
  BY <1>2, <1>8 DEF IInv, Collected, ReportEnds
<1>9. CASE CancelRun(g) \/ CancelContext(g) \/ CancelElsewhere(g)
  BY <1>2, <1>3, <1>9 DEF IInv, CancelRun, CancelContext, CancelElsewhere, AfterCancel
<1>10. ASSUME NEW ps \in SUBSET Patches, SavePatches(g, ps) PROVE Collected'
  BY <1>2, <1>10 DEF IInv, SavePatches
<1> QED
  BY <1>4, <1>5, <1>6, <1>7, <1>8, <1>9, <1>10 DEF TaskStep, TaskBody

LEMMA CollectedStep == IInv /\ [Next]_vars => Collected'
<1> SUFFICES ASSUME IInv, [Next]_vars PROVE Collected'
  OBVIOUS
<1> USE DEF IInv, TypeOK, Ended, Collected, MarkSent, Deliverable
<1>1. CASE Connect \/ Poll
  BY <1>1 DEF Connect, Poll, taskVars
<1>2. CASE Crash
  BY <1>2 DEF Crash, tagVars
<1>3. CASE ClientGone \/ PushEnds \/ ReceiveSync \/ Applied \/ Committed
           \/ Accumulate \/ CleanedUp \/ ReceiveAsk \/ Answer
  BY <1>3 DEF ClientGone, PushEnds, ReceiveSync, Applied, Committed, Accumulate,
              CleanedUp, ReceiveAsk, Answer, loopVars, stateVars, taskVars, tagVars
<1>4. CASE \E ps \in SUBSET Patches : AskEnds(ps)
  BY <1>4 DEF AskEnds, stateVars, taskVars
<1>5. CASE Trigger \/ AwaitedCancelled
  <2>1. /\ unseen' = unseen /\ files' = files /\ byInitial' = byInitial
        /\ generation' \in Generations
        /\ \/ loop' = "await" /\ task' = task
           \/ pending' = generation' /\ task' = [task EXCEPT ![generation'] = "sleep"]
    BY <1>5, MaxGenAssumption
       DEF Trigger, AwaitedCancelled, CreateTask, Room, Order, tagVars
  <2> QED
    BY <2>1
<1>6. CASE Disconnected \/ CommitRaises \/ AskRaises \/ AwaitedFailed
  BY <1>6 DEF Disconnected, CommitRaises, AskRaises, AwaitedFailed, LeaveLoop, stateVars, tagVars
<1>7. ASSUME NEW g \in Generations, TaskStep(g) PROVE Collected'
  BY <1>7, TaskCollected
<1>8. CASE UNCHANGED vars
  BY <1>8 DEF vars, loopVars, stateVars, taskVars, tagVars
<1>9. CASE InitialStep
  <2>1. \A g \in Generations : task'[g] = task[g] /\ task[g] # "report"
    BY <1>9, InitialFrame DEF Apart
  <2>2. UNCHANGED <<loop, pending, task>>
    BY <1>9, InitialFrame
  <2>3. CASE InitialEnters \/ \E ps \in SUBSET Patches : InitialSaves(ps)
    BY <2>1, <2>3 DEF InitialEnters, InitialSaves
  <2>4. CASE InitialEnds
    BY <2>1, <2>2, <2>4 DEF InitialEnds, tagVars
  <2> QED
    BY <1>9, <2>3, <2>4 DEF InitialStep
<1> QED
  BY <1>1, <1>2, <1>3, <1>4, <1>5, <1>6, <1>7, <1>8, <1>9 DEF Next, LoopStep

\* The inductive invariant holds in every reachable state.
THEOREM Invariance == Spec => []IInv
<1>1. IInv /\ [Next]_vars => IInv'
  BY TypeStep, SequencingStep, ApartStep, CollectedStep DEF IInv, Sequencing
<1> QED
  BY InitIInv, <1>1, PTL DEF Spec

\* The model's variables keep their types.
THEOREM TypeCorrect == Spec => []TypeOK
<1>1. IInv => TypeOK
  BY DEF IInv
<1> QED
  BY Invariance, <1>1, PTL

\* At most one analysis runs at a time, and it is the pending one
\* (AnalysisState.single_pending, guess.py:382).
THEOREM SinglePending == Spec => []AtMostOneTask
<1>1. IInv => AtMostOneTask
  BY DEF IInv
<1> QED
  BY Invariance, <1>1, PTL

\* An analysis that is not being ended is that of the newest generation.
THEOREM NewestOnly == Spec => []OnlyNewestUncancelled
<1>1. IInv => OnlyNewestUncancelled
  BY DEF IInv, OnlyNewestUncancelled, AtMostOneTask, Order, Told
<1> QED
  BY Invariance, <1>1, PTL

\* ws_event_loop's finally: no analysis survives its connection.
THEOREM TasksEndWithConnection == Spec => []NoTaskOutlivesConnection
<1>1. IInv => NoTaskOutlivesConnection
  BY DEF IInv
<1> QED
  BY Invariance, <1>1, PTL

\* Patches that could be delivered are left over at an idle loop only by an
\* analysis that failed or by the initial analysis.
THEOREM EverythingElseCollected == Spec => []LeftOverHasCause
<1>1. IInv => LeftOverHasCause
  BY DEF IInv, Collected, LeftOverHasCause
<1> QED
  BY Invariance, <1>1, PTL

\* Within a connection the client receives results in the order of the syncs.
THEOREM OrderedResults == Spec => ResultsInOrder
<1>1. IInv /\ [Next]_vars => [answered' # answered /\ loop # "closed" => answered' > answered]_vars
  <2> SUFFICES ASSUME IInv, [Next]_vars, answered' # answered, loop # "closed"
               PROVE answered' > answered
    OBVIOUS
  <2>1. PICK g \in Generations : TaskStep(g)
    BY InitialFrame DEF Next, LoopStep, Connect, ClientGone, Crash, Poll, PushEnds, ReceiveSync,
           Applied, Committed, Trigger, Accumulate, AwaitedCancelled, CleanedUp, ReceiveAsk,
           Answer, AskEnds, Disconnected, CommitRaises, AskRaises, AwaitedFailed, LeaveLoop,
           vars, ghostVars
  <2> QED
    BY <2>1, TaskFrame, MaxGenAssumption DEF IInv, TypeOK, Order
<1> QED
  BY Invariance, <1>1, PTL DEF Spec, ResultsInOrder

-----------------------------------------------------------------------------
(* The refinement: which step of LatestWins a step here is. *)

\* Between two triggers the newest generation is the pending one.
CaughtUp == loop \notin {"await", "closed"} => pending = generation

LEMMA CaughtUpStep == IInv /\ CaughtUp /\ [Next]_vars => CaughtUp'
<1> SUFFICES ASSUME IInv, CaughtUp, [Next]_vars PROVE CaughtUp'
  OBVIOUS
<1> USE DEF CaughtUp
<1>1. CASE Connect \/ Crash
  BY <1>1 DEF Connect, Crash
<1>2. CASE ClientGone \/ InitialStep \/ Poll \/ PushEnds \/ ReceiveSync \/ Applied \/ Committed
           \/ Accumulate \/ CleanedUp
  BY <1>2, InitialFrame DEF ClientGone, Poll, PushEnds, ReceiveSync, Applied, Committed,
              Accumulate, CleanedUp, loopVars, stateVars
<1>3. CASE ReceiveAsk \/ Answer \/ \E ps \in SUBSET Patches : AskEnds(ps)
  BY <1>3 DEF ReceiveAsk, Answer, AskEnds, stateVars
<1>4. CASE Trigger \/ AwaitedCancelled
  BY <1>4 DEF Trigger, AwaitedCancelled, CreateTask
<1>5. CASE Disconnected \/ CommitRaises \/ AskRaises
  BY <1>5 DEF Disconnected, CommitRaises, AskRaises, LeaveLoop, stateVars
<1>6. CASE AwaitedFailed
  BY <1>6 DEF AwaitedFailed, LeaveLoop, Ended, IInv, Order
<1>7. ASSUME NEW g \in Generations, TaskStep(g) PROVE CaughtUp'
  BY <1>7 DEF TaskStep, loopVars
<1>8. CASE UNCHANGED vars
  BY <1>8 DEF vars, loopVars, stateVars
<1> QED
  BY <1>1, <1>2, <1>3, <1>4, <1>5, <1>6, <1>7, <1>8 DEF Next, LoopStep

LEMMA WorkerInit == Init => Worker!Init
BY DEF Init, Worker!Init, Ended

\* A task that steps goes on working, or it stops, or it stops with an answer.
LEMMA TaskIsWorker ==
  ASSUME IInv, NEW g \in Generations, TaskStep(g)
  PROVE  [Worker!Next]_(Worker!vars)
<1>1. pending = g /\ pending' = g /\ generation' = generation /\ PendingLive
  BY TaskFrame DEF IInv, AtMostOneTask
<1>2. answered < pending
  BY <1>1 DEF IInv, Order
<1>3. answered' = answered \/ (answered' = pending /\ task'[g] \in Ended)
  BY <1>1, TaskFrame DEF IInv
<1>4. PendingLive' <=> task'[g] \notin Ended
  BY <1>1
<1>5. CASE PendingLive' /\ answered' = answered
  BY <1>1, <1>5 DEF Worker!vars
<1>6. CASE ~ PendingLive' /\ answered' = answered
  BY <1>1, <1>6 DEF Worker!Next, Worker!Stop
<1>7. CASE ~ PendingLive' /\ answered' = pending
  BY <1>1, <1>2, <1>7 DEF Worker!Next, Worker!Deliver
<1> QED
  BY <1>3, <1>4, <1>5, <1>6, <1>7

\* A trigger is a request, which waits if an analysis runs and else starts.
LEMMA TriggerIsRequest ==
  ASSUME IInv, CaughtUp, Trigger
  PROVE  [Worker!Next]_(Worker!vars)
<1> USE DEF IInv, TypeOK
<1>1. generation' = generation + 1 /\ generation = pending /\ answered' = answered
  BY DEF Trigger, ghostVars, CaughtUp
<1>2. CASE PendingLive
  <2>1. pending' = pending /\ task' = task
    BY <1>2 DEF Trigger
  <2>2. PendingLive' = PendingLive
    BY <2>1
  <2> QED
    BY <1>1, <1>2, <2>1, <2>2 DEF Worker!Next, Worker!Supersede
<1>3. CASE ~ PendingLive
  <2>1. pending' = generation' /\ task' = [task EXCEPT ![generation'] = "sleep"]
    BY <1>3 DEF Trigger, CreateTask
  <2>2. generation' \in Generations
    BY <1>1, MaxGenAssumption DEF Trigger, Room
  <2>3. PendingLive'
    BY <2>1, <2>2 DEF Ended
  <2> QED
    BY <1>1, <1>3, <2>1, <2>3 DEF Worker!Next, Worker!RequestAndStart
<1> QED
  BY <1>2, <1>3

\* After the cancelled task has ended, the analysis of the newest starts.
LEMMA AwaitedIsStart ==
  ASSUME IInv, AwaitedCancelled
  PROVE  [Worker!Next]_(Worker!vars)
<1> USE DEF IInv, TypeOK
<1>1. /\ loop = "await" /\ generation' = generation /\ answered' = answered
      /\ pending' = generation /\ task' = [task EXCEPT ![generation] = "sleep"]
  BY DEF AwaitedCancelled, CreateTask, ghostVars
<1>2. pending < generation /\ generation \in Generations
  BY <1>1, MaxGenAssumption DEF Order
<1>3. ~ PendingLive
  BY DEF AwaitedCancelled, Ended
<1>4. PendingLive'
  BY <1>1, <1>2 DEF Ended
<1> QED
  BY <1>1, <1>2, <1>3, <1>4 DEF Worker!Next, Worker!Start

\* A connection begins without a worker, and a crash stops the one there is.
LEMMA ConnectionIsReset ==
  ASSUME IInv, Connect \/ Crash
  PROVE  [Worker!Next]_(Worker!vars)
<1>1. ~ PendingLive'
  BY DEF Connect, Crash, Ended
<1>2. CASE Connect
  <2>1. ~ PendingLive
    BY <1>2 DEF Connect, IInv, NoTaskOutlivesConnection
  <2>2. generation' = 0 /\ pending' = 0 /\ answered' = 0
    BY <1>2 DEF Connect
  <2> QED
    BY <1>1, <2>1, <2>2 DEF Worker!Next, Worker!Reconnect
<1>3. CASE Crash
  <2>1. UNCHANGED <<generation, pending, answered>>
    BY <1>3 DEF Crash, ghostVars
  <2> QED
    BY <1>1, <2>1 DEF Worker!Next, Worker!Stop, Worker!vars
<1> QED
  BY <1>2, <1>3

LEMMA WorkerStep == IInv /\ CaughtUp /\ [Next]_vars => [Worker!Next]_(Worker!vars)
<1> SUFFICES ASSUME IInv, CaughtUp, [Next]_vars PROVE [Worker!Next]_(Worker!vars)
  OBVIOUS
<1>1. UNCHANGED <<generation, pending, task, answered>> => UNCHANGED Worker!vars
  BY DEF Worker!vars
<1>2. CASE ClientGone \/ InitialStep \/ Poll \/ PushEnds \/ ReceiveSync \/ Applied \/ Committed
           \/ Accumulate \/ CleanedUp
  BY <1>1, <1>2, InitialFrame DEF ClientGone, Poll, PushEnds, ReceiveSync, Applied, Committed,
              Accumulate, CleanedUp, stateVars, taskVars, ghostVars
<1>3. CASE ReceiveAsk \/ Answer \/ \E ps \in SUBSET Patches : AskEnds(ps)
  BY <1>1, <1>3 DEF ReceiveAsk, Answer, AskEnds, stateVars, taskVars, ghostVars
<1>4. CASE Disconnected \/ CommitRaises \/ AskRaises \/ AwaitedFailed
  BY <1>1, <1>4 DEF Disconnected, CommitRaises, AskRaises, AwaitedFailed, LeaveLoop, stateVars, ghostVars
<1>5. CASE UNCHANGED vars
  BY <1>1, <1>5 DEF vars, stateVars, taskVars, ghostVars
<1> QED
  BY <1>2, <1>3, <1>4, <1>5, TaskIsWorker, TriggerIsRequest, AwaitedIsStart, ConnectionIsReset
     DEF Next, LoopStep

\* Debounced analyses implement LatestWins: every step, of the loop, of a task or
\* of the client, of a crash or of a new connection, maps to one of its steps or
\* to a stutter (trigger_analysis and run_debounced_analysis of guess.py).
THEOREM ImplementsLatestWins == Spec => LatestWinsSpec
<1>1. Init => CaughtUp
  BY DEF Init, CaughtUp
<1>2. Spec => []CaughtUp
  BY <1>1, CaughtUpStep, Invariance, PTL DEF Spec
<1> QED
  BY WorkerInit, WorkerStep, Invariance, <1>2, PTL DEF Spec, LatestWinsSpec, Worker!Spec
=============================================================================
