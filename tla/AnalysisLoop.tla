---------------------------- MODULE AnalysisLoop ----------------------------
(***************************************************************************)
(* A client's WebSocket connection: ws_event_loop of ws_proxy.py and the   *)
(* debounced analyses of guess.py that it starts.                          *)
(*                                                                         *)
(* The loop takes one message at a time; after a sync that changed files   *)
(* it cancels the analysis of the sync before and starts a new one, and    *)
(* when nothing arrives for a while it polls for UNSEEN patches.  The      *)
(* analysis is an asyncio task of its own: loop and task interleave at     *)
(* every await.  Connections follow one another; the tag statuses and the  *)
(* patch files outlive them, everything else of a connection does not.     *)
(*                                                                         *)
(* A patch is a tag with a content.  The contexts of the analyses are seen *)
(* from outside (ShadowContext has the inside), and a store never has a    *)
(* stale copy (TagReview has those).  The initial analysis of an upload,   *)
(* which only OpenCode has, is seen from outside too (InitialAnalysis has  *)
(* the inside): every upload is a project of its own, so that it begins    *)
(* before the first connection.                                            *)
(***************************************************************************)
EXTENDS Naturals

CONSTANTS
  Patches,       \* annotation patches an analysis may produce
  MaxGen,        \* bound: how many analyses a connection triggers
  Backends       \* what lite_analysis_backend may be: "pf", "opencode"

ASSUME MaxGenAssumption == MaxGen \in Nat \ {0}
ASSUME BackendsAssumption == Backends \subseteq {"pf", "opencode"}

VARIABLES
  backend,       \* lite_analysis_backend
  up,            \* the client can be reached
  loop,          \* the await at which ws_event_loop is
  outbox,        \* patches in the message that the loop is sending
  generation,    \* AnalysisState.generation
  pending,       \* AnalysisState.pending_task, by its generation; 0 is None
  hint,          \* AnalysisState.has_unseen_hint
  initial,       \* where the initial analysis of the upload is
  task,          \* the await at which the task of every generation is
  signal,        \* per task, the exception on its way: "requested" is a
                 \* cancel() that has not reached it, "cancel" is the
                 \* CancelledError that did, "error" any other
  report,        \* patches in the results that the task is sending
  unseen,        \* patches whose tag is UNSEEN
  sent,          \* patches whose tag is SENT
  files,         \* patches that have a file in shadow/.patches
  byInitial,     \* ghost: those whose file the initial analysis has written
  received,      \* ghost: patches the client has received
  answered       \* ghost: the generation of the last results it received

loopVars == <<up, loop, outbox>>
stateVars == <<generation, pending, hint, initial>>
taskVars == <<task, signal, report>>
fileVars == <<files, byInitial>>
tagVars == <<unseen, sent, fileVars>>
ghostVars == <<received, answered>>
vars == <<backend, loopVars, stateVars, taskVars, tagVars, ghostVars>>

Generations == 1 .. MaxGen
LoopStages == {"closed", "recv", "push", "apply", "commit", "ack", "await",
               "ask", "answer", "cleanup"}
Ended == {"none", "done", "cancelled", "failed"}
TaskStages == Ended \cup {"sleep", "enter", "run", "save", "restore", "abort", "report"}
Signals == {"no", "requested", "cancel", "error"}
InitialStages == {"begun", "inside", "after", "over"}

Live(g) == task[g] \notin Ended

\* pending_task is set and not done().
PendingLive == \E g \in Generations : pending = g /\ Live(g)

\* What get_patch_contents returns; it reads the tags of patch files only.
Deliverable == unseen \cap files
MarkSent(ps) == unseen' = unseen \ ps /\ sent' = sent \cup ps /\ UNCHANGED fileVars
Write(ps, initially) == files' = ps /\ byInitial' = IF initially THEN ps ELSE {}


-----------------------------------------------------------------------------
(* The loop: connecting, polling, syncing. *)

\* A client connects: a new AnalysisState, whose hint is set, and the push of
\* _handle_reconnect_state; finding nothing clears the hint.
Connect ==
  /\ loop = "closed"
  /\ up' = TRUE /\ outbox' = Deliverable /\ MarkSent(Deliverable)
  /\ loop' = IF Deliverable = {} THEN "recv" ELSE "push"
  /\ hint' = (Deliverable # {})
  /\ generation' = 0 /\ pending' = 0 /\ answered' = 0
  /\ task' = [g \in Generations |-> "none"]
  /\ signal' = [g \in Generations |-> "no"]
  /\ UNCHANGED <<initial, report, received>>

\* The client goes away; the server notices when it receives or sends.
ClientGone ==
  /\ loop # "closed" /\ up
  /\ up' = FALSE
  /\ UNCHANGED <<loop, outbox, stateVars, taskVars, tagVars, ghostVars>>

\* Nothing arrived for UNSEEN_POLL_INTERVAL_SECONDS.
Poll ==
  /\ loop = "recv" /\ ~ PendingLive /\ hint
  /\ hint' = (Deliverable # {})
  /\ outbox' = Deliverable /\ MarkSent(Deliverable)
  /\ loop' = IF Deliverable = {} THEN "recv" ELSE "push"
  /\ UNCHANGED <<up, generation, pending, initial, taskVars, ghostVars>>

\* The send of a push ends; if it raises, the exception is logged only.
PushEnds ==
  /\ loop = "push" /\ loop' = "recv" /\ outbox' = {}
  /\ received' = IF up THEN received \cup outbox ELSE received
  /\ UNCHANGED <<up, stateVars, taskVars, tagVars, answered>>

\* A sync request: its changes are applied in a thread, ...
ReceiveSync ==
  /\ loop = "recv" /\ generation < MaxGen
  /\ loop' = "apply"
  /\ UNCHANGED <<up, outbox, stateVars, taskVars, tagVars, ghostVars>>

\* ... committed if one of them succeeded, and answered only if none did.
Applied ==
  /\ loop = "apply"
  /\ loop' \in {"commit", "recv"}
  /\ UNCHANGED <<up, outbox, stateVars, taskVars, tagVars, ghostVars>>

Committed ==
  /\ loop = "commit" /\ loop' = "ack"
  /\ UNCHANGED <<up, outbox, stateVars, taskVars, tagVars, ghostVars>>

\* trigger_analysis creates the task for the generation it finds.
\* (Faulty variant: for the generation after it.)
CreateTaskForNext(g) ==
  /\ task' = [task EXCEPT ![g] = "sleep"]
  /\ pending' = g + 1
  /\ loop' = "recv"
CreateTask(g) ==
  /\ task' = [task EXCEPT ![g] = "sleep"]
  /\ pending' = g
  /\ loop' = "recv"

\* The response is sent and trigger_analysis begins: it counts the generation
\* up, and cancels and awaits the task that is pending.
\* (Faulty variants: it does not await the task, or does not even cancel it.)
TriggerAtOnce(signals) ==
  /\ loop = "ack" /\ initial = "over"
  /\ generation' = generation + 1
  /\ signal' = signals
  /\ CreateTask(generation')
  /\ UNCHANGED <<up, outbox, hint, initial, report, tagVars, ghostVars>>
TriggerNotAwaiting ==
  TriggerAtOnce(IF PendingLive THEN [signal EXCEPT ![pending] = "requested"] ELSE signal)
TriggerNotCancelling == TriggerAtOnce(signal)
Trigger ==
  /\ loop = "ack" /\ initial = "over"
  /\ generation' = generation + 1
  /\ IF PendingLive
     THEN /\ signal' = [signal EXCEPT ![pending] = "requested"]
          /\ loop' = "await"
          /\ UNCHANGED <<task, pending>>
     ELSE /\ CreateTask(generation')
          /\ UNCHANGED signal
  /\ UNCHANGED <<up, outbox, hint, initial, report, tagVars, ghostVars>>

\* The changes are accumulated for the initial analysis instead.
Accumulate ==
  /\ loop = "ack" /\ initial # "over"
  /\ loop' = "recv"
  /\ UNCHANGED <<up, outbox, stateVars, taskVars, tagVars, ghostVars>>

\* The cancelled task has ended: CancelledError is expected, ...
AwaitedCancelled ==
  /\ loop = "await" /\ task[pending] = "cancelled"
  /\ CreateTask(generation)
  /\ UNCHANGED <<up, outbox, generation, hint, initial, signal, report, tagVars, ghostVars>>

-----------------------------------------------------------------------------
(* The loop: questions and explicit analyses, and the end of the loop. *)

\* A question or an analysis request: the loop runs it in a worktree of its own.
ReceiveAsk ==
  /\ loop = "recv" /\ loop' = "ask"
  /\ UNCHANGED <<up, outbox, stateVars, taskVars, tagVars, ghostVars>>

\* filter_unseen_spec_patches registers the worktree's patches ps and marks
\* them SENT; if the language model then gives no answer that parses, the
\* question is answered without the patches.
AskEnds(ps) ==
  /\ loop = "ask" /\ loop' = "answer"
  /\ outbox' \in {ps \ sent, {}}
  /\ MarkSent(ps)
  /\ UNCHANGED <<up, stateVars, taskVars, ghostVars>>

Answer ==
  /\ loop = "answer" /\ loop' = "recv" /\ outbox' = {}
  /\ received' = IF up THEN received \cup outbox ELSE received
  /\ UNCHANGED <<up, stateVars, taskVars, tagVars, answered>>

\* The loop is left by an exception, into its finally: the pending task is
\* cancelled and awaited.  (Faulty variant: cancelled and not awaited.)
LeaveLoopNotAwaiting ==
  /\ outbox' = {}
  /\ loop' = "closed"
  /\ signal' = IF PendingLive THEN [signal EXCEPT ![pending] = "requested"] ELSE signal
  /\ UNCHANGED <<up, stateVars, task, report, tagVars, ghostVars>>
LeaveLoop ==
  /\ outbox' = {}
  /\ loop' = IF PendingLive THEN "cleanup" ELSE "closed"
  /\ signal' = IF PendingLive THEN [signal EXCEPT ![pending] = "requested"] ELSE signal
  /\ UNCHANGED <<up, stateVars, task, report, tagVars, ghostVars>>

\* A receive or a response after the client has gone raises,
Disconnected == loop \in {"recv", "apply", "ack", "answer"} /\ ~ up /\ LeaveLoop
\* as does a commit with nothing to commit, an analysis request that fails,
CommitRaises == loop = "commit" /\ LeaveLoop
AskRaises == loop = "ask" /\ LeaveLoop
\* and the await of a cancelled task that ended with another exception.
AwaitedFailed == loop = "await" /\ task[pending] = "failed" /\ LeaveLoop

CleanedUp ==
  /\ loop = "cleanup" /\ ~ PendingLive
  /\ loop' = "closed"
  /\ UNCHANGED <<up, outbox, stateVars, taskVars, tagVars, ghostVars>>

-----------------------------------------------------------------------------
(* The task of generation g; a cancel() that was requested reaches it first. *)

At(g, stage) == task[g] = stage /\ signal[g] # "requested"
Goto(g, stage) == task' = [task EXCEPT ![g] = stage]
NothingSaved == UNCHANGED <<tagVars, hint, report, ghostVars>>

\* The debounce delay is over.
WakeUp(g) ==
  /\ At(g, "sleep")
  /\ Goto(g, IF g = generation THEN "enter" ELSE "done")
  /\ UNCHANGED signal /\ NothingSaved

\* The context is entered, which removes the patch files, or entering raises.
EnterContext(g) ==
  /\ At(g, "enter")
  /\ \/ Goto(g, "run") /\ Write({}, FALSE) /\ UNCHANGED <<unseen, sent>>
     \/ Goto(g, "failed") /\ UNCHANGED tagVars
  /\ UNCHANGED <<signal, hint, report, ghostVars>>

\* The agent ends, or it cannot be run.
RunEnds(g) ==
  /\ At(g, "run") /\ Goto(g, "save")
  /\ \/ UNCHANGED signal
     \/ signal' = [signal EXCEPT ![g] = "error"]
  /\ NothingSaved

\* Patch files are written for the annotations ps of the shadow tree (the
\* first of them, if saving raises) and their new tags become UNSEEN.
SavePatches(g, ps) ==
  /\ At(g, "save") /\ Goto(g, "restore")
  /\ Write(ps, FALSE)
  /\ unseen' = unseen \cup (ps \ sent)
  /\ UNCHANGED <<sent, signal, hint, report, ghostVars>>

\* The context ends: the hint is set, and unless the task is stale the results
\* are collected for the client, ...
\* (Faulty variant: the results go without patches.)
FinishWithoutPatches(g) ==
  /\ At(g, "restore") /\ signal[g] = "no"
  /\ hint' = TRUE
  /\ Goto(g, IF g = generation THEN "report" ELSE "done")
  /\ UNCHANGED <<signal, report, tagVars, ghostVars>>
Finish(g) ==
  /\ At(g, "restore") /\ signal[g] = "no"
  /\ hint' = TRUE
  /\ IF g # generation
     THEN Goto(g, "done") /\ UNCHANGED <<report, tagVars>>
     ELSE /\ MarkSent(Deliverable)
          \* The response type has no name for OpenCode's analysis: it raises.
          /\ IF backend = "opencode"
             THEN Goto(g, "failed") /\ UNCHANGED report
             ELSE Goto(g, "report") /\ report' = Deliverable
  /\ UNCHANGED <<signal, ghostVars>>

\* ... or the annotations do not load, or the exception of the body goes on.
FinishRaises(g) ==
  /\ At(g, "restore") /\ signal[g] # "cancel"
  /\ Goto(g, "failed")
  /\ UNCHANGED signal /\ NothingSaved

\* After a cancellation OpenCode is asked to abort.
\* (PFAnalysisConfig.cancel finds its marker cleared and returns.)
AfterCancel == IF backend = "opencode" THEN "abort" ELSE "cancelled"

FinishCancelled(g) ==
  /\ At(g, "restore") /\ signal[g] = "cancel"
  /\ Goto(g, AfterCancel)
  /\ UNCHANGED signal /\ NothingSaved

\* The abort is answered or times out; a failure of it is ignored.
AbortEnds(g) ==
  /\ At(g, "abort") /\ Goto(g, "cancelled")
  /\ UNCHANGED signal /\ NothingSaved

\* The results are sent, or the send raises because the client has gone.
ReportEnds(g) ==
  /\ At(g, "report")
  /\ IF up
     THEN Goto(g, "done") /\ received' = received \cup report /\ answered' = g
     ELSE Goto(g, "failed") /\ UNCHANGED <<received, answered>>
  /\ report' = {}
  /\ UNCHANGED <<signal, hint, tagVars>>

\* CancelledError reaches the task.  In the body the context's exit follows;
\* an agent that fails at the same moment replaces the CancelledError.
\* (Faulty variant: the body swallows it.)
CancelRunSwallowed(g) ==
  /\ task[g] = "run" /\ signal[g] = "requested"
  /\ signal' = [signal EXCEPT ![g] = "no"]
  /\ UNCHANGED task /\ NothingSaved
CancelRun(g) ==
  /\ task[g] = "run" /\ signal[g] = "requested"
  /\ Goto(g, "save")
  /\ signal' \in {[signal EXCEPT ![g] = s] : s \in {"cancel", "error"}}
  /\ backend = "opencode" => signal'[g] = "cancel"
  /\ NothingSaved

\* Entering, saving and restoring end at once, and run_analysis cancels.
CancelContext(g) ==
  /\ task[g] \in {"enter", "save", "restore"} /\ signal[g] = "requested"
  /\ Goto(g, AfterCancel)
  /\ signal' = [signal EXCEPT ![g] = "cancel"]
  /\ NothingSaved

\* Outside run_analysis the task just ends; the results may have been sent.
CancelElsewhere(g) ==
  /\ task[g] \in {"sleep", "report"} /\ signal[g] = "requested"
  /\ Goto(g, "cancelled")
  /\ signal' = [signal EXCEPT ![g] = "cancel"]
  /\ \/ UNCHANGED ghostVars
     \/ task[g] = "report" /\ up /\ received' = received \cup report /\ answered' = g
  /\ report' = {}
  /\ UNCHANGED <<tagVars, hint>>

-----------------------------------------------------------------------------
(* The initial analysis and the server. *)

InitialGoto(stage) ==
  initial' = stage /\ UNCHANGED <<loopVars, generation, pending, hint, taskVars, ghostVars>>

\* It enters the shadow tree's context, and leaves it with the patches ps: their
\* new tags become UNSEEN, and no connection is told.
InitialEnters ==
  /\ initial = "begun" /\ InitialGoto("inside")
  /\ Write({}, TRUE) /\ UNCHANGED <<unseen, sent>>

InitialSaves(ps) ==
  /\ initial = "inside" /\ InitialGoto("after")
  /\ Write(ps, TRUE)
  /\ unseen' = unseen \cup (ps \ sent) /\ UNCHANGED sent

\* The flag is cleared, after the context or because it was never entered.
InitialEnds ==
  /\ initial \in {"begun", "after"} /\ InitialGoto("over")
  /\ UNCHANGED tagVars

\* The server dies, with everything that is not in a file.
Crash ==
  /\ loop # "closed" \/ initial # "over"
  /\ loop' = "closed" /\ up' = FALSE /\ outbox' = {} /\ report' = {}
  /\ task' = [g \in Generations |-> "none"]
  /\ initial' = "over"
  /\ UNCHANGED <<generation, pending, hint, signal, tagVars, ghostVars>>

Init ==
  /\ backend \in Backends
  /\ up = FALSE /\ loop = "closed" /\ outbox = {}
  /\ generation = 0 /\ pending = 0 /\ hint = FALSE
  /\ initial \in IF backend = "opencode" THEN {"begun", "over"} ELSE {"over"}
  /\ task = [g \in Generations |-> "none"]
  /\ signal = [g \in Generations |-> "no"]
  /\ report = {} /\ unseen = {} /\ sent = {} /\ files = {} /\ byInitial = {}
  /\ received = {} /\ answered = 0

LoopStep ==
  \/ Poll \/ PushEnds \/ ReceiveSync \/ Applied \/ Committed \/ Trigger
  \/ Accumulate \/ AwaitedCancelled \/ ReceiveAsk \/ Answer
  \/ Disconnected \/ CommitRaises \/ AskRaises \/ AwaitedFailed \/ CleanedUp
  \/ \E ps \in SUBSET Patches : AskEnds(ps)

InitialStep ==
  \/ InitialEnters \/ InitialEnds
  \/ \E ps \in SUBSET Patches : InitialSaves(ps)

TaskBody(g) ==
  \/ WakeUp(g) \/ EnterContext(g) \/ RunEnds(g) \/ Finish(g) \/ FinishRaises(g)
  \/ FinishCancelled(g) \/ AbortEnds(g) \/ ReportEnds(g)
  \/ CancelRun(g) \/ CancelContext(g) \/ CancelElsewhere(g)
  \/ \E ps \in SUBSET Patches : SavePatches(g, ps)

\* The task's own steps leave the loop and the state's other fields alone.
TaskStep(g) == TaskBody(g) /\ UNCHANGED <<backend, loopVars, generation, pending, initial>>

Next ==
  \/ UNCHANGED backend /\ (Connect \/ ClientGone \/ LoopStep \/ InitialStep \/ Crash)
  \/ \E g \in Generations : TaskStep(g)

\* What nothing but the event loop, git and OpenCode's abort call can delay:
\* the end of a task that was told to stop, and the loop that awaits it.
Unwind(g) == signal[g] # "no" /\ TaskStep(g)
Resume == UNCHANGED backend /\ (AwaitedCancelled \/ AwaitedFailed \/ CleanedUp)
Fairness == WF_vars(Resume) /\ \A g \in Generations : WF_vars(Unwind(g))

Spec == Init /\ [][Next]_vars /\ Fairness

-----------------------------------------------------------------------------
TypeOK ==
  /\ backend \in Backends
  /\ up \in BOOLEAN /\ loop \in LoopStages /\ outbox \in SUBSET Patches
  /\ generation \in 0 .. MaxGen /\ pending \in 0 .. MaxGen
  /\ hint \in BOOLEAN /\ initial \in InitialStages
  /\ task \in [Generations -> TaskStages]
  /\ signal \in [Generations -> Signals]
  /\ report \in SUBSET Patches
  /\ unseen \in SUBSET Patches /\ sent \in SUBSET Patches
  /\ files \in SUBSET Patches /\ byInitial \in SUBSET Patches
  /\ received \in SUBSET Patches /\ answered \in 0 .. MaxGen

\* At most one analysis runs at a time, and it is the pending one
\* (AnalysisState.single_pending, guess.py:382): also while the loop awaits a
\* cancelled one, and also across connections.
AtMostOneTask == \A g \in Generations : Live(g) => pending = g

\* A task that nothing is about to end is that of the newest generation: results
\* are never computed for a sync that a later one has superseded.
OnlyNewestUncancelled ==
  \A g \in Generations : Live(g) /\ signal[g] = "no" => g = generation

\* When a connection is over none of its analyses runs.
NoTaskOutlivesConnection == loop = "closed" => \A g \in Generations : ~ Live(g)

\* Within a connection the client receives results in the order of the syncs.
ResultsInOrder ==
  [][answered' # answered /\ loop # "closed" => answered' > answered]_vars

\* When the loop is idle, patches that could be delivered are left over only
\* if the last analysis failed, or if the initial analysis wrote them: every
\* other analysis, cancelled ones included, is followed by a collection of what
\* it saved.  (The poll and its hint are the second chance for what a failed one
\* leaves, while the connection lasts.  Nobody sets the hint for the initial
\* analysis: what it saves after the loop has looked waits for the next analysis
\* or the next connection.)
LeftOverHasCause ==
  loop = "recv" /\ ~ PendingLive =>
    \/ Deliverable \subseteq byInitial
    \/ \E g \in Generations : pending = g /\ task[g] = "failed"

\* The generations are the requests of LatestWins and the pending task is its
\* worker.
Worker == INSTANCE LatestWins WITH
  newest <- generation, started <- pending, working <- PendingLive, answered <- answered

\* The loop and its tasks keep that promise at every step, whatever interleaves
\* (trigger_analysis and run_debounced_analysis, guess.py): a trigger during an
\* analysis starts nothing before that analysis has ended, and what starts then
\* is the newest.
LatestWinsSpec == Worker!Spec

\* The loop never hangs on a task that it cancelled.
CancelHandshakeEnds == loop \in {"await", "cleanup"} ~> loop \notin {"await", "cleanup"}

\* tag_state.py:33, "SENT: Tag has been sent to client, awaiting decision".
SentWasDelivered == sent \subseteq received \cup outbox \cup report

\* run_debounced_analysis.results_sent (guess.py:783): if the generation is
\* still current, results are sent: what the task marks SENT it also sends.
ResultsSent ==
  [][\A g \in Generations :
       task[g] = "restore" /\ task'[g] # "restore" /\ sent' # sent => task'[g] = "report"]_vars
=============================================================================
