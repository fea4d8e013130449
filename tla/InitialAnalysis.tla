--------------------------- MODULE InitialAnalysis ---------------------------
(***************************************************************************)
(* The analysis that an upload starts, for OpenCode configurations:        *)
(* sync_tar of main.py and run_initial_analysis of guess.py, with the sync *)
(* requests of connections (ws_proxy.py) that accumulate their changes     *)
(* while it runs, in the SessionInfo of session_manager.py.                *)
(*                                                                         *)
(* The analysis edits the shadow tree in a context; when it is over, the   *)
(* changes that were accumulated go to the agent in a follow-up prompt.    *)
(* Contexts and the debounced analyses of connections are seen from        *)
(* outside: ShadowContext and AnalysisLoop have the inside.  Entering one  *)
(* (rebase, patches) and leaving one (save, restore) is a step each.       *)
(***************************************************************************)
EXTENDS Naturals, FiniteSets, OpenCodeSession

CONSTANTS
  Changes,       \* changes of files, each sent in a sync request of its own
  MaxInfos       \* bound: how many SessionInfo objects the project has had

ASSUME InfosAssumption == MaxInfos \in Nat \ {0}
ASSUME JobsAssumption == Jobs = {"initial", "followup", "other"}

VARIABLES
  upload,        \* sync_tar: "new", at do_init ("init"), "answered"
  pc,            \* the await at which run_initial_analysis is
  result,        \* what its wait_for_completion returned, once it did
  captured,      \* the SessionInfo it was given; 0 before it is created
  current,       \* the SessionInfo that the SessionManager has; 0 is None
  tasked,        \* the SessionInfos whose initial_analysis_task is set
  kept,          \* accumulated_changes of every SessionInfo
  follow,        \* the changes that run_initial_analysis has drained
  change,        \* how far every change has come
  other,         \* debounced analyses: one is "due", one is "in" its context
  dirty,         \* the shadow tree has edits that HEAD does not have
  base,          \* the changes that the shadow's HEAD has
  early          \* ghost: an analysis was triggered before the initial one

taskVars == <<pc, result, captured, follow>>
infoVars == <<current, tasked, kept>>
treeVars == <<other, dirty, base, early>>
vars == <<sessionVars, jobs, upload, taskVars, infoVars, change, treeVars>>

Infos == 1 .. MaxInfos
InContext == {"prompt", "returns", "wait", "leave"}
Running == {"created", "health", "mcp", "enter"} \cup InContext
FollowUp == {"prompt2", "returns2", "wait2"}
Stages == {"none"} \cup Running \cup FollowUp \cup {"done"}
ChangeStages == {"new", "committed", "unanswered", "kept", "triggered", "prompted", "dropped"}

\* SessionInfo.is_initial_running, of the SessionInfo in the manager.
InitialRunning == current \in tasked /\ pc # "done"
Committed == {c \in Changes : change[c] # "new"}
SetChange(cs, stage) == change' = [c \in Changes |-> IF c \in cs THEN stage ELSE change[c]]

-----------------------------------------------------------------------------
(* sync_tar *)

\* The archive is extracted (or the upload fails and can be repeated), ...
Extract ==
  /\ upload = "new" /\ upload' = "init"
  /\ UNCHANGED <<sessionVars, jobs, taskVars, infoVars, change, treeVars>>

\* ... do_init raises, which is answered with an error, ...
InitRaises ==
  /\ upload = "init" /\ upload' = "answered"
  /\ UNCHANGED <<sessionVars, jobs, taskVars, infoVars, change, treeVars>>

\* ... or it returns: the SessionInfo is got or made, and the task is created.
StartInitial ==
  /\ upload = "init" /\ upload' = "answered"
  /\ current' = IF current = 0 THEN 1 ELSE current
  /\ ~ InitialRunning
  /\ captured' = current' /\ tasked' = tasked \cup {current'}
  /\ pc' = "created"
  /\ UNCHANGED <<sessionVars, jobs, result, follow, kept, change, treeVars>>

-----------------------------------------------------------------------------
(* run_initial_analysis *)

\* finally: the SessionInfo in the manager is marked, and the changes of the
\* one that was captured are drained; nothing of this yields to the loop.
\* (Faulty variant: the changes are drained but nothing is marked.)
FinallyUnmarked(client) ==
  /\ kept' = [kept EXCEPT ![captured] = {}]
  /\ LET drained == kept[captured] IN
     IF client /\ drained # {}
     THEN pc' = "prompt2" /\ follow' = drained /\ StartSession /\ UNCHANGED change
     ELSE pc' = "done" /\ SetChange(drained, "dropped") /\ UNCHANGED <<follow, sessionVars>>
  /\ UNCHANGED <<jobs, upload, captured, current, tasked>>
Finally(client) ==
  /\ tasked' = tasked \ {current}
  /\ kept' = [kept EXCEPT ![captured] = {}]
  /\ LET drained == kept[captured] IN
     IF client /\ drained # {}
     THEN pc' = "prompt2" /\ follow' = drained /\ StartSession /\ UNCHANGED change
     ELSE pc' = "done" /\ SetChange(drained, "dropped") /\ UNCHANGED <<follow, sessionVars>>
  /\ UNCHANGED <<jobs, upload, captured, current>>

Goto(stage) == pc' = stage
Elsewhere == UNCHANGED <<upload, captured, infoVars, follow, change>>

\* The container has no port, or the client is made and asks for its health.
NoPort == pc = "created" /\ Finally(FALSE) /\ UNCHANGED <<result, treeVars>>
AskHealth ==
  /\ pc = "created" /\ Goto("health")
  /\ Elsewhere /\ UNCHANGED <<result, sessionVars, jobs, treeVars>>

\* The server is not healthy or an MCP server cannot be set up: both return.
GiveUp == pc \in {"health", "mcp"} /\ Finally(TRUE) /\ UNCHANGED <<result, treeVars>>
Ready ==
  /\ \/ pc = "health" /\ Goto("mcp")
     \/ pc = "mcp" /\ Goto("enter")
  /\ Elsewhere /\ UNCHANGED <<result, sessionVars, jobs, treeVars>>

\* The context is entered, which rebases the shadow, and the session starts;
\* git refuses to rebase a tree with edits, and it fails for other reasons.
EnterContext ==
  /\ pc = "enter" /\ ~ dirty /\ Goto("prompt")
  /\ base' = Committed
  /\ StartSession
  /\ Elsewhere /\ UNCHANGED <<result, jobs, other, dirty, early>>
EntryRaises == pc = "enter" /\ Finally(TRUE) /\ UNCHANGED <<result, treeVars>>

\* A prompt is accepted by OpenCode, and its answer arrives.
Submit ==
  /\ \/ pc = "prompt" /\ PromptAccepted("initial") /\ Goto("returns")
     \/ pc = "prompt2" /\ PromptAccepted("followup") /\ Goto("returns2")
  /\ Elsewhere /\ UNCHANGED <<result, treeVars>>
Submitted ==
  /\ \/ pc = "returns" /\ Goto("wait") /\ UNCHANGED change
     \/ pc = "returns2" /\ Goto("wait2") /\ SetChange(follow, "prompted")
  /\ PromptReturned
  /\ UNCHANGED <<result, upload, captured, infoVars, follow, treeVars>>

\* wait_for_completion returns, after the completion event or its timeout.
\* (Faulty variants: the task waits for the event only; it trusts the timeout.)
WaitForEvent ==
  /\ pc = "wait" /\ completed /\ Goto("leave")
  /\ result' = IF completed /\ ~ error THEN "success" ELSE "failure"
  /\ StopSession
  /\ Elsewhere /\ UNCHANGED <<jobs, treeVars>>
TimeoutIsSuccess ==
  /\ pc = "wait" /\ Goto("leave")
  /\ result' = IF ~ error THEN "success" ELSE "failure"
  /\ StopSession
  /\ Elsewhere /\ UNCHANGED <<jobs, treeVars>>
WaitReturns ==
  /\ pc = "wait" /\ Goto("leave")
  /\ result' = IF completed /\ ~ error THEN "success" ELSE "failure"
  /\ StopSession
  /\ Elsewhere /\ UNCHANGED <<jobs, treeVars>>

PromptRaises ==
  /\ pc \in {"prompt", "returns"} /\ Goto("leave")
  /\ StopSession
  /\ Elsewhere /\ UNCHANGED <<result, jobs, treeVars>>

\* The context is left: edits are saved and the tree is restored.
\* (Faulty variant: only a failed analysis is cleaned up.)
LeaveContextRestoringFailures ==
  /\ pc = "leave" /\ Finally(TRUE)
  /\ dirty' = (dirty /\ result = "success")
  /\ UNCHANGED <<result, other, base, early>>
LeaveContext ==
  /\ pc = "leave" /\ Finally(TRUE)
  /\ dirty' = FALSE
  /\ UNCHANGED <<result, other, base, early>>

\* The follow-up prompt fails, or its wait ends, by the event or the timeout.
FollowUpRaises ==
  /\ pc \in {"prompt2", "returns2"} /\ Goto("done")
  /\ SetChange(follow, "dropped") /\ StopSession
  /\ UNCHANGED <<result, upload, captured, infoVars, follow, jobs, treeVars>>
FollowUpEnds ==
  /\ pc = "wait2" /\ Goto("done") /\ StopSession
  /\ Elsewhere /\ UNCHANGED <<result, jobs, treeVars>>

-----------------------------------------------------------------------------
(* Connections *)

Connection == UNCHANGED <<upload, taskVars>>

\* A sync request's change is applied and committed, which needs a repository.
Commit(c) ==
  /\ change[c] = "new" /\ upload # "new"
  /\ SetChange({c}, "committed")
  /\ Connection /\ UNCHANGED <<sessionVars, jobs, infoVars, treeVars>>

\* The response is sent; while the initial analysis runs the change is kept
\* for it.  The look at the SessionInfo and the append do not yield.
Accumulate(c) ==
  /\ change[c] = "committed" /\ InitialRunning
  /\ SetChange({c}, "kept")
  /\ kept' = [kept EXCEPT ![current] = @ \cup {c}]
  /\ Connection /\ UNCHANGED <<sessionVars, jobs, current, tasked, treeVars>>

\* Otherwise a debounced analysis is triggered, after the one that is running
\* has been cancelled and has ended; it uses the same session of OpenCode.
\* (Faulty variant: it is triggered even so.)
TriggerAlways(c) ==
  /\ change[c] = "committed"
  /\ SetChange({c}, "triggered")
  /\ other' = other \cup {"due"} /\ early' = (early \/ pc = "none")
  /\ Connection /\ UNCHANGED <<sessionVars, jobs, infoVars, dirty, base>>
Trigger(c) ==
  /\ change[c] = "committed" /\ ~ InitialRunning
  /\ SetChange({c}, "triggered")
  /\ other' = other \cup {"due"} /\ early' = (early \/ pc = "none")
  /\ Connection /\ UNCHANGED <<sessionVars, jobs, infoVars, dirty, base>>

\* The client has gone and the response raises: no analysis is told.
Unanswered(c) ==
  /\ change[c] = "committed" /\ SetChange({c}, "unanswered")
  /\ Connection /\ UNCHANGED <<sessionVars, jobs, infoVars, treeVars>>

\* A plan request: SessionManager.set replaces the SessionInfo.
PlanRequest ==
  /\ current < MaxInfos /\ current' = current + 1
  /\ Connection /\ UNCHANGED <<sessionVars, jobs, tasked, kept, change, treeVars>>

\* The debounced analysis enters its context and prompts, or is refused, ...
OtherEnters ==
  /\ other = {"due"}
  /\ \/ ~ dirty /\ other' = {"in"} /\ base' = Committed /\ jobs' = jobs \cup {"other"}
     \/ other' = {} /\ UNCHANGED <<base, jobs>>
  /\ Connection /\ UNCHANGED <<sessionVars, infoVars, change, dirty, early>>

\* ... and leaves the context, when its agent ends or its event stream does.
OtherLeaves ==
  /\ "in" \in other /\ other' = other \ {"in"} /\ dirty' = FALSE
  /\ Connection /\ UNCHANGED <<sessionVars, jobs, infoVars, change, base, early>>

-----------------------------------------------------------------------------
\* OpenCode's agent edits the shadow tree whenever it works.
AgentEdits ==
  /\ jobs # {} /\ ~ dirty /\ dirty' = TRUE
  /\ UNCHANGED <<sessionVars, jobs, upload, taskVars, infoVars, change, other, base, early>>

Session ==
  /\ \/ StreamOpens \/ StreamEnds \/ HandleEvent \/ AgentFails
     \/ \E job \in Jobs : AgentEnds(job)
  /\ UNCHANGED <<upload, taskVars, infoVars, change, treeVars>>

Init ==
  /\ SessionInit
  /\ upload = "new" /\ pc = "none" /\ result = "none" /\ captured = 0 /\ follow = {}
  /\ current = 0 /\ tasked = {} /\ kept = [i \in Infos |-> {}]
  /\ change = [c \in Changes |-> "new"]
  /\ other = {} /\ dirty = FALSE /\ base = {} /\ early = FALSE

TaskStep ==
  \/ NoPort \/ AskHealth \/ GiveUp \/ Ready \/ EnterContext \/ EntryRaises \/ Submit
  \/ Submitted \/ WaitReturns \/ PromptRaises \/ LeaveContext \/ FollowUpRaises \/ FollowUpEnds

Next ==
  \/ Extract \/ InitRaises \/ StartInitial \/ TaskStep
  \/ \E c \in Changes : Commit(c) \/ Accumulate(c) \/ Trigger(c) \/ Unanswered(c)
  \/ PlanRequest \/ OtherEnters \/ OtherLeaves \/ AgentEdits \/ Session

\* The task goes on: its HTTP calls and waits have timeouts, git commands end.
Fairness == WF_vars(TaskStep)

Spec == Init /\ [][Next]_vars /\ Fairness
-----------------------------------------------------------------------------
TaskTypeOK ==
  /\ upload \in {"new", "init", "answered"} /\ pc \in Stages
  /\ result \in {"none", "success", "failure"}
  /\ captured \in 0 .. MaxInfos /\ follow \in SUBSET Changes
InfoTypeOK ==
  /\ current \in 0 .. MaxInfos /\ tasked \in SUBSET Infos
  /\ kept \in [Infos -> SUBSET Changes] /\ change \in [Changes -> ChangeStages]
TreeTypeOK ==
  /\ other \in SUBSET {"due", "in"} /\ dirty \in BOOLEAN
  /\ base \in SUBSET Changes /\ early \in BOOLEAN
\* The variables have their types: a task is at one of its awaits, and a
\* listener that was stopped has ended.
TypeOK == SessionTypeOK /\ TaskTypeOK /\ InfoTypeOK /\ TreeTypeOK

\* A change that was accumulated is in the SessionInfo that the running task
\* will drain, or in the follow-up prompt: not in one that nobody looks at any
\* more, also when a plan request has replaced the SessionInfo meanwhile.
NoChangeStranded ==
  \A c \in Changes : change[c] = "kept" =>
    \/ c \in kept[captured] /\ pc \in Running
    \/ c \in follow /\ pc \in {"prompt2", "returns2"}

\* Two contexts are open on the shadow tree only if a plan request replaced the
\* SessionInfo that knows of the initial analysis, or a sync came before it.
OverlapHasCause ==
  pc \in InContext /\ "in" \in other => current # captured \/ early

\* A wait that succeeded has seen the end of its own prompt, and not the end of
\* an earlier one, unless another analysis shares the session of OpenCode.
SuccessIsOfThisPrompt ==
  result = "success" /\ "initial" \in jobs => current # captured \/ early

\* An initial analysis that succeeded leaves a clean shadow tree, if there was
\* no follow-up and no other analysis.  (Otherwise an agent may be left to edit
\* the tree outside of every context, and no later rebase accepts its edits.)
CleanAfterSuccess ==
  pc = "done" /\ result = "success" /\ dirty =>
    follow # {} \/ \E c \in Changes : change[c] = "triggered"

\* Every change that was accumulated goes to the agent, or is dropped: because
\* OpenCode does not take the prompt, or because the container has no port and so
\* the task has no client to send it with.
KeptChangeIsHandled ==
  \A c \in Changes : change[c] = "kept" ~> change[c] \in {"prompted", "dropped"}

\* The accumulated changes are the box of ChangeBox.
Box == INSTANCE ChangeBox WITH
  open <- pc \in Running,
  box <- UNION {kept[i] : i \in Infos},
  taken <- IF pc \in FollowUp \cup {"done"} THEN follow \cup {c \in Changes : change[c] = "dropped"} ELSE {}
ChangeBoxSpec == Box!Spec
=============================================================================
