----------------------- MODULE InitialAnalysis_proofs -----------------------
(***************************************************************************)
(* Proofs about InitialAnalysis: its types, that no accumulated change is  *)
(* stranded, which steps overlap, and that it implements ChangeBox.        *)
(***************************************************************************)
EXTENDS InitialAnalysis, TLAPS

Triggered == \E c \in Changes : change[c] = "triggered"
Cause == current # captured \/ early
Late == FollowUp \cup {"done"}
Before == {"none", "created", "health", "mcp", "enter", "prompt"}

\* The task, the SessionInfo it was given, and the one that the manager has.
Infos_OK ==
  /\ upload # "answered" => pc = "none"
  /\ pc = "none" => captured = 0 /\ tasked = {}
  /\ pc # "none" => captured \in 1 .. current
  /\ tasked \subseteq {captured}
  /\ pc \in Running => tasked = {captured}
  /\ pc \in Late => current \notin tasked

\* Where the accumulated changes are.
Boxed ==
  /\ \A i \in Infos : kept[i] # {} => i = captured /\ pc \in Running
  /\ \A i \in Infos : \A c \in kept[i] : change[c] = "kept"
  /\ pc \in {"prompt2", "returns2"} => \A c \in follow : change[c] = "kept"
  /\ pc \notin Late => follow = {}
  /\ pc \in FollowUp => follow # {}
  /\ pc # "done" => \A c \in Changes : change[c] # "dropped"
  /\ NoChangeStranded

\* What a debounced analysis can have to do with the initial one.
Apart ==
  /\ ~ Triggered => other = {} /\ ~ early /\ "other" \notin jobs
  /\ pc = "none" /\ Triggered => early
  /\ pc \in Running /\ Triggered => Cause

\* The session and the tree, as long as there was no debounced analysis.
Quiet ==
  /\ pc \in Before => jobs = {}
  /\ pc = "prompt" => wire = <<>> /\ ~ completed
  /\ pc \in InContext \ {"leave"} /\ (wire # <<>> \/ completed) => jobs = {}
  /\ result = "success" /\ follow = {} => jobs = {}
  /\ pc = "done" /\ result = "success" /\ follow = {} => ~ dirty
Alone ==
  /\ pc \in {"none"} \cup (Running \ {"leave"}) => result = "none"
  /\ ~ Triggered => Quiet

IInv == TypeOK /\ Infos_OK /\ Boxed /\ Apart /\ Alone /\ SuccessIsOfThisPrompt

-----------------------------------------------------------------------------
LEMMA SetChangeType ==
  ASSUME change \in [Changes -> ChangeStages], NEW cs, NEW stage \in ChangeStages,
         SetChange(cs, stage)
  PROVE  change' \in [Changes -> ChangeStages]
BY DEF SetChange

\* The session object keeps its types, whoever acts on it.
LEMMA SessionTypeStep == SessionTypeOK /\ [Next]_vars => SessionTypeOK'
<1>1. SessionTypeOK /\ UNCHANGED <<sessionVars, jobs>> => SessionTypeOK'
  BY DEF SessionTypeOK, sessionVars
<1>2. SessionTypeOK /\ (StartSession \/ StopSession) /\ UNCHANGED jobs => SessionTypeOK'
  <2> SUFFICES ASSUME SessionTypeOK, StartSession \/ StopSession, UNCHANGED jobs PROVE SessionTypeOK'
    OBVIOUS
  <2>0. <<>> \in Seq(Events)
    OBVIOUS
  <2>1. wire' \in Seq(Events)
    <3>1. wire' = <<>>
      BY DEF StartSession, StopSession
    <3> QED
      BY <2>0, <3>1
  <2>2. listener' \in {"connecting", "off"}
    BY DEF StartSession, StopSession
  <2>3. sid' \in BOOLEAN /\ completed' \in BOOLEAN /\ error' \in BOOLEAN
    BY DEF StartSession, StopSession, SessionTypeOK
  <2> QED
    BY <2>1, <2>2, <2>3 DEF SessionTypeOK
<1>3. SessionTypeOK /\ (StreamOpens \/ StreamEnds) => SessionTypeOK'
  <2>1. SessionTypeOK /\ StreamOpens => SessionTypeOK'
    BY DEF SessionTypeOK, StreamOpens
  <2>2. SessionTypeOK /\ StreamEnds => SessionTypeOK'
    BY DEF SessionTypeOK, StreamEnds
  <2> QED
    BY <2>1, <2>2
<1>4. ASSUME SessionTypeOK, HandleEvent PROVE SessionTypeOK'
  <2>1. wire' \in Seq(Events)
    BY <1>4 DEF SessionTypeOK, HandleEvent
  <2>2. completed' \in BOOLEAN /\ error' \in BOOLEAN
    BY <1>4 DEF SessionTypeOK, HandleEvent
  <2> QED
    BY <1>4, <2>1, <2>2 DEF SessionTypeOK, HandleEvent
<1>5. ASSUME SessionTypeOK, NEW events \in Seq(Events), Publish(events)
      PROVE  wire' \in Seq(Events)
  BY <1>5 DEF SessionTypeOK, Publish
<1>6. SessionTypeOK /\ AgentFails => SessionTypeOK'
  <2>1. <<"error", "idle">> \in Seq(Events)
    BY DEF Events
  <2> QED
    BY <1>5, <2>1 DEF SessionTypeOK, AgentFails
<1>7. ASSUME SessionTypeOK, NEW job \in Jobs, AgentEnds(job) PROVE SessionTypeOK'
  <2>1. <<"idle">> \in Seq(Events)
    BY DEF Events
  <2> QED
    BY <1>5, <1>7, <2>1 DEF SessionTypeOK, AgentEnds
<1>8. ASSUME SessionTypeOK, Submit PROVE SessionTypeOK'
  BY <1>8, JobsAssumption DEF SessionTypeOK, Submit, PromptAccepted, sessionVars
<1>9. SessionTypeOK /\ PromptReturned => SessionTypeOK'
  BY DEF SessionTypeOK, PromptReturned
<1>10. ASSUME SessionTypeOK, OtherEnters PROVE SessionTypeOK'
  BY <1>10, JobsAssumption DEF SessionTypeOK, OtherEnters, sessionVars
<1>11. ASSUME NEW client \in BOOLEAN, SessionTypeOK, Finally(client) PROVE SessionTypeOK'
  BY <1>1, <1>2, <1>11 DEF Finally
<1> SUFFICES ASSUME SessionTypeOK, Next PROVE SessionTypeOK'
  BY <1>1 DEF vars
<1>12. CASE Session
  BY <1>3, <1>4, <1>6, <1>7, <1>12 DEF Session
<1>13. CASE TaskStep
  <2>1. CASE NoPort \/ GiveUp \/ EntryRaises \/ LeaveContext
    BY <1>11, <2>1 DEF NoPort, GiveUp, EntryRaises, LeaveContext
  <2>2. CASE AskHealth \/ Ready \/ EnterContext
    BY <1>1, <1>2, <2>2 DEF AskHealth, Ready, EnterContext
  <2>3. CASE WaitReturns \/ PromptRaises \/ FollowUpRaises \/ FollowUpEnds
    BY <1>2, <2>3 DEF WaitReturns, PromptRaises, FollowUpRaises, FollowUpEnds
  <2> QED
    BY <1>8, <1>9, <1>13, <2>1, <2>2, <2>3 DEF TaskStep, Submitted
<1>14. CASE Extract \/ InitRaises \/ StartInitial \/ PlanRequest \/ OtherLeaves \/ AgentEdits
  <2>1. CASE Extract \/ InitRaises \/ StartInitial
    BY <1>1, <2>1 DEF Extract, InitRaises, StartInitial
  <2>2. CASE PlanRequest \/ OtherLeaves
    BY <1>1, <2>2 DEF PlanRequest, OtherLeaves
  <2>3. CASE AgentEdits
    BY <1>1, <2>3 DEF AgentEdits
  <2> QED
    BY <1>14, <2>1, <2>2, <2>3
<1>15. ASSUME NEW c \in Changes, Commit(c) \/ Accumulate(c) \/ Trigger(c) \/ Unanswered(c)
       PROVE  SessionTypeOK'
  BY <1>1, <1>15 DEF Commit, Accumulate, Trigger, Unanswered
<1> QED
  BY <1>10, <1>12, <1>13, <1>14, <1>15 DEF Next

\* The task's variables.
LEMMA TaskTypeStep == TypeOK /\ Infos_OK /\ [Next]_vars => TaskTypeOK'
<1>1. TaskTypeOK /\ UNCHANGED <<upload, taskVars>> => TaskTypeOK'
  BY DEF TaskTypeOK, taskVars
<1>2. ASSUME TypeOK, Infos_OK, pc \in Running, NEW client \in BOOLEAN, Finally(client), UNCHANGED result
      PROVE  TaskTypeOK'
  <2>1. kept[captured] \in SUBSET Changes
    BY <1>2 DEF TypeOK, TaskTypeOK, InfoTypeOK, Infos_OK, Infos, Running, InContext
  <2>2. follow' \in SUBSET Changes
    BY <1>2, <2>1 DEF TypeOK, TaskTypeOK, Finally
  <2>3. pc' \in {"prompt2", "done"}
    BY <1>2 DEF Finally
  <2> QED
    BY <1>2, <2>2, <2>3 DEF TypeOK, TaskTypeOK, Finally, Stages, FollowUp
<1>3. ASSUME TypeOK, Elsewhere \/ UNCHANGED <<upload, captured, follow>>, NEW stage \in Stages, Goto(stage),
             result' \in {"none", "success", "failure"}
      PROVE  TaskTypeOK'
  BY <1>3 DEF TypeOK, TaskTypeOK, Elsewhere, Goto
<1>4. \A stage \in {"health", "mcp", "enter", "prompt", "returns", "wait", "leave", "prompt2",
                   "returns2", "wait2", "done"} : stage \in Stages
  BY DEF Stages, Running, InContext, FollowUp
<1>5. TypeOK => result \in {"none", "success", "failure"}
  BY DEF TypeOK, TaskTypeOK
<1> SUFFICES ASSUME TypeOK, Infos_OK, Next PROVE TaskTypeOK'
  BY <1>1 DEF vars, TypeOK
<1>6. CASE Session \/ AgentEdits \/ PlanRequest \/ OtherEnters \/ OtherLeaves
  BY <1>1, <1>6 DEF Session, AgentEdits, PlanRequest, OtherEnters, OtherLeaves, Connection, taskVars, TypeOK
<1>7. ASSUME NEW c \in Changes, Commit(c) \/ Accumulate(c) \/ Trigger(c) \/ Unanswered(c)
      PROVE  TaskTypeOK'
  BY <1>1, <1>7 DEF Commit, Accumulate, Trigger, Unanswered, Connection, TypeOK
<1>8. CASE Extract \/ InitRaises
  BY <1>8 DEF Extract, InitRaises, TypeOK, TaskTypeOK, taskVars
<1>9. CASE StartInitial
  <2>1. captured' \in 0 .. MaxInfos
    BY <1>9, InfosAssumption DEF StartInitial, TypeOK, InfoTypeOK
  <2> QED
    BY <1>9, <2>1 DEF StartInitial, TypeOK, TaskTypeOK, Stages, Running
<1>10. CASE TaskStep
  <2>1. CASE NoPort \/ GiveUp \/ EntryRaises \/ LeaveContext
    BY <1>2, <2>1 DEF NoPort, GiveUp, EntryRaises, LeaveContext, Running, InContext
  <2>2. CASE AskHealth \/ Ready \/ EnterContext
    BY <1>3, <1>4, <1>5, <2>2 DEF AskHealth, Ready, EnterContext
  <2>3. CASE Submit \/ Submitted
    BY <1>3, <1>4, <1>5, <2>3 DEF Submit, Submitted
  <2>4. CASE WaitReturns \/ PromptRaises
    BY <1>3, <1>4, <1>5, <2>4 DEF WaitReturns, PromptRaises
  <2>5. CASE FollowUpRaises \/ FollowUpEnds
    BY <1>3, <1>4, <1>5, <2>5 DEF FollowUpRaises, FollowUpEnds
  <2> QED
    BY <1>10, <2>1, <2>2, <2>3, <2>4, <2>5 DEF TaskStep
<1> QED
  BY <1>6, <1>7, <1>8, <1>9, <1>10 DEF Next

\* The SessionInfos and the changes.
LEMMA InfoTypeStep == TypeOK /\ Infos_OK /\ [Next]_vars => InfoTypeOK'
<1>1. InfoTypeOK /\ UNCHANGED <<infoVars, change>> => InfoTypeOK'
  BY DEF InfoTypeOK, infoVars
<1>2. ASSUME TypeOK, NEW cs, NEW stage \in ChangeStages, SetChange(cs, stage)
      PROVE  change' \in [Changes -> ChangeStages]
  BY <1>2, SetChangeType DEF TypeOK, InfoTypeOK
<1>3. ASSUME TypeOK, NEW client \in BOOLEAN, Finally(client) PROVE InfoTypeOK'
  <2>1. change' \in [Changes -> ChangeStages]
    BY <1>2, <1>3 DEF Finally, ChangeStages, TypeOK, InfoTypeOK
  <2> QED
    BY <1>3, <2>1 DEF TypeOK, InfoTypeOK, Finally
<1>4. ASSUME TypeOK, UNCHANGED infoVars, NEW cs, NEW stage \in ChangeStages, SetChange(cs, stage)
      PROVE  InfoTypeOK'
  BY <1>2, <1>4 DEF TypeOK, InfoTypeOK, infoVars
<1> SUFFICES ASSUME TypeOK, Infos_OK, Next PROVE InfoTypeOK'
  BY <1>1 DEF vars, TypeOK
<1>5. CASE Session \/ AgentEdits \/ OtherEnters \/ OtherLeaves \/ Extract \/ InitRaises
  BY <1>1, <1>5 DEF Session, AgentEdits, OtherEnters, OtherLeaves, Extract, InitRaises, TypeOK
<1>6. CASE PlanRequest
  BY <1>6, InfosAssumption DEF PlanRequest, TypeOK, InfoTypeOK
<1>7. CASE StartInitial
  BY <1>7, InfosAssumption DEF StartInitial, TypeOK, InfoTypeOK, Infos
<1>8. ASSUME NEW c \in Changes, Commit(c) \/ Accumulate(c) \/ Trigger(c) \/ Unanswered(c)
      PROVE  InfoTypeOK'
  <2>1. CASE Commit(c) \/ Trigger(c) \/ Unanswered(c)
    BY <1>4, <2>1 DEF Commit, Trigger, Unanswered, ChangeStages
  <2>2. CASE Accumulate(c)
    <3>1. change' \in [Changes -> ChangeStages]
      BY <1>2, <2>2 DEF Accumulate, ChangeStages
    <3> QED
      BY <2>2, <3>1 DEF Accumulate, TypeOK, InfoTypeOK
  <2> QED
    BY <1>8, <2>1, <2>2
<1>9. CASE TaskStep
  <2>1. CASE NoPort \/ GiveUp \/ EntryRaises \/ LeaveContext
    BY <1>3, <2>1 DEF NoPort, GiveUp, EntryRaises, LeaveContext
  <2>2. CASE AskHealth \/ Ready \/ EnterContext \/ Submit \/ WaitReturns \/ PromptRaises \/ FollowUpEnds
    BY <1>1, <2>2 DEF AskHealth, Ready, EnterContext, Submit, WaitReturns, PromptRaises, FollowUpEnds,
                      Elsewhere, TypeOK
  <2>3. CASE Submitted
    BY <1>1, <1>4, <2>3 DEF Submitted, TypeOK, ChangeStages
  <2>4. CASE FollowUpRaises
    BY <1>4, <2>4 DEF FollowUpRaises, ChangeStages
  <2> QED
    BY <1>9, <2>1, <2>2, <2>3, <2>4 DEF TaskStep
<1> QED
  BY <1>5, <1>6, <1>7, <1>8, <1>9 DEF Next

\* The shadow tree and the debounced analyses.
LEMMA TreeTypeStep == TypeOK /\ [Next]_vars => TreeTypeOK'
<1>1. TreeTypeOK /\ UNCHANGED treeVars => TreeTypeOK'
  BY DEF TreeTypeOK, treeVars
<1>2. Committed \in SUBSET Changes
  BY DEF Committed
<1>3. TypeOK => TreeTypeOK
  BY DEF TypeOK
<1> SUFFICES ASSUME TypeOK, Next PROVE TreeTypeOK'
  BY <1>1, <1>3 DEF vars
<1>4. CASE Session \/ Extract \/ InitRaises \/ StartInitial \/ PlanRequest
  BY <1>1, <1>3, <1>4 DEF Session, Extract, InitRaises, StartInitial, PlanRequest
<1>5. CASE AgentEdits \/ OtherLeaves
  BY <1>3, <1>5 DEF AgentEdits, OtherLeaves, TreeTypeOK
<1>6. CASE OtherEnters
  BY <1>2, <1>3, <1>6 DEF OtherEnters, TreeTypeOK
<1>7. ASSUME NEW c \in Changes, Commit(c) \/ Accumulate(c) \/ Unanswered(c) PROVE TreeTypeOK'
  BY <1>1, <1>3, <1>7 DEF Commit, Accumulate, Unanswered
<1>8. ASSUME NEW c \in Changes, Trigger(c) PROVE TreeTypeOK'
  BY <1>3, <1>8 DEF Trigger, TreeTypeOK
<1>9. CASE TaskStep
  <2>1. CASE NoPort \/ AskHealth \/ GiveUp \/ Ready \/ EntryRaises \/ Submit
    BY <1>1, <1>3, <2>1 DEF NoPort, AskHealth, GiveUp, Ready, EntryRaises, Submit
  <2>2. CASE Submitted \/ WaitReturns \/ PromptRaises \/ FollowUpRaises \/ FollowUpEnds
    BY <1>1, <1>3, <2>2 DEF Submitted, WaitReturns, PromptRaises, FollowUpRaises, FollowUpEnds
  <2>3. CASE EnterContext
    BY <1>2, <1>3, <2>3 DEF EnterContext, TreeTypeOK
  <2>4. CASE LeaveContext
    BY <1>3, <2>4 DEF LeaveContext, TreeTypeOK
  <2> QED
    BY <1>9, <2>1, <2>2, <2>3, <2>4 DEF TaskStep
<1> QED
  BY <1>4, <1>5, <1>6, <1>7, <1>8, <1>9 DEF Next

LEMMA TypeStep == TypeOK /\ Infos_OK /\ [Next]_vars => TypeOK'
BY SessionTypeStep, TaskTypeStep, InfoTypeStep, TreeTypeStep DEF TypeOK

-----------------------------------------------------------------------------
\* The SessionInfo that the task drains, and the one that is marked.
LEMMA InfosStep == TypeOK /\ Infos_OK /\ [Next]_vars => Infos_OK'
<1>1. Infos_OK /\ UNCHANGED <<upload, pc, captured, infoVars>> => Infos_OK'
  BY DEF Infos_OK, infoVars
<1>2. ASSUME Infos_OK, pc \in Running, pc' \in Running, UNCHANGED <<upload, captured, infoVars>>
      PROVE  Infos_OK'
  BY <1>2 DEF Infos_OK, infoVars, Late, Running, InContext, FollowUp
<1>3. ASSUME Infos_OK, pc \in FollowUp, pc' \in Late, UNCHANGED <<upload, captured, infoVars>>
      PROVE  Infos_OK'
  BY <1>3 DEF Infos_OK, infoVars, Late, Running, InContext, FollowUp
<1>4. ASSUME Infos_OK, pc \in Running, NEW client \in BOOLEAN, Finally(client) PROVE Infos_OK'
  <2>1. pc' \in Late /\ UNCHANGED <<upload, captured, current>> /\ tasked' = tasked \ {current}
    BY <1>4 DEF Finally, Late, FollowUp
  <2> QED
    BY <1>4, <2>1 DEF Infos_OK, Late, Running, InContext, FollowUp
<1> SUFFICES ASSUME TypeOK, Infos_OK, Next PROVE Infos_OK'
  BY <1>1 DEF vars, taskVars
<1>5. CASE Session \/ AgentEdits \/ OtherEnters \/ OtherLeaves
  BY <1>1, <1>5 DEF Session, AgentEdits, OtherEnters, OtherLeaves, Connection, taskVars
<1>6. CASE Extract \/ InitRaises
  BY <1>6 DEF Extract, InitRaises, Infos_OK, taskVars, infoVars
<1>7. CASE PlanRequest
  BY <1>7 DEF PlanRequest, Connection, taskVars, Infos_OK, TypeOK, TaskTypeOK, InfoTypeOK
<1>8. CASE StartInitial
  <2>1. pc = "none" /\ captured = 0 /\ tasked = {}
    BY <1>8 DEF StartInitial, Infos_OK
  <2>2. captured' = current' /\ tasked' = {current'} /\ pc' = "created" /\ upload' = "answered"
    BY <1>8, <2>1 DEF StartInitial
  <2>3. current' \in Nat /\ current' >= 1
    BY <1>8 DEF StartInitial, TypeOK, InfoTypeOK
  <2> QED
    BY <2>2, <2>3 DEF Infos_OK, Late, Running, InContext, FollowUp
<1>9. ASSUME NEW c \in Changes, Commit(c) \/ Accumulate(c) \/ Trigger(c) \/ Unanswered(c)
      PROVE  Infos_OK'
  <2>1. UNCHANGED <<upload, pc, captured, current, tasked>>
    BY <1>9 DEF Commit, Accumulate, Trigger, Unanswered, Connection, taskVars, infoVars
  <2> QED
    BY <2>1 DEF Infos_OK
<1>10. CASE TaskStep
  <2>1. CASE NoPort \/ GiveUp \/ EntryRaises \/ LeaveContext
    BY <1>4, <2>1 DEF NoPort, GiveUp, EntryRaises, LeaveContext, Running, InContext
  <2>2. CASE AskHealth \/ Ready \/ EnterContext
    BY <1>2, <2>2 DEF AskHealth, Ready, EnterContext, Elsewhere, Goto, Running, InContext
  <2>3. CASE Submit
    BY <1>2, <1>3, <2>3 DEF Submit, Elsewhere, Goto, Running, InContext, FollowUp, Late
  <2>4. CASE Submitted
    BY <1>2, <1>3, <2>4 DEF Submitted, Goto, Running, InContext, FollowUp, Late
  <2>5. CASE WaitReturns \/ PromptRaises
    BY <1>2, <2>5 DEF WaitReturns, PromptRaises, Elsewhere, Goto, Running, InContext
  <2>6. CASE FollowUpRaises \/ FollowUpEnds
    BY <1>3, <2>6 DEF FollowUpRaises, FollowUpEnds, Elsewhere, Goto, FollowUp, Late
  <2> QED
    BY <1>10, <2>1, <2>2, <2>3, <2>4, <2>5, <2>6 DEF TaskStep
<1> QED
  BY <1>5, <1>6, <1>7, <1>8, <1>9, <1>10 DEF Next

-----------------------------------------------------------------------------
\* What finally does with the changes: none is left in a SessionInfo.
LEMMA FinallyDrains ==
  ASSUME TypeOK, Infos_OK, Boxed, pc \in Running, NEW client \in BOOLEAN, Finally(client)
  PROVE  /\ kept' = [i \in Infos |-> {}]
         /\ \A c \in Changes : change[c] = "kept" <=> c \in kept[captured]
         /\ \/ pc' = "prompt2" /\ follow' = kept[captured] /\ follow' # {} /\ UNCHANGED change
            \/ pc' = "done" /\ SetChange(kept[captured], "dropped") /\ follow' = {}
         /\ pc' \notin Running /\ UNCHANGED captured
<1>1. captured \in Infos /\ kept \in [Infos -> SUBSET Changes]
  BY DEF Infos_OK, Infos, TypeOK, TaskTypeOK, InfoTypeOK, Running, InContext
<1>2. kept' = [kept EXCEPT ![captured] = {}]
  BY DEF Finally
<1>3. \A i \in Infos : kept'[i] = {}
  BY <1>1, <1>2 DEF Boxed
<1>4. kept' = [i \in Infos |-> {}]
  BY <1>1, <1>2, <1>3
<1>5. \A c \in Changes : change[c] = "kept" <=> c \in kept[captured]
  BY <1>1 DEF Boxed, NoChangeStranded, Running, InContext
<1>6. follow = {}
  BY DEF Boxed, Late, FollowUp, Running, InContext
<1>7. \/ pc' = "prompt2" /\ follow' = kept[captured] /\ follow' # {} /\ UNCHANGED change
      \/ pc' = "done" /\ SetChange(kept[captured], "dropped") /\ follow' = {}
  BY <1>6 DEF Finally
<1>8. pc' \notin Running /\ UNCHANGED captured
  BY <1>7 DEF Finally, Running, InContext
<1> QED
  BY <1>4, <1>5, <1>7, <1>8

\* Where the accumulated changes are, and that none is stranded.
LEMMA BoxedStep == TypeOK /\ Infos_OK /\ Boxed /\ [Next]_vars => Boxed'
<1>1. Boxed /\ UNCHANGED <<pc, captured, kept, follow, change>> => Boxed'
  BY DEF Boxed, NoChangeStranded
<1>2. ASSUME Boxed, pc \in Running, pc' \in Running, UNCHANGED <<captured, kept, follow, change>>
      PROVE  Boxed'
  BY <1>2 DEF Boxed, NoChangeStranded, Late, Running, InContext, FollowUp
<1>3. ASSUME TypeOK, Infos_OK, Boxed, pc \in Running, NEW client \in BOOLEAN, Finally(client) PROVE Boxed'
  <2>1. \A i \in Infos : kept'[i] = {}
    BY <1>3, FinallyDrains
  <2>2. CASE pc' = "prompt2"
    <3>1. follow' = kept[captured] /\ follow' # {} /\ UNCHANGED change
      BY <1>3, <2>2, FinallyDrains
    <3>2. \A c \in Changes : change[c] = "kept" <=> c \in kept[captured]
      BY <1>3, FinallyDrains
    <3>3. \A c \in follow' : change'[c] = "kept"
      BY <1>3, <3>1, <3>2 DEF TypeOK, TaskTypeOK, InfoTypeOK, Infos_OK, Infos, Running, InContext
    <3>4. \A c \in Changes : change'[c] # "dropped"
      BY <1>3, <3>1 DEF Boxed, Running, InContext
    <3> QED
      BY <2>1, <2>2, <3>1, <3>2, <3>3, <3>4 DEF Boxed, NoChangeStranded, Late, FollowUp
  <2>3. CASE pc' = "done"
    <3>1. SetChange(kept[captured], "dropped") /\ follow' = {}
      BY <1>3, <2>3, FinallyDrains
    <3>2. \A c \in Changes : change[c] = "kept" <=> c \in kept[captured]
      BY <1>3, FinallyDrains
    <3>3. \A c \in Changes : change'[c] # "kept"
      BY <3>1, <3>2 DEF SetChange
    <3> QED
      BY <2>1, <2>3, <3>1, <3>3 DEF Boxed, NoChangeStranded, Late, FollowUp
  <2> QED
    BY <1>3, <2>2, <2>3, FinallyDrains
<1>4. ASSUME TypeOK, Boxed, pc \in FollowUp, pc' \in {"wait2", "done"}, UNCHANGED <<captured, kept, follow>>,
             NEW stage \in {"prompted", "dropped"}, stage = "dropped" => pc' = "done", SetChange(follow, stage)
      PROVE  Boxed'
  <2>1. \A i \in Infos : kept'[i] = {}
    BY <1>4 DEF Boxed, FollowUp, Running, InContext
  <2>2. \A c \in Changes : change'[c] = IF c \in follow THEN stage ELSE change[c]
    BY <1>4 DEF SetChange
  <2>3. \A c \in Changes : change'[c] # "kept"
    BY <1>4, <2>2 DEF Boxed, NoChangeStranded, FollowUp, Running, InContext
  <2>4. pc' # "done" => \A c \in Changes : change'[c] # "dropped"
    BY <1>4, <2>2 DEF Boxed, FollowUp
  <2> QED
    BY <1>4, <2>1, <2>3, <2>4 DEF Boxed, NoChangeStranded, Late, FollowUp
<1>5. ASSUME TypeOK, Boxed, NEW c \in Changes, change[c] # "kept", UNCHANGED <<pc, captured, kept, follow>>,
             NEW stage \in {"committed", "triggered", "unanswered"}, SetChange({c}, stage)
      PROVE  Boxed'
  <2>1. \A d \in Changes : change'[d] = IF d = c THEN stage ELSE change[d]
    BY <1>5 DEF SetChange
  <2>2. \A i \in Infos : \A d \in kept'[i] : change'[d] = "kept"
    BY <1>5, <2>1 DEF Boxed, TypeOK, InfoTypeOK
  <2>3. pc' \in {"prompt2", "returns2"} => \A d \in follow' : change'[d] = "kept"
    BY <1>5, <2>1 DEF Boxed, TypeOK, TaskTypeOK
  <2>4. NoChangeStranded'
    BY <1>5, <2>1 DEF Boxed, NoChangeStranded
  <2>5. pc' # "done" => \A d \in Changes : change'[d] # "dropped"
    BY <1>5, <2>1 DEF Boxed
  <2> QED
    BY <1>5, <2>2, <2>3, <2>4, <2>5 DEF Boxed
<1> SUFFICES ASSUME TypeOK, Infos_OK, Boxed, Next PROVE Boxed'
  BY <1>1 DEF vars, taskVars, infoVars
<1>6. CASE Session \/ AgentEdits \/ OtherEnters \/ OtherLeaves
  BY <1>1, <1>6 DEF Session, AgentEdits, OtherEnters, OtherLeaves, Connection, taskVars, infoVars
<1>7. CASE Extract \/ InitRaises \/ PlanRequest
  BY <1>1, <1>7 DEF Extract, InitRaises, PlanRequest, Connection, taskVars, infoVars
<1>8. CASE StartInitial
  <2>1. pc = "none" /\ UNCHANGED <<kept, follow, change>> /\ pc' = "created"
    BY <1>8 DEF StartInitial, Infos_OK
  <2>2. \A i \in Infos : kept'[i] = {}
    BY <2>1 DEF Boxed, Running, InContext
  <2>3. \A c \in Changes : change'[c] # "kept"
    BY <2>1 DEF Boxed, NoChangeStranded, Running, InContext
  <2> QED
    BY <2>1, <2>2, <2>3 DEF Boxed, NoChangeStranded, Late, FollowUp
<1>9. ASSUME NEW c \in Changes, Commit(c) \/ Trigger(c) \/ Unanswered(c)
      PROVE  Boxed'
  <2>1. change[c] # "kept" /\ UNCHANGED <<pc, captured, kept, follow>>
    BY <1>9 DEF Commit, Trigger, Unanswered, Connection, taskVars, infoVars
  <2> QED
    BY <1>5, <1>9, <2>1 DEF Commit, Trigger, Unanswered
<1>10. ASSUME NEW c \in Changes, Accumulate(c) PROVE Boxed'
  <2>1. current = captured /\ pc \in Running /\ captured \in Infos
    BY <1>10 DEF Accumulate, InitialRunning, Infos_OK, TypeOK, TaskTypeOK, InfoTypeOK, Stages, Late, FollowUp, Infos
  <2>2. /\ kept' = [kept EXCEPT ![captured] = @ \cup {c}]
        /\ change' = [d \in Changes |-> IF d = c THEN "kept" ELSE change[d]]
        /\ UNCHANGED <<pc, captured, follow>>
    BY <1>10, <2>1 DEF Accumulate, SetChange, Connection, taskVars
  <2>3. \A i \in Infos : kept'[i] = IF i = captured THEN kept[i] \cup {c} ELSE kept[i]
    BY <2>2 DEF TypeOK, InfoTypeOK
  <2>4. \A i \in Infos : \A d \in kept'[i] : change'[d] = "kept"
    BY <2>2, <2>3 DEF Boxed, TypeOK, InfoTypeOK
  <2>5. NoChangeStranded'
    BY <2>1, <2>2, <2>3 DEF Boxed, NoChangeStranded, Running, InContext
  <2>6. \A d \in Changes : change'[d] # "dropped"
    BY <2>1, <2>2 DEF Boxed, Running, InContext
  <2> QED
    BY <2>1, <2>2, <2>3, <2>4, <2>5, <2>6 DEF Boxed, Late, FollowUp, Running, InContext
<1>11. CASE TaskStep
  <2>1. CASE NoPort \/ GiveUp \/ EntryRaises \/ LeaveContext
    BY <1>3, <2>1 DEF NoPort, GiveUp, EntryRaises, LeaveContext, Running, InContext
  <2>2. CASE AskHealth \/ Ready \/ EnterContext
    BY <1>2, <2>2 DEF AskHealth, Ready, EnterContext, Elsewhere, Goto, infoVars, Running, InContext
  <2>3. CASE Submit
    <3>1. CASE pc = "prompt"
      BY <1>2, <2>3, <3>1 DEF Submit, Elsewhere, Goto, infoVars, Running, InContext
    <3>2. CASE pc = "prompt2"
      BY <2>3, <3>2 DEF Submit, Elsewhere, Goto, infoVars, Boxed, NoChangeStranded, Late, Running, InContext, FollowUp
    <3> QED
      BY <2>3, <3>1, <3>2 DEF Submit
  <2>4. CASE Submitted
    <3>1. CASE pc = "returns"
      BY <1>2, <2>4, <3>1 DEF Submitted, Goto, infoVars, Running, InContext
    <3>2. CASE pc = "returns2"
      BY <1>4, <2>4, <3>2 DEF Submitted, Goto, infoVars, FollowUp
    <3> QED
      BY <2>4, <3>1, <3>2 DEF Submitted
  <2>5. CASE WaitReturns \/ PromptRaises
    BY <1>2, <2>5 DEF WaitReturns, PromptRaises, Elsewhere, Goto, infoVars, Running, InContext
  <2>6. CASE FollowUpRaises
    BY <1>4, <2>6 DEF FollowUpRaises, Goto, infoVars, FollowUp
  <2>7. CASE FollowUpEnds
    BY <2>7 DEF FollowUpEnds, Elsewhere, Goto, infoVars, Boxed, NoChangeStranded, Late, Running, InContext, FollowUp
  <2> QED
    BY <1>11, <2>1, <2>2, <2>3, <2>4, <2>5, <2>6, <2>7 DEF TaskStep
<1> QED
  BY <1>6, <1>7, <1>8, <1>9, <1>10, <1>11 DEF Next

-----------------------------------------------------------------------------
\* Only Trigger makes a change a triggered one, and no step takes that back.
LEMMA TriggeredByTrigger ==
  ASSUME TypeOK, Infos_OK, Boxed, [Next]_vars, \A c \in Changes : ~ Trigger(c)
  PROVE  Triggered' <=> Triggered
<1>1. ASSUME NEW cs, \A c \in cs \cap Changes : change[c] # "triggered", NEW stage, stage # "triggered",
             SetChange(cs, stage)
      PROVE  Triggered' <=> Triggered
  <2>1. \A c \in Changes : change'[c] = "triggered" <=> change[c] = "triggered"
    BY <1>1 DEF SetChange
  <2> QED
    BY <2>1 DEF Triggered
<1>2. UNCHANGED change => (Triggered' <=> Triggered)
  BY DEF Triggered
<1>3. ASSUME NEW client \in BOOLEAN, pc \in Running, Finally(client) PROVE Triggered' <=> Triggered
  <2>1. \A c \in kept[captured] \cap Changes : change[c] # "triggered"
    BY <1>3, FinallyDrains
  <2>2. UNCHANGED change \/ SetChange(kept[captured], "dropped")
    BY <1>3, FinallyDrains
  <2> QED
    BY <1>1, <1>2, <2>1, <2>2
<1>4. pc \in {"prompt2", "returns2"} => \A c \in follow \cap Changes : change[c] # "triggered"
  BY DEF Boxed
<1>5. CASE UNCHANGED vars
  BY <1>2, <1>5 DEF vars
<1>6. CASE Session \/ AgentEdits \/ OtherEnters \/ OtherLeaves
  BY <1>2, <1>6 DEF Session, AgentEdits, OtherEnters, OtherLeaves
<1>7. CASE Extract \/ InitRaises \/ PlanRequest \/ StartInitial
  BY <1>2, <1>7 DEF Extract, InitRaises, PlanRequest, StartInitial
<1>8. ASSUME NEW c \in Changes, Commit(c) \/ Accumulate(c) \/ Unanswered(c)
      PROVE  Triggered' <=> Triggered
  BY <1>1, <1>8 DEF Commit, Accumulate, Unanswered
<1>9. CASE TaskStep
  <2>1. CASE NoPort \/ GiveUp \/ EntryRaises \/ LeaveContext
    BY <1>3, <2>1 DEF NoPort, GiveUp, EntryRaises, LeaveContext, Running, InContext
  <2>2. CASE AskHealth \/ Ready \/ EnterContext \/ Submit
    BY <1>2, <2>2 DEF AskHealth, Ready, EnterContext, Submit, Elsewhere
  <2>3. CASE Submitted
    BY <1>1, <1>2, <1>4, <2>3 DEF Submitted
  <2>4. CASE WaitReturns \/ PromptRaises \/ FollowUpEnds
    BY <1>2, <2>4 DEF WaitReturns, PromptRaises, FollowUpEnds, Elsewhere
  <2>5. CASE FollowUpRaises
    BY <1>1, <1>4, <2>5 DEF FollowUpRaises
  <2> QED
    BY <1>9, <2>1, <2>2, <2>3, <2>4, <2>5 DEF TaskStep
<1> QED
  BY <1>5, <1>6, <1>7, <1>8, <1>9 DEF Next

\* The initial analysis starts once, and what causes an overlap stays.
LEMMA CauseStays ==
  ASSUME TypeOK, Infos_OK, [Next]_vars, pc # "none"
  PROVE  pc' # "none" /\ UNCHANGED captured /\ (Cause => Cause')
<1>1. captured \in Nat /\ current \in Nat /\ captured <= current /\ captured >= 1 /\ upload = "answered"
  BY DEF Infos_OK, TypeOK, TaskTypeOK, InfoTypeOK
<1>2. UNCHANGED <<pc, captured, current, early>> => pc' # "none" /\ UNCHANGED captured /\ (Cause => Cause')
  BY DEF Cause
<1>3. CASE UNCHANGED vars
  BY <1>2, <1>3 DEF vars, taskVars, infoVars, treeVars
<1>4. CASE Session \/ AgentEdits \/ OtherEnters \/ OtherLeaves
  BY <1>2, <1>4 DEF Session, AgentEdits, OtherEnters, OtherLeaves, Connection, taskVars, infoVars, treeVars
<1>5. CASE Extract \/ InitRaises \/ StartInitial
  BY <1>1, <1>5 DEF Extract, InitRaises, StartInitial
<1>6. CASE PlanRequest
  BY <1>1, <1>6 DEF PlanRequest, Connection, taskVars, Cause
<1>7. ASSUME NEW c \in Changes, Commit(c) \/ Accumulate(c) \/ Unanswered(c)
      PROVE  pc' # "none" /\ UNCHANGED captured /\ (Cause => Cause')
  BY <1>2, <1>7 DEF Commit, Accumulate, Unanswered, Connection, taskVars, infoVars, treeVars
<1>8. ASSUME NEW c \in Changes, Trigger(c)
      PROVE  pc' # "none" /\ UNCHANGED captured /\ (Cause => Cause')
  BY <1>8 DEF Trigger, Connection, taskVars, infoVars, Cause
<1>9. CASE TaskStep
  <2>1. ASSUME NEW client \in BOOLEAN, Finally(client), UNCHANGED early
        PROVE  pc' # "none" /\ UNCHANGED captured /\ (Cause => Cause')
    BY <2>1 DEF Finally, Cause
  <2>2. ASSUME NEW stage, stage # "none", Goto(stage), UNCHANGED <<captured, infoVars, treeVars>>
        PROVE  pc' # "none" /\ UNCHANGED captured /\ (Cause => Cause')
    BY <2>2 DEF Goto, Cause, infoVars, treeVars
  <2>3. CASE NoPort \/ GiveUp \/ EntryRaises \/ LeaveContext
    BY <2>1, <2>3 DEF NoPort, GiveUp, EntryRaises, LeaveContext, treeVars
  <2>4. CASE AskHealth \/ Ready
    BY <2>2, <2>4 DEF AskHealth, Ready, Elsewhere
  <2>5. CASE EnterContext
    BY <2>5 DEF EnterContext, Elsewhere, Goto, Cause, infoVars
  <2>6. CASE Submit \/ Submitted
    BY <2>2, <2>6 DEF Submit, Submitted, Elsewhere
  <2>7. CASE WaitReturns \/ PromptRaises \/ FollowUpRaises \/ FollowUpEnds
    BY <2>2, <2>7 DEF WaitReturns, PromptRaises, FollowUpRaises, FollowUpEnds, Elsewhere
  <2> QED
    BY <1>9, <2>3, <2>4, <2>5, <2>6, <2>7 DEF TaskStep
<1> QED
  BY <1>3, <1>4, <1>5, <1>6, <1>7, <1>8, <1>9 DEF Next

\* A debounced analysis runs beside the initial one only for a cause.
LEMMA ApartStep == TypeOK /\ Infos_OK /\ Boxed /\ Apart /\ [Next]_vars => Apart'
<1> SUFFICES ASSUME TypeOK, Infos_OK, Boxed, Apart, [Next]_vars PROVE Apart'
  OBVIOUS
<1>1. ASSUME NEW c \in Changes, Trigger(c) PROVE Apart'
  <2>1. Triggered'
    BY <1>1 DEF Trigger, SetChange, Triggered
  <2>2. UNCHANGED <<pc, captured, current>> /\ early' = (early \/ pc = "none")
        /\ (current \notin tasked \/ pc = "done")
    BY <1>1 DEF Trigger, InitialRunning, Connection, taskVars, infoVars
  <2>3. pc' = pc /\ early' = (early \/ pc = "none") /\ UNCHANGED <<captured, current>>
    BY <1>1 DEF Trigger, Connection, taskVars, infoVars
  <2>4. pc \in Running => current # captured
    BY <2>2 DEF Infos_OK, Running, InContext
  <2> QED
    BY <2>1, <2>3, <2>4 DEF Apart, Cause
<1>2. CASE \A c \in Changes : ~ Trigger(c)
  <2>1. Triggered' <=> Triggered
    BY <1>2, TriggeredByTrigger
  <2>2. ~ Triggered => other' = {} /\ ~ early' /\ "other" \notin jobs'
    <3>1. ~ Triggered => other = {} /\ ~ early /\ "other" \notin jobs
      BY DEF Apart
    <3>2. UNCHANGED <<treeVars, jobs>> => (~ Triggered => other' = {} /\ ~ early' /\ "other" \notin jobs')
      BY <3>1 DEF treeVars
    <3>3. UNCHANGED <<other, early, jobs>> => (~ Triggered => other' = {} /\ ~ early' /\ "other" \notin jobs')
      BY <3>1
    <3>4. CASE UNCHANGED vars
      BY <3>2, <3>4 DEF vars
    <3>5. CASE Session
      <4>1. jobs' \subseteq jobs
        BY <3>5 DEF Session, StreamOpens, StreamEnds, HandleEvent, AgentFails, AgentEnds
      <4> QED
        BY <3>1, <3>5, <4>1 DEF Session, treeVars
    <3>6. CASE AgentEdits \/ OtherEnters \/ OtherLeaves
      BY <3>1, <3>6 DEF AgentEdits, OtherEnters, OtherLeaves
    <3>7. CASE Extract \/ InitRaises \/ PlanRequest \/ StartInitial
      BY <3>2, <3>7 DEF Extract, InitRaises, PlanRequest, StartInitial
    <3>8. ASSUME NEW c \in Changes, Commit(c) \/ Accumulate(c) \/ Unanswered(c)
          PROVE  ~ Triggered => other' = {} /\ ~ early' /\ "other" \notin jobs'
      BY <3>2, <3>8 DEF Commit, Accumulate, Unanswered
    <3>9. CASE TaskStep
      <4>1. CASE NoPort \/ GiveUp \/ EntryRaises \/ LeaveContext
        BY <3>3, <4>1 DEF NoPort, GiveUp, EntryRaises, LeaveContext, Finally, treeVars
      <4>2. CASE AskHealth \/ Ready \/ EnterContext
        BY <3>3, <4>2 DEF AskHealth, Ready, EnterContext, treeVars
      <4>3. CASE Submit
        BY <3>1, <4>3 DEF Submit, PromptAccepted, treeVars
      <4>4. CASE Submitted \/ WaitReturns \/ PromptRaises \/ FollowUpRaises \/ FollowUpEnds
        BY <3>2, <4>4 DEF Submitted, PromptReturned, WaitReturns, PromptRaises, FollowUpRaises, FollowUpEnds
      <4> QED
        BY <3>9, <4>1, <4>2, <4>3, <4>4 DEF TaskStep
    <3> QED
      BY <1>2, <3>4, <3>5, <3>6, <3>7, <3>8, <3>9 DEF Next
  <2>3. pc' = "none" /\ Triggered => early'
    <3>1. SUFFICES ASSUME pc' = "none", Triggered PROVE early'
      OBVIOUS
    <3>2. pc = "none" /\ early
      BY <3>1, CauseStays DEF Apart
    <3>3. UNCHANGED early
      BY <1>2, <3>2 DEF Next, TaskStep, NoPort, AskHealth, GiveUp, Ready, EnterContext, EntryRaises, Submit,
         Submitted, WaitReturns, PromptRaises, LeaveContext, FollowUpRaises, FollowUpEnds,
         Session, AgentEdits, OtherEnters, OtherLeaves, Extract, InitRaises, PlanRequest, StartInitial,
         Commit, Accumulate, Unanswered, vars, treeVars
    <3> QED
      BY <3>2, <3>3
  <2>4. pc' \in Running /\ Triggered => Cause'
    <3>1. SUFFICES ASSUME pc' \in Running, Triggered PROVE Cause'
      OBVIOUS
    <3>2. CASE pc = "none"
      BY <1>2, <3>1, <3>2 DEF Apart, Cause, Next, TaskStep, NoPort, AskHealth, GiveUp, Ready, EnterContext,
         EntryRaises, Submit, Submitted, WaitReturns, PromptRaises, LeaveContext, FollowUpRaises, FollowUpEnds,
         Session, AgentEdits, OtherEnters, OtherLeaves, Extract, InitRaises, PlanRequest, StartInitial,
         Commit, Accumulate, Unanswered, vars, treeVars
    <3>3. CASE pc \in Running
      BY <3>1, <3>3, CauseStays DEF Apart, Running, InContext
    <3>4. CASE pc \in Late
      <4>1. pc' \in Late
        BY <1>2, <3>4 DEF Next, TaskStep, NoPort, AskHealth, GiveUp, Ready, EnterContext,
           EntryRaises, Submit, Submitted, WaitReturns, PromptRaises, LeaveContext, FollowUpRaises, FollowUpEnds,
           Session, AgentEdits, OtherEnters, OtherLeaves, Extract, InitRaises, PlanRequest, StartInitial,
           Commit, Accumulate, Unanswered, vars, taskVars, Connection, Goto, Late, FollowUp, Running, InContext,
           Infos_OK
      <4> QED
        BY <3>1, <4>1 DEF Late, FollowUp, Running, InContext
    <3> QED
      BY <3>2, <3>3, <3>4 DEF TypeOK, TaskTypeOK, Stages, Late
  <2> QED
    BY <2>1, <2>2, <2>3, <2>4 DEF Apart
<1> QED
  BY <1>1, <1>2

-----------------------------------------------------------------------------
\* There is no result before the wait for the completion event is over.
LEMMA NoResultStep ==
  ASSUME TypeOK, Infos_OK, Alone, [Next]_vars, pc' \in {"none"} \cup (Running \ {"leave"})
  PROVE  result' = "none"
<1> DEFINE Waiting == {"none"} \cup (Running \ {"leave"})
<1>1. UNCHANGED <<pc, result>> => result' = "none"
  BY DEF Alone
<1>2. pc \in Waiting /\ UNCHANGED result => result' = "none"
  BY DEF Alone
<1>3. CASE UNCHANGED vars
  BY <1>1, <1>3 DEF vars, taskVars
<1>4. CASE Session \/ AgentEdits \/ PlanRequest \/ OtherEnters \/ OtherLeaves \/ Extract \/ InitRaises
  BY <1>1, <1>4 DEF Session, AgentEdits, PlanRequest, OtherEnters, OtherLeaves, Extract, InitRaises,
                    Connection, taskVars
<1>5. ASSUME NEW c \in Changes, Commit(c) \/ Accumulate(c) \/ Trigger(c) \/ Unanswered(c)
      PROVE  result' = "none"
  BY <1>1, <1>5 DEF Commit, Accumulate, Trigger, Unanswered, Connection, taskVars
<1>6. CASE StartInitial
  BY <1>2, <1>6 DEF StartInitial, Infos_OK
<1>7. CASE TaskStep
  <2>1. ASSUME NEW client \in BOOLEAN, Finally(client) PROVE FALSE
    BY <2>1 DEF Finally, Running, InContext
  <2>2. CASE AskHealth \/ Ready \/ EnterContext
    BY <1>2, <2>2 DEF AskHealth, Ready, EnterContext, Running, InContext
  <2>3. CASE Submit \/ Submitted
    BY <1>2, <2>3 DEF Submit, Submitted, Goto, Running, InContext
  <2>4. CASE WaitReturns \/ PromptRaises \/ FollowUpRaises \/ FollowUpEnds
    BY <2>4 DEF WaitReturns, PromptRaises, FollowUpRaises, FollowUpEnds, Goto, Running, InContext
  <2> QED
    BY <1>7, <2>1, <2>2, <2>3, <2>4 DEF TaskStep, NoPort, GiveUp, EntryRaises, LeaveContext
<1> QED
  BY <1>3, <1>4, <1>5, <1>6, <1>7 DEF Next

\* Without a debounced analysis the initial one has the session to itself.
LEMMA QuietStep ==
  ASSUME TypeOK, Infos_OK, Boxed, Apart, Alone, ~ Triggered, [Next]_vars, \A c \in Changes : ~ Trigger(c)
  PROVE  Quiet'
<1>1. Quiet /\ other = {}
  BY DEF Alone, Apart
<1>2. UNCHANGED <<pc, jobs, wire, completed, result, follow, dirty>> => Quiet'
  BY <1>1 DEF Quiet
<1>3. ASSUME pc \in Running, NEW client \in BOOLEAN, Finally(client), UNCHANGED result,
             pc = "leave" => dirty' = FALSE
      PROVE  Quiet'
  <2>1. pc' \in {"prompt2", "done"} /\ UNCHANGED jobs
    BY <1>3 DEF Finally
  <2>2. result = "success" => pc = "leave" /\ follow = {}
    BY <1>3 DEF Alone, Boxed, Late, FollowUp, Running, InContext
  <2> QED
    BY <1>1, <1>3, <2>1, <2>2 DEF Quiet, Before, InContext
<1>4. CASE UNCHANGED vars
  BY <1>2, <1>4 DEF vars, sessionVars, taskVars, treeVars
<1>5. CASE PlanRequest \/ Extract \/ InitRaises
  BY <1>2, <1>5 DEF PlanRequest, Extract, InitRaises, Connection, sessionVars, taskVars, treeVars
<1>6. ASSUME NEW c \in Changes, Commit(c) \/ Accumulate(c) \/ Unanswered(c) PROVE Quiet'
  BY <1>2, <1>6 DEF Commit, Accumulate, Unanswered, Connection, sessionVars, taskVars, treeVars
<1>7. CASE OtherEnters \/ OtherLeaves
  BY <1>1, <1>7 DEF OtherEnters, OtherLeaves
<1>8. CASE AgentEdits
  <2>1. jobs # {} /\ UNCHANGED <<pc, jobs, wire, completed, result, follow>>
    BY <1>8 DEF AgentEdits, sessionVars, taskVars
  <2> QED
    BY <1>1, <2>1 DEF Quiet
<1>9. CASE StartInitial
  <2>1. pc = "none" /\ pc' = "created" /\ UNCHANGED <<jobs, result, follow>>
    BY <1>9 DEF StartInitial, Infos_OK
  <2>2. result = "none"
    BY <2>1 DEF Alone
  <2> QED
    BY <1>1, <2>1, <2>2 DEF Quiet, Before, InContext
<1>10. CASE Session
  <2>1. UNCHANGED <<pc, result, follow, dirty>>
    BY <1>10 DEF Session, taskVars, treeVars
  <2>2. CASE StreamOpens \/ StreamEnds
    BY <1>1, <2>1, <2>2 DEF StreamOpens, StreamEnds, Quiet
  <2>3. CASE HandleEvent
    <3>1. wire # <<>> /\ UNCHANGED jobs
      BY <2>3 DEF HandleEvent
    <3>2. pc # "prompt"
      BY <1>1, <3>1 DEF Quiet
    <3>3. pc \in InContext \ {"leave"} => jobs = {}
      BY <1>1, <3>1 DEF Quiet
    <3> QED
      BY <1>1, <2>1, <3>1, <3>2, <3>3 DEF Quiet
  <2>4. CASE AgentFails \/ \E job \in Jobs : AgentEnds(job)
    <3>1. jobs # {} /\ jobs' \subseteq jobs /\ (jobs' = {} \/ UNCHANGED wire) /\ UNCHANGED completed
      BY <2>4 DEF AgentFails, AgentEnds
    <3>2. pc # "prompt"
      BY <1>1, <3>1 DEF Quiet, Before
    <3> QED
      BY <1>1, <2>1, <3>1, <3>2 DEF Quiet, Before
  <2> QED
    BY <1>10, <2>2, <2>3, <2>4 DEF Session
<1>11. CASE TaskStep
  <2>1. CASE NoPort \/ GiveUp \/ EntryRaises
    BY <1>3, <2>1 DEF NoPort, GiveUp, EntryRaises, Running, InContext
  <2>2. CASE LeaveContext
    BY <1>3, <2>2 DEF LeaveContext, Running, InContext
  <2>3. CASE AskHealth \/ Ready
    <3>1. pc \in Before \ {"none", "prompt"} /\ pc' \in Before \ {"prompt"} /\ UNCHANGED jobs
      BY <2>3 DEF AskHealth, Ready, Goto, Before
    <3>2. result' = "none"
      BY <2>3, <3>1 DEF AskHealth, Ready, Alone, Before, Running, InContext
    <3> QED
      BY <1>1, <3>1, <3>2 DEF Quiet, Before, InContext
  <2>4. CASE EnterContext
    <3>1. pc = "enter" /\ pc' = "prompt" /\ UNCHANGED <<jobs, result>> /\ wire' = <<>> /\ completed' = FALSE
      BY <2>4 DEF EnterContext, Goto, StartSession
    <3>2. result' = "none"
      BY <3>1 DEF Alone, Running, InContext
    <3> QED
      BY <1>1, <3>1, <3>2 DEF Quiet, Before, InContext
  <2>5. CASE pc = "prompt" /\ Submit
    <3>1. pc' = "returns" /\ UNCHANGED <<wire, completed, result>> /\ wire = <<>> /\ ~ completed
      BY <1>1, <2>5 DEF Submit, Goto, PromptAccepted, sessionVars, Quiet
    <3>2. result' = "none"
      BY <2>5, <3>1 DEF Alone, Running, InContext
    <3> QED
      BY <3>1, <3>2 DEF Quiet, Before, InContext
  <2>6. CASE pc = "returns" /\ Submitted
    <3>1. pc' = "wait" /\ UNCHANGED <<wire, completed, result, jobs>>
      BY <2>6 DEF Submitted, Goto, PromptReturned
    <3>2. result' = "none"
      BY <2>6, <3>1 DEF Alone, Running, InContext
    <3> QED
      BY <1>1, <2>6, <3>1, <3>2 DEF Quiet, Before, InContext
  <2>7. CASE WaitReturns
    <3>1. pc = "wait" /\ pc' = "leave" /\ UNCHANGED jobs /\ (result' = "success" => completed)
      BY <2>7 DEF WaitReturns, Goto
    <3>2. result' = "success" => jobs = {}
      BY <1>1, <3>1 DEF Quiet, InContext
    <3> QED
      BY <3>1, <3>2 DEF Quiet, Before, InContext
  <2>8. CASE PromptRaises
    <3>1. pc' = "leave" /\ result' = "none"
      BY <2>8 DEF PromptRaises, Goto, Alone, Running, InContext
    <3> QED
      BY <3>1 DEF Quiet, Before, InContext
  <2>9. ASSUME pc \in FollowUp, pc' \in Late, UNCHANGED follow PROVE Quiet'
    <3>1. follow' # {}
      BY <2>9 DEF Boxed
    <3> QED
      BY <2>9, <3>1 DEF Quiet, Before, InContext, Late, FollowUp
  <2>10. CASE (pc = "prompt2" /\ Submit) \/ (pc = "returns2" /\ Submitted)
    BY <2>9, <2>10 DEF Submit, Submitted, Elsewhere, Goto, FollowUp, Late
  <2>11. CASE FollowUpRaises \/ FollowUpEnds
    BY <2>9, <2>11 DEF FollowUpRaises, FollowUpEnds, Elsewhere, Goto, FollowUp, Late
  <2> QED
    BY <1>11, <2>1, <2>2, <2>3, <2>4, <2>5, <2>6, <2>7, <2>8, <2>10, <2>11
    DEF TaskStep, Submit, Submitted
<1> QED
  BY <1>4, <1>5, <1>6, <1>7, <1>8, <1>9, <1>10, <1>11 DEF Next

LEMMA AloneStep == TypeOK /\ Infos_OK /\ Boxed /\ Apart /\ Alone /\ [Next]_vars => Alone'
<1> SUFFICES ASSUME TypeOK, Infos_OK, Boxed, Apart, Alone, [Next]_vars PROVE Alone'
  OBVIOUS
<1>1. pc' \in {"none"} \cup (Running \ {"leave"}) => result' = "none"
  BY NoResultStep
<1>2. ~ Triggered' => Quiet'
  <2>1. ASSUME NEW c \in Changes, Trigger(c) PROVE Triggered'
    BY <2>1 DEF Trigger, SetChange, Triggered
  <2> QED
    BY <2>1, QuietStep, TriggeredByTrigger
<1> QED
  BY <1>1, <1>2 DEF Alone, Running, InContext

\* A success is of this prompt's end, also when it is looked at much later.
LEMMA SuccessStep == IInv /\ [Next]_vars => SuccessIsOfThisPrompt'
<1> SUFFICES ASSUME IInv, [Next]_vars, result' = "success", "initial" \in jobs' PROVE Cause'
  BY DEF SuccessIsOfThisPrompt, Cause
<1> USE DEF IInv
<1>1. pc # "none"
  <2>1. SUFFICES ASSUME pc = "none" PROVE FALSE
    OBVIOUS
  <2>2. result' = result
    BY <2>1 DEF Next, TaskStep, NoPort, AskHealth, GiveUp, Ready, EnterContext, EntryRaises, Submit,
       Submitted, WaitReturns, PromptRaises, LeaveContext, FollowUpRaises, FollowUpEnds,
       Session, AgentEdits, OtherEnters, OtherLeaves, Extract, InitRaises, PlanRequest, StartInitial,
       Commit, Accumulate, Trigger, Unanswered, vars, taskVars, Connection
  <2> QED
    BY <2>1, <2>2 DEF Alone
<1>2. Cause => Cause'
  BY <1>1, CauseStays
<1>3. CASE WaitReturns
  <2>1. pc = "wait" /\ completed /\ UNCHANGED jobs
    BY <1>3 DEF WaitReturns
  <2>2. Triggered
    BY <2>1 DEF Alone, Quiet, InContext
  <2> QED
    BY <1>2, <2>1, <2>2 DEF Apart, Running, InContext
<1>4. CASE pc = "prompt" /\ Submit
  <2>1. UNCHANGED result /\ result = "none"
    BY <1>4 DEF Submit, Alone, Running, InContext
  <2> QED
    BY <2>1
<1>5. CASE result' = result /\ ("initial" \in jobs' => "initial" \in jobs)
  BY <1>2, <1>5 DEF SuccessIsOfThisPrompt, Cause
<1>6. ASSUME ~ WaitReturns PROVE UNCHANGED result
  BY <1>6 DEF Next, TaskStep, NoPort, AskHealth, GiveUp, Ready, EnterContext, EntryRaises, Submit,
     Submitted, PromptRaises, LeaveContext, FollowUpRaises, FollowUpEnds,
     Session, AgentEdits, OtherEnters, OtherLeaves, Extract, InitRaises, PlanRequest, StartInitial,
     Commit, Accumulate, Trigger, Unanswered, vars, taskVars, Connection
<1>7. ASSUME ~ (pc = "prompt" /\ Submit) PROVE "initial" \in jobs' => "initial" \in jobs
  <2>1. UNCHANGED jobs => ("initial" \in jobs' => "initial" \in jobs)
    OBVIOUS
  <2>2. CASE Session
    BY <2>2 DEF Session, StreamOpens, StreamEnds, HandleEvent, AgentFails, AgentEnds
  <2>3. CASE OtherEnters \/ OtherLeaves \/ AgentEdits
    BY <2>3 DEF OtherEnters, OtherLeaves, AgentEdits
  <2>4. CASE TaskStep
    BY <1>7, <2>4 DEF TaskStep, NoPort, AskHealth, GiveUp, Ready, EnterContext, EntryRaises, Submit,
       Submitted, PromptAccepted, PromptReturned, WaitReturns, PromptRaises, LeaveContext, FollowUpRaises,
       FollowUpEnds, Finally
  <2> QED
    BY <2>1, <2>2, <2>3, <2>4 DEF Next, Extract, InitRaises, PlanRequest, StartInitial,
       Commit, Accumulate, Trigger, Unanswered, vars
<1> QED
  BY <1>3, <1>4, <1>5, <1>6, <1>7

-----------------------------------------------------------------------------
LEMMA InitIInv == Init => IInv
<1> SUFFICES ASSUME Init PROVE IInv
  OBVIOUS
<1>1. SessionTypeOK
  <2>1. <<>> \in Seq(Events)
    OBVIOUS
  <2>2. SessionInit
    BY DEF Init
  <2> QED
    BY <2>1, <2>2 DEF SessionInit, SessionTypeOK
<1>2. TaskTypeOK /\ InfoTypeOK /\ TreeTypeOK
  <2>1. TaskTypeOK
    BY InfosAssumption DEF Init, TaskTypeOK, Stages
  <2>2. InfoTypeOK
    BY InfosAssumption DEF Init, InfoTypeOK, ChangeStages
  <2>3. TreeTypeOK
    BY DEF Init, TreeTypeOK
  <2> QED
    BY <2>1, <2>2, <2>3
<1>3. Infos_OK /\ Boxed
  BY DEF Init, Infos_OK, Boxed, NoChangeStranded, Running, InContext, Late, FollowUp
<1>4. Apart /\ Alone /\ SuccessIsOfThisPrompt
  BY DEF Init, SessionInit, Apart, Triggered, Alone, Quiet, Running, InContext, SuccessIsOfThisPrompt
<1> QED
  BY <1>1, <1>2, <1>3, <1>4 DEF IInv, TypeOK

LEMMA StepIInv == IInv /\ [Next]_vars => IInv'
BY TypeStep, InfosStep, BoxedStep, ApartStep, AloneStep, SuccessStep DEF IInv

LEMMA Inductive == Spec => []IInv
BY InitIInv, StepIInv, PTL DEF Spec

\* Every variable of run_initial_analysis, of the SessionInfos and of the
\* session keeps its type, for any number of changes and of plan requests.
THEOREM TypeCorrect == Spec => []TypeOK
<1>1. IInv => TypeOK
  BY DEF IInv
<1> QED
  BY <1>1, Inductive, PTL

\* The drain in the finally of run_initial_analysis finds every change that
\* _maybe_accumulate put aside, whichever plan requests replace the SessionInfo.
THEOREM NothingStranded == Spec => []NoChangeStranded
<1>1. IInv => NoChangeStranded
  BY DEF IInv, Boxed
<1> QED
  BY <1>1, Inductive, PTL

\* Two contexts overlap on one shadow tree only when is_initial_running was
\* asked of another SessionInfo, or before there was an initial analysis.
THEOREM OverlapExplained == Spec => []OverlapHasCause
<1>1. IInv => OverlapHasCause
  BY DEF IInv, Apart, Cause, OverlapHasCause, Running
<1> QED
  BY <1>1, Inductive, PTL

\* wait_for_completion tells a success of its own prompt, if it is alone.
THEOREM SuccessIsOwn == Spec => []SuccessIsOfThisPrompt
<1>1. IInv => SuccessIsOfThisPrompt
  BY DEF IInv
<1> QED
  BY <1>1, Inductive, PTL

\* A success without a follow-up leaves the shadow tree as HEAD has it.
THEOREM SuccessIsClean == Spec => []CleanAfterSuccess
<1>1. IInv => CleanAfterSuccess
  BY DEF IInv, Alone, Quiet, Triggered, CleanAfterSuccess
<1> QED
  BY <1>1, Inductive, PTL

-----------------------------------------------------------------------------
(* The refinement: the state functions that Box gives to ChangeBox. *)

Open == pc \in Running
BoxOf == UNION {kept[i] : i \in Infos}
Dropped == {c \in Changes : change[c] = "dropped"}
Taken == IF pc \in FollowUp \cup {"done"} THEN follow \cup Dropped ELSE {}

\* While the task runs all that is kept is with the SessionInfo it was given.
LEMMA BoxIsCaptured ==
  ASSUME IInv, pc \in Running
  PROVE  BoxOf = kept[captured] /\ captured \in Infos
<1>1. captured \in Infos
  BY DEF IInv, Infos_OK, Infos, TypeOK, TaskTypeOK, InfoTypeOK, Running, InContext
<1>2. \A i \in Infos : i # captured => kept[i] = {}
  BY DEF IInv, Boxed
<1> QED
  BY <1>1, <1>2 DEF BoxOf

LEMMA StutterOrStep ==
  ASSUME IInv, [Next]_vars
  PROVE  \/ UNCHANGED <<Open, BoxOf, Taken>>
         \/ ~ Open /\ Taken = {} /\ Open' /\ UNCHANGED <<BoxOf, Taken>>
         \/ Open /\ ~ Open' /\ BoxOf' = {} /\ Taken' = BoxOf
         \/ \E c \in Changes : /\ Open /\ c \notin BoxOf \cup Taken
                               /\ BoxOf' = BoxOf \cup {c} /\ UNCHANGED <<Open, Taken>>
<1> DEFINE Goal == \/ UNCHANGED <<Open, BoxOf, Taken>>
                   \/ ~ Open /\ Taken = {} /\ Open' /\ UNCHANGED <<BoxOf, Taken>>
                   \/ Open /\ ~ Open' /\ BoxOf' = {} /\ Taken' = BoxOf
                   \/ \E c \in Changes : /\ Open /\ c \notin BoxOf \cup Taken
                                         /\ BoxOf' = BoxOf \cup {c} /\ UNCHANGED <<Open, Taken>>
<1> SUFFICES Goal
  OBVIOUS
<1>1. UNCHANGED <<pc, kept, follow, change>> => Goal
  BY DEF Open, BoxOf, Taken, Dropped
<1>2. pc \in Running /\ pc' \in Running /\ UNCHANGED kept => Goal
  BY DEF Open, BoxOf, Taken, Running, InContext, FollowUp
<1>3. ASSUME pc \in Late, pc' \in Late, UNCHANGED <<kept, follow>>, follow \cup Dropped' = follow \cup Dropped
      PROVE  Goal
  BY <1>3 DEF Open, BoxOf, Taken, Running, InContext, FollowUp, Late
<1>4. ASSUME pc \in Running, NEW client \in BOOLEAN, Finally(client) PROVE Goal
  <2>1. TypeOK /\ Infos_OK /\ Boxed /\ \A c \in Changes : change[c] # "dropped"
    BY <1>4 DEF IInv, Boxed, Running, InContext
  <2>2. BoxOf' = {}
    BY <1>4, <2>1, FinallyDrains DEF BoxOf
  <2>3. BoxOf = kept[captured] /\ kept[captured] \subseteq Changes
    BY <1>4, <2>1, BoxIsCaptured DEF TypeOK, InfoTypeOK
  <2>4. CASE pc' = "prompt2"
    <3>1. follow' = kept[captured] /\ UNCHANGED change
      BY <1>4, <2>1, <2>4, FinallyDrains
    <3>2. Dropped' = {}
      BY <2>1, <3>1 DEF Dropped
    <3> QED
      BY <1>4, <2>2, <2>3, <2>4, <3>1, <3>2 DEF Open, Taken, FollowUp, Running, InContext
  <2>5. CASE pc' = "done"
    <3>1. follow' = {} /\ SetChange(kept[captured], "dropped")
      BY <1>4, <2>1, <2>5, FinallyDrains
    <3>2. Dropped' = kept[captured]
      BY <2>1, <2>3, <3>1 DEF Dropped, SetChange
    <3> QED
      BY <1>4, <2>2, <2>3, <2>5, <3>1, <3>2 DEF Open, Taken, FollowUp, Running, InContext
  <2> QED
    BY <1>4, <2>1, <2>4, <2>5, FinallyDrains
<1>5. CASE UNCHANGED vars
  BY <1>1, <1>5 DEF vars, taskVars, infoVars
<1>6. CASE Session \/ AgentEdits \/ PlanRequest \/ OtherEnters \/ OtherLeaves
  BY <1>1, <1>6 DEF Session, AgentEdits, PlanRequest, OtherEnters, OtherLeaves, Connection, taskVars, infoVars
<1>7. CASE Extract \/ InitRaises
  BY <1>1, <1>7 DEF Extract, InitRaises, taskVars, infoVars
<1>8. CASE StartInitial
  <2>1. pc = "none" /\ pc' = "created" /\ UNCHANGED kept
    BY <1>8 DEF StartInitial, IInv, Infos_OK
  <2> QED
    BY <2>1 DEF Open, BoxOf, Taken, Running, InContext, FollowUp
<1>9. ASSUME NEW c \in Changes, Commit(c) \/ Trigger(c) \/ Unanswered(c) PROVE Goal
  <2>1. UNCHANGED <<pc, kept, follow>>
    BY <1>9 DEF Commit, Trigger, Unanswered, Connection, taskVars, infoVars
  <2>2. \A d \in Changes : change'[d] = "dropped" <=> change[d] = "dropped"
    BY <1>9 DEF Commit, Trigger, Unanswered, SetChange
  <2>3. Dropped' = Dropped
    BY <2>2 DEF Dropped
  <2> QED
    BY <2>1, <2>3 DEF Open, BoxOf, Taken
<1>10. ASSUME NEW c \in Changes, Accumulate(c) PROVE Goal
  <2>1. current = captured /\ pc \in Running
    BY <1>10 DEF Accumulate, InitialRunning, IInv, Infos_OK, TypeOK, TaskTypeOK, Stages, Late, FollowUp
  <2>2. BoxOf = kept[captured] /\ captured \in Infos
    BY <2>1, BoxIsCaptured
  <2>3. \A i \in Infos : kept'[i] = IF i = captured THEN kept[i] \cup {c} ELSE kept[i]
    BY <1>10, <2>1 DEF Accumulate, IInv, TypeOK, InfoTypeOK
  <2>4. \A i \in Infos : i # captured => kept[i] = {}
    BY DEF IInv, Boxed
  <2>5. BoxOf' = kept[captured] \cup {c}
    BY <2>2, <2>3, <2>4 DEF BoxOf
  <2>6. c \notin kept[captured]
    BY <1>10, <2>2 DEF Accumulate, IInv, Boxed
  <2>7. UNCHANGED pc
    BY <1>10 DEF Accumulate, Connection, taskVars
  <2> QED
    BY <2>1, <2>2, <2>5, <2>6, <2>7 DEF Open, Taken, Running, InContext, FollowUp
<1>11. CASE TaskStep
  <2>1. CASE NoPort \/ GiveUp \/ EntryRaises \/ LeaveContext
    BY <1>4, <2>1 DEF NoPort, GiveUp, EntryRaises, LeaveContext, Running, InContext
  <2>2. CASE AskHealth \/ Ready \/ EnterContext
    BY <1>2, <2>2 DEF AskHealth, Ready, EnterContext, Elsewhere, Goto, infoVars, Running, InContext
  <2>3. CASE WaitReturns \/ PromptRaises
    BY <1>2, <2>3 DEF WaitReturns, PromptRaises, Elsewhere, Goto, infoVars, Running, InContext
  <2>4. CASE Submit
    <3>1. UNCHANGED change => Dropped' = Dropped
      BY DEF Dropped
    <3>2. CASE pc = "prompt"
      BY <1>2, <2>4, <3>2 DEF Submit, Elsewhere, Goto, infoVars, Running, InContext
    <3>3. CASE pc = "prompt2"
      BY <1>3, <2>4, <3>1, <3>3 DEF Submit, Elsewhere, Goto, infoVars, Late, FollowUp
    <3> QED
      BY <2>4, <3>2, <3>3 DEF Submit
  <2>5. CASE Submitted
    <3>1. CASE pc = "returns"
      BY <1>2, <2>5, <3>1 DEF Submitted, Goto, infoVars, Running, InContext
    <3>2. CASE pc = "returns2"
      <4>1. pc' = "wait2" /\ UNCHANGED <<kept, follow>> /\ SetChange(follow, "prompted")
        BY <2>5, <3>2 DEF Submitted, Goto, infoVars
      <4>2. \A c \in Changes : change[c] # "dropped" /\ change'[c] # "dropped"
        BY <3>2, <4>1 DEF IInv, Boxed, SetChange
      <4>3. Dropped' = Dropped
        BY <4>2 DEF Dropped
      <4> QED
        BY <1>3, <3>2, <4>1, <4>3 DEF Late, FollowUp
    <3> QED
      BY <2>5, <3>1, <3>2 DEF Submitted
  <2>6. CASE FollowUpRaises
    <3>1. pc \in FollowUp /\ pc' = "done" /\ UNCHANGED <<kept, follow>> /\ SetChange(follow, "dropped")
      BY <2>6 DEF FollowUpRaises, Goto, infoVars, FollowUp
    <3>2. \A c \in Changes : change[c] # "dropped"
      BY <3>1 DEF IInv, Boxed, FollowUp
    <3>3. Dropped = {} /\ Dropped' \subseteq follow
      BY <3>1, <3>2 DEF Dropped, SetChange
    <3> QED
      BY <1>3, <3>1, <3>3 DEF Late
  <2>7. CASE FollowUpEnds
    <3>1. UNCHANGED change => Dropped' = Dropped
      BY DEF Dropped
    <3> QED
      BY <1>3, <2>7, <3>1 DEF FollowUpEnds, Elsewhere, Goto, infoVars, Late, FollowUp
  <2> QED
    BY <1>11, <2>1, <2>2, <2>3, <2>4, <2>5, <2>6, <2>7 DEF TaskStep
<1> QED
  BY <1>5, <1>6, <1>7, <1>8, <1>9, <1>10, <1>11 DEF Next

LEMMA BoxInit == Init => Box!Init
BY DEF Init, Box!Init, Running, InContext, FollowUp

LEMMA BoxStep == IInv /\ [Next]_vars => [Box!Next]_(Box!vars)
<1> SUFFICES ASSUME IInv, [Next]_vars PROVE [Box!Next]_(Box!vars)
  OBVIOUS
<1>1. CASE UNCHANGED <<Open, BoxOf, Taken>>
  BY <1>1 DEF Box!vars, Open, BoxOf, Taken, Dropped
<1>2. CASE ~ Open /\ Taken = {} /\ Open' /\ UNCHANGED <<BoxOf, Taken>>
  BY <1>2 DEF Box!Next, Box!Open, Open, BoxOf, Taken, Dropped
<1>3. CASE Open /\ ~ Open' /\ BoxOf' = {} /\ Taken' = BoxOf
  BY <1>3 DEF Box!Next, Box!Take, Open, BoxOf, Taken, Dropped
<1>4. ASSUME NEW c \in Changes, Open, c \notin BoxOf \cup Taken, BoxOf' = BoxOf \cup {c}, UNCHANGED <<Open, Taken>>
      PROVE  Box!Next
  BY <1>4 DEF Box!Next, Box!Put, Open, BoxOf, Taken, Dropped
<1> QED
  BY <1>1, <1>2, <1>3, <1>4, StutterOrStep

\* The SessionInfos are a ChangeBox: after the analysis took the changes out of
\* it, run_initial_analysis cannot be given another one, and loses none.
THEOREM ImplementsChangeBox == Spec => ChangeBoxSpec
BY BoxInit, BoxStep, Inductive, PTL DEF Spec, ChangeBoxSpec, Box!Spec
=============================================================================
