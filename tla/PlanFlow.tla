------------------------------- MODULE PlanFlow -------------------------------
(***************************************************************************)
(* Planning: handle_plan_request, handle_plan_confirmation and the event   *)
(* handlers of ws_proxy.py, with PlanManager (one per connection),         *)
(* SessionManager (one SessionInfo per project) and SSEEventListener.      *)
(*                                                                         *)
(* A plan request makes an OpenCode session and a listener of its own, so  *)
(* the number of the plan names all three.  The loop of a connection, the  *)
(* listeners and OpenCode interleave at every await.  The client confirms  *)
(* what it was last told; meanwhile the server may have gone on.           *)
(***************************************************************************)
EXTENDS Naturals, Sequences, FiniteSets

CONSTANTS
  MaxConnections, \* WebSockets that the user has open to the project at a time
  MaxPlans,       \* bound: plan requests
  MaxAsked,       \* bound: questions that OpenCode asks
  MaxTotal,       \* bound: plan requests and questions together
  MaxRevision,    \* bound: revision up to which the client confirms a plan
  MaxQueue        \* bound: events that a listener has not handled

ASSUME BoundsAssumption ==
  /\ MaxConnections \in Nat /\ MaxPlans \in Nat
  /\ MaxAsked \in Nat /\ MaxTotal \in Nat /\ MaxRevision \in Nat /\ MaxQueue \in Nat

VARIABLES
  loop,          \* the await at which the loop of every connection is
  job,           \* the plan request or confirmation that the loop works on
  mail,          \* the confirmation that the client has sent
  plan,          \* PlanManager.sessions of all connections, by plan
  session,       \* SessionManager's SessionInfo of the project; its field abandoned
                 \* is a ghost: the listener that a connection left without a stop
  listener,      \* SSEEventListener, by plan: its stage, the events that it
                 \* has not handled, the plan whose final content it fetches
  opencode,      \* OpenCode: what its sessions do
  asked,         \* OpenCode: how many questions it has asked
  asking,        \* OpenCode: questions that wait for a reply
  told,          \* the client, by plan: has it heard of it, the revision it
                 \* was told last, the question it was shown last
  failed         \* ghost: plans whose request ended with an error

loopVars == <<loop, job, mail>>
opencodeVars == <<opencode, asked, asking>>
vars == <<loopVars, plan, session, listener, opencodeVars, told, failed>>

Connections == 1 .. MaxConnections
Plans == 1 .. MaxPlans
Questions == Plans \X (1 .. MaxAsked)  \* session and number
None == 0
NoQuestion == <<0, 0>>
Unheard == [heard |-> FALSE, revision |-> 0, question |-> NoQuestion]
NoJob == [plan |-> None, shown |-> Unheard, target |-> NoQuestion]
NoSession == [known |-> FALSE, id |-> None, listener |-> None, pending |-> NoQuestion,
              abandoned |-> None]
NoPlan == [owner |-> None, status |-> "none", revision |-> 0]
Listener(stage) == [stage |-> stage, queue |-> << >>, fetching |-> None]

Active == {"draft", "confirmed", "needs_confirmation"}
Running == {"starting", "on", "fetching"}

\* The active plans of the PlanManager that plan l is in; it may be gone.
ActiveBeside(l) ==
  IF plan[l].status = "dropped" THEN {}
  ELSE {p \in Plans : plan[p].owner = plan[l].owner /\ plan[p].status \in Active}
Earliest(ps) == CHOOSE p \in ps : \A q \in ps : p <= q
Requested == {p \in Plans : plan[p] # NoPlan}
NewPlan == {p \in Plans \ Requested : 1 .. p - 1 \subseteq Requested}
WithinTotal == Cardinality(Requested) + asked < MaxTotal

\* Calls that look the SessionInfo up do nothing when there is none.
\* (Faulty variant: the question is stored all the same.)
SetPendingBlindly(q) == [session EXCEPT !.pending = q]
SetPending(q) == IF session.known THEN [session EXCEPT !.pending = q] ELSE session
UpdateListener(l) == IF session.known THEN [session EXCEPT !.listener = l] ELSE session
AbandonListener ==
  IF session.known THEN [session EXCEPT !.abandoned = session.listener] ELSE session

\* SessionManager.set makes a new SessionInfo, PlanManager.create_session a plan.
NewSession(id) == [NoSession EXCEPT !.known = TRUE, !.id = id]
NewDraft(c) == [owner |-> c, status |-> "draft", revision |-> 0]

\* SSEEventListener.stop: its task is cancelled, wherever it is.
Stopped(l) == IF l = None THEN listener ELSE [listener EXCEPT ![l] = Listener("stopped")]

-----------------------------------------------------------------------------
(* Connecting and disconnecting. *)

\* On connecting, OpenCode's open questions are listed and handled: with the
\* new, empty PlanManager each becomes pending and none reaches the client.
Connect(c) ==
  /\ loop[c] = "closed" /\ loop' = [loop EXCEPT ![c] = "recv"]
  /\ \E q \in asking \cup {session.pending} : session' = SetPending(q)
  /\ UNCHANGED <<job, mail, plan, listener, opencodeVars, told, failed>>

Leave(c) ==
  /\ loop[c] = "recv" /\ loop' = [loop EXCEPT ![c] = "left"]
  /\ mail' = [mail EXCEPT ![c] = NoJob]
  /\ UNCHANGED <<job, plan, session, listener, opencodeVars, told, failed>>

\* The finally of ws_event_loop stops the session's listener, whosever it is, ...
StopListener(c) ==
  /\ loop[c] = "left" /\ loop' = [loop EXCEPT ![c] = "stopping"]
  /\ listener' = Stopped(session.listener)
  /\ UNCHANGED <<job, mail, plan, session, opencodeVars, told, failed>>

\* ... and the connection is over, with its PlanManager.
Drop(ps) ==
  /\ plan' = [p \in Plans |->
                IF p \in ps THEN [plan[p] EXCEPT !.status = "dropped", !.revision = 0] ELSE plan[p]]
  /\ told' = [p \in Plans |-> IF p \in ps THEN Unheard ELSE told[p]]
Close(c) ==
  /\ loop[c] = "stopping" /\ loop' = [loop EXCEPT ![c] = "closed"]
  /\ session' = UpdateListener(None)
  /\ Drop({p \in Plans : plan[p].owner = c})
  /\ UNCHANGED <<job, mail, listener, opencodeVars, failed>>

\* But a pending analysis is cancelled and awaited first.  If that raises anything
\* but CancelledError (its exec or its context failed), the rest is skipped.
CleanupRaises(c) ==
  /\ loop[c] = "left" /\ loop' = [loop EXCEPT ![c] = "closed"]
  /\ session' = AbandonListener
  /\ Drop({p \in Plans : plan[p].owner = c})
  /\ UNCHANGED <<job, mail, listener, opencodeVars, failed>>

\* A response is the last act of a handler.  (If the send raises because the
\* client has gone, the loop ends: Respond and Leave.)
Respond(c) ==
  /\ loop' = [loop EXCEPT ![c] = "recv"]
  /\ job' = [job EXCEPT ![c] = NoJob]
  /\ UNCHANGED mail
\* What the client is told; a message to a client that has gone is lost.
Show(p, r, q) == told' = [told EXCEPT ![p] = [heard |-> TRUE, revision |-> r, question |-> q]]
Tell(p, r) == Show(p, r, NoQuestion)

-----------------------------------------------------------------------------
(* handle_plan_request *)

\* The plan is created and the session's listener is stopped.
\* (Faulty variant: it is not.)
PlanRequestNotStopping(c, p) ==
  /\ loop[c] = "recv" /\ WithinTotal /\ loop' = [loop EXCEPT ![c] = "client"]
  /\ job' = [job EXCEPT ![c] = [NoJob EXCEPT !.plan = p]]
  /\ plan' = [plan EXCEPT ![p] = NewDraft(c)]
  /\ UNCHANGED <<mail, session, listener, opencodeVars, told, failed>>
PlanRequest(c, p) ==
  /\ loop[c] = "recv" /\ WithinTotal /\ loop' = [loop EXCEPT ![c] = "client"]
  /\ job' = [job EXCEPT ![c] = [NoJob EXCEPT !.plan = p]]
  /\ plan' = [plan EXCEPT ![p] = NewDraft(c)]
  /\ listener' = Stopped(session.listener)
  /\ UNCHANGED <<mail, session, opencodeVars, told, failed>>

\* The OpenCode client is there, and a new listener is started.
StartListener(c) ==
  /\ loop[c] = "client" /\ loop' = [loop EXCEPT ![c] = "create"]
  /\ listener' = [listener EXCEPT ![job[c].plan] = Listener("starting")]
  /\ UNCHANGED <<job, mail, plan, session, opencodeVars, told, failed>>

\* OpenCode has created a session, which replaces the SessionInfo.
SessionCreated(c) ==
  /\ loop[c] = "create" /\ loop' = [loop EXCEPT ![c] = "prompt"]
  /\ session' = NewSession(job[c].plan)
  /\ UNCHANGED <<job, mail, plan, listener, opencodeVars, told, failed>>

\* OpenCode has taken a prompt, for the session that was created last.
Prompt ==
  /\ opencode' = [opencode EXCEPT ![session.id] = "busy"]
  /\ UNCHANGED <<job, mail, plan, session, listener, asked, asking, told, failed>>
Prompted(c) ==
  /\ loop[c] = "prompt" /\ loop' = [loop EXCEPT ![c] = "prompted"]
  /\ Prompt

\* The prompt call has returned: the listener becomes the session's.
\* (Faulty variant: it does not.)
PlanResponseForgetting(c) ==
  /\ loop[c] = "prompted" /\ Respond(c)
  /\ plan' = [plan EXCEPT ![job[c].plan].status = "draft"]
  /\ Tell(job[c].plan, 0)
  /\ UNCHANGED <<session, listener, opencodeVars, failed>>
PlanResponse(c) ==
  /\ loop[c] = "prompted" /\ Respond(c)
  /\ session' = UpdateListener(job[c].plan)
  /\ plan' = [plan EXCEPT ![job[c].plan].status = "draft"]
  /\ Tell(job[c].plan, 0)
  /\ UNCHANGED <<listener, opencodeVars, failed>>

\* One of the calls raises: everything done so far stays.
PlanRequestFails(c) ==
  /\ loop[c] \in {"client", "create", "prompt", "prompted"} /\ Respond(c)
  /\ failed' = failed \cup {job[c].plan}
  /\ UNCHANGED <<plan, session, listener, opencodeVars, told>>

-----------------------------------------------------------------------------
(* handle_plan_confirmation *)

\* The client confirms, rejects or continues a plan of this connection, at the
\* revision it was last told.
SendConfirmation(c, p) ==
  /\ loop[c] \notin {"closed", "left", "stopping"} /\ mail[c] = NoJob
  /\ plan[p].owner = c /\ plan[p].status # "dropped"
  /\ told[p].heard /\ told[p].revision <= MaxRevision
  /\ mail' = [mail EXCEPT ![c] = [plan |-> p, shown |-> told[p], target |-> NoQuestion]]
  /\ UNCHANGED <<loop, job, plan, session, listener, opencodeVars, told, failed>>

Receive(c) ==
  /\ loop[c] = "recv" /\ mail[c] # NoJob
  /\ mail' = [mail EXCEPT ![c] = NoJob]
  /\ UNCHANGED <<session, listener, opencodeVars, failed>>

CurrentRevision(c) == plan[mail[c].plan].revision = mail[c].shown.revision

\* A confirmation of another revision is refused, and so is one when there is
\* no SessionInfo to continue.
Refuse(c) ==
  /\ Receive(c)
  /\ ~ CurrentRevision(c) \/ ~ session.known
  /\ UNCHANGED <<loop, job, plan, told>>

\* A client that has rejected a plan is done with it.
Reject(c) ==
  /\ Receive(c) /\ CurrentRevision(c)
  /\ plan' = [plan EXCEPT ![mail[c].plan].status = "rejected"]
  /\ told' = [told EXCEPT ![mail[c].plan] = Unheard]
  /\ UNCHANGED <<loop, job>>

\* The pending question is answered, or without one the plan is continued.
\* (Faulty variant: no check of the revision.)
ProceedUnchecked(c) ==
  /\ Receive(c) /\ session.known
  /\ loop' = [loop EXCEPT ![c] = IF session.pending = NoQuestion THEN "continue" ELSE "answer"]
  /\ job' = [job EXCEPT ![c] = [mail[c] EXCEPT !.target = session.pending]]
  /\ UNCHANGED <<plan, told>>
\* (Faulty variant: the question is cleared before the reply.)
ProceedClearing(c) ==
  /\ loop[c] = "recv" /\ mail[c] # NoJob /\ CurrentRevision(c) /\ session.known
  /\ mail' = [mail EXCEPT ![c] = NoJob]
  /\ loop' = [loop EXCEPT ![c] = IF session.pending = NoQuestion THEN "continue" ELSE "answer"]
  /\ job' = [job EXCEPT ![c] = [mail[c] EXCEPT !.target = session.pending]]
  /\ session' = SetPending(NoQuestion)
  /\ UNCHANGED <<plan, listener, opencodeVars, told, failed>>
Proceed(c) ==
  /\ Receive(c) /\ CurrentRevision(c) /\ session.known
  /\ loop' = [loop EXCEPT ![c] = IF session.pending = NoQuestion THEN "continue" ELSE "answer"]
  /\ job' = [job EXCEPT ![c] = [mail[c] EXCEPT !.target = session.pending]]
  /\ UNCHANGED <<plan, told>>

\* OpenCode has taken the reply.
Replied(c) ==
  /\ loop[c] = "answer" /\ job[c].target \in asking
  /\ loop' = [loop EXCEPT ![c] = "answered"]
  /\ asking' = asking \ {job[c].target}
  /\ UNCHANGED <<job, mail, plan, session, listener, opencode, asked, told, failed>>

\* The reply call has returned: whatever is pending then is cleared.
AnswerEnds(c) ==
  /\ loop[c] = "answered" /\ Respond(c)
  /\ session' = SetPending(NoQuestion)
  /\ plan' = [plan EXCEPT ![job[c].plan].status = "confirmed"]
  /\ Tell(job[c].plan, plan[job[c].plan].revision)
  /\ UNCHANGED <<listener, opencodeVars, failed>>

\* continue_plan_execution: OpenCode has taken the follow-up prompt.
Continued(c) ==
  /\ loop[c] = "continue" /\ loop' = [loop EXCEPT ![c] = "continued"]
  /\ Prompt

\* The prompt call has returned.  The response adds one to a revision that the
\* update before it has raised already.
ContinueEnds(c) ==
  /\ loop[c] = "continued" /\ Respond(c)
  /\ plan' = [plan EXCEPT ![job[c].plan].status = "confirmed",
                          ![job[c].plan].revision = @ + 1]
  /\ Tell(job[c].plan, plan'[job[c].plan].revision + 1)
  /\ UNCHANGED <<session, listener, opencodeVars, failed>>

\* One of the calls raises.
ConfirmationFails(c) ==
  /\ loop[c] \in {"answer", "answered", "continue", "continued"} /\ Respond(c)
  /\ UNCHANGED <<plan, session, listener, opencodeVars, told, failed>>

-----------------------------------------------------------------------------
(* The listener of plan l, with the PlanManager of the connection that made it. *)

Subscribed(l) ==
  /\ listener[l].stage = "starting"
  /\ listener' = [listener EXCEPT ![l].stage = "on"]
  /\ UNCHANGED <<loopVars, plan, session, opencodeVars, told, failed>>

\* The event stream ends or raises; nobody notices.
Dies(l) ==
  /\ listener[l].stage = "on"
  /\ listener' = [listener EXCEPT ![l] = Listener("dead")]
  /\ UNCHANGED <<loopVars, plan, session, opencodeVars, told, failed>>

NextEvent(l, type) ==
  /\ listener[l].stage = "on" /\ listener[l].queue # << >>
  /\ Head(listener[l].queue).type = type

\* handle_opencode_question: the question becomes pending, and the first active
\* plan shows it.
QuestionEvent(l) ==
  LET question == Head(listener[l].queue).question
      p == Earliest(ActiveBeside(l))
  IN /\ NextEvent(l, "question")
     /\ listener' = [listener EXCEPT ![l].queue = Tail(@)]
     /\ session' = SetPending(question)
     /\ IF ActiveBeside(l) = {}
        THEN UNCHANGED <<plan, told>>
        ELSE /\ plan' = [plan EXCEPT ![p].status = "needs_confirmation",
                                     ![p].revision = @ + 1]
             /\ Show(p, plan'[p].revision, question)
     /\ UNCHANGED <<loopVars, opencodeVars, failed>>

\* handle_session_idle: only for the current session; the final content of the
\* first active plan is fetched.
IdleEvent(l) ==
  LET relevant == /\ session.known /\ session.id = Head(listener[l].queue).session
                  /\ ActiveBeside(l) # {}
  IN /\ NextEvent(l, "idle")
     /\ listener' = [listener EXCEPT
          ![l].queue = Tail(@),
          ![l].stage = IF relevant THEN "fetching" ELSE @,
          ![l].fetching = IF relevant THEN Earliest(ActiveBeside(l)) ELSE @]
     /\ UNCHANGED <<loopVars, plan, session, opencodeVars, told, failed>>

FetchReturns(l) ==
  /\ listener[l].stage = "fetching"
  /\ listener' = [listener EXCEPT ![l].stage = "on", ![l].fetching = None]

\* The plan is completed, under a revision that is told but not stored.
Completed(l) ==
  LET p == listener[l].fetching
  IN /\ FetchReturns(l)
     /\ IF plan[p].status = "dropped"
        THEN UNCHANGED <<plan, told>>
        ELSE /\ plan' = [plan EXCEPT ![p].status = "completed"]
             /\ Tell(p, plan[p].revision + 1)
     /\ UNCHANGED <<loopVars, session, opencodeVars, failed>>

FetchFails(l) ==
  /\ FetchReturns(l)
  /\ UNCHANGED <<loopVars, plan, session, opencodeVars, told, failed>>

-----------------------------------------------------------------------------
(* OpenCode *)

Publish(event) ==
  /\ \A l \in Plans : Len(listener[l].queue) < MaxQueue
  /\ listener' = [l \in Plans |->
                   IF listener[l].stage \in {"on", "fetching"}
                   THEN [listener[l] EXCEPT !.queue = Append(@, event)] ELSE listener[l]]

OpenCodeAsks(s) ==
  /\ opencode[s] = "busy" /\ asked < MaxAsked /\ WithinTotal
  /\ asked' = asked + 1
  /\ asking' = asking \cup {<<s, asked'>>}
  /\ Publish([type |-> "question", session |-> s, question |-> <<s, asked'>>])
  /\ UNCHANGED <<loopVars, plan, session, opencode, told, failed>>

OpenCodeIdle(s) ==
  /\ opencode[s] = "busy" /\ \A q \in asking : q[1] # s
  /\ opencode' = [opencode EXCEPT ![s] = "idle"]
  /\ Publish([type |-> "idle", session |-> s, question |-> NoQuestion])
  /\ UNCHANGED <<loopVars, plan, session, asked, asking, told, failed>>

\* The server dies; OpenCode, in another container, does not.
Crash ==
  /\ \E c \in Connections : loop[c] # "closed"
  /\ loop' = [c \in Connections |-> "closed"]
  /\ job' = [c \in Connections |-> NoJob] /\ mail' = job'
  /\ Drop(Requested)
  /\ session' = NoSession
  /\ listener' = [l \in Plans |-> Listener("stopped")]
  /\ UNCHANGED <<opencode, asked, asking, failed>>

-----------------------------------------------------------------------------
Init ==
  /\ loop = [c \in Connections |-> "closed"]
  /\ job = [c \in Connections |-> NoJob] /\ mail = job
  /\ plan = [p \in Plans |-> NoPlan]
  /\ session \in {NoSession, [NoSession EXCEPT !.known = TRUE]}
  /\ listener = [l \in Plans |-> Listener("none")]
  /\ opencode = [s \in Plans |-> "idle"]
  /\ asked = 0 /\ asking = {}
  /\ told = [p \in Plans |-> Unheard]
  /\ failed = {}

LoopStep(c) ==
  \/ Connect(c) \/ Leave(c) \/ StopListener(c) \/ Close(c) \/ CleanupRaises(c)
  \/ \E p \in NewPlan : PlanRequest(c, p)
  \/ StartListener(c) \/ SessionCreated(c) \/ Prompted(c)
  \/ PlanResponse(c) \/ PlanRequestFails(c)
  \/ \E p \in Plans : SendConfirmation(c, p)
  \/ Refuse(c) \/ Reject(c) \/ Proceed(c)
  \/ Replied(c) \/ AnswerEnds(c)
  \/ Continued(c) \/ ContinueEnds(c) \/ ConfirmationFails(c)

ListenerStep(l) ==
  \/ Subscribed(l) \/ Dies(l) \/ QuestionEvent(l) \/ IdleEvent(l)
  \/ Completed(l) \/ FetchFails(l)

OpenCodeStep(s) == OpenCodeAsks(s) \/ OpenCodeIdle(s)

Next ==
  \/ \E c \in Connections : LoopStep(c)
  \/ \E p \in Plans : ListenerStep(p) \/ OpenCodeStep(p)
  \/ Crash

Spec == Init /\ [][Next]_vars

-----------------------------------------------------------------------------
\* The variables have their types.  A project without SessionInfo has no
\* listener and no pending question, and a plan is at a revision only while it
\* is in a PlanManager.
ToldType == [heard : BOOLEAN, revision : Nat, question : Questions \cup {NoQuestion}]
JobType == [plan : Plans \cup {None}, shown : ToldType, target : Questions \cup {NoQuestion}]
EventType == [type : {"question"}, session : Plans, question : Questions]
             \cup [type : {"idle"}, session : Plans, question : {NoQuestion}]
ListenerType == [stage : Running \cup {"none", "dead", "stopped"}, queue : Seq(EventType),
                 fetching : Plans \cup {None}]
TypeOK ==
  /\ loop \in [Connections -> {"closed", "recv", "left", "stopping", "client", "create",
                 "prompt", "prompted", "answer", "answered", "continue", "continued"}]
  /\ job \in [Connections -> JobType] /\ mail \in [Connections -> JobType]
  /\ plan \in [Plans -> [owner : Connections \cup {None}, revision : Nat,
                          status : Active \cup {"none", "completed", "rejected", "dropped"}]]
  /\ \A p \in Plans : plan[p].status \in {"none", "dropped"} => plan[p].revision = 0
  /\ session \in [known : BOOLEAN, id : Plans \cup {None}, listener : Plans \cup {None},
                   pending : Questions \cup {NoQuestion}, abandoned : Plans \cup {None}]
  /\ session.known \/ session = NoSession
  /\ listener \in [Plans -> ListenerType]
  /\ \A l \in Plans :
       /\ (listener[l].stage = "fetching") = (listener[l].fetching # None)
       /\ Len(listener[l].queue) <= MaxQueue
  /\ opencode \in [Plans -> {"idle", "busy"}]
  /\ asked \in 0 .. MaxAsked /\ asking \subseteq Questions
  /\ told \in [Plans -> ToldType]
  /\ failed \subseteq Plans

SameManager(p, q) == plan[p].owner = plan[q].owner /\ plan[q].status # "dropped"
InManager(p) == plan[p].owner # None /\ plan[p].status # "dropped"
Newest(p) == InManager(p) /\ \A q \in Plans : SameManager(p, q) => q <= p
Only(p) == Requested = {p}

\* One listener at a time sends to the client: a running one is that of the
\* newest plan of a connection that is there, whatever was requested, closed or
\* reconnected meanwhile.  Two kinds are excepted.  A request that failed after its
\* listener was started leaves that listener running.  A connection whose clean-up
\* raised leaves its own, but the SessionInfo still holds that one: the next
\* request and the next clean-up stop it.
RunningListenerIsCurrent ==
  \A l \in Plans :
    listener[l].stage \in Running =>
      \/ l \in failed \/ Newest(l)
      \/ l = session.abandoned /\ l = session.listener

\* Between two messages of the client, the newest plan's listener is the one
\* that the SessionInfo holds, so that the next request and the end of the
\* connection can stop it; it is never already stopped.
NewestPlanIsListenedTo ==
  \A p \in Plans :
    Newest(p) /\ p \notin failed /\ loop[plan[p].owner] = "recv" =>
      session.listener = p /\ listener[p].stage \in Running \cup {"dead"}

\* An answer given to a question that the client was shown last is never posted
\* to OpenCode as the answer to another one, although the question answered is
\* looked up in the SessionInfo when the confirmation is handled: the revision
\* tells.  (With one plan: with two, the older one is shown the newer's questions.)
ShownQuestionIsAnswered ==
  \A c \in Connections :
    loop[c] = "answer" /\ Only(job[c].plan) /\ failed = {} =>
      job[c].shown.question \in {job[c].target, NoQuestion}

\* A question that OpenCode waits for is forgotten by the live SessionInfo only
\* when the reply to an earlier question returns late: a refused, failed or
\* continued confirmation and an idle or dying listener leave it pending.
QuestionForgottenOnlyWhenOvertaken ==
  [][ session.pending \in asking' /\ session'.pending = NoQuestion =>
        \/ ~ session'.known \/ session'.id # session.id
        \/ \E c \in Connections : loop[c] = "answered" /\ job[c].target # session.pending ]_vars

\* handle_plan_confirmation checks the revision "to prevent stale updates": a
\* confirmation that answers a question was written by a client that was shown
\* the question.
AnsweredQuestionWasShown ==
  \A c \in Connections :
    loop[c] = "answer" /\ Only(job[c].plan) /\ failed = {} => job[c].shown.question = job[c].target
=============================================================================
