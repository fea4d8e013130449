---------------------------- MODULE PlanFlow_proofs ----------------------------
(***************************************************************************)
(* Proofs about PlanFlow: its types for every number of connections, and,  *)
(* when a project has one connection at a time, that one listener at most  *)
(* runs for the client and that the session's end can stop it.             *)
(***************************************************************************)
EXTENDS PlanFlow, WellFoundedInduction, TLAPS

(***************************************************************************)
(* The earliest of some plans is one of them.                              *)
(***************************************************************************)

LEMMA LessThanRelated ==
  ASSUME NEW p \in Nat, NEW q \in Nat, q < p
  PROVE  <<q, p>> \in OpToRel(<, Nat)
<1> DEFINE pair == <<q, p>>
<1>1. pair \in Nat \X Nat /\ pair[1] < pair[2]
  OBVIOUS
<1>2. pair \in {ss \in Nat \X Nat : ss[1] < ss[2]}
  BY <1>1
<1> QED BY <1>2, Zenon DEF OpToRel

LEMMA EarliestIsOne ==
  ASSUME NEW ps \in SUBSET Nat, ps # {}
  PROVE  Earliest(ps) \in ps
<1> DEFINE R == OpToRel(<, Nat)
<1>1. \A p, q \in Nat : q < p => <<q, p>> \in R
  BY LessThanRelated
<1>2. PICK p \in ps : \A q \in ps : ~ (<<q, p>> \in R)
  BY NatLessThanWellFounded, WFMin, Zenon
<1> HIDE DEF R
<1>3. \A q \in ps : ~ (q < p)
  BY <1>1, <1>2
<1>4. \A q \in ps : p <= q
  BY <1>3
<1> QED BY <1>4, Zenon DEF Earliest

LEMMA EarliestIsActive ==
  ASSUME NEW l \in Plans, BoundsAssumption, ActiveBeside(l) # {}
  PROVE  Earliest(ActiveBeside(l)) \in ActiveBeside(l)
<1>1. ActiveBeside(l) \subseteq Plans
  BY DEF ActiveBeside
<1>2. Plans \subseteq Nat
  BY DEF Plans, BoundsAssumption
<1> QED BY <1>1, <1>2, EarliestIsOne

(***************************************************************************)
(* Types.                                                                  *)
(***************************************************************************)

\* TypeOK by variable.
Stages == {"closed", "recv", "left", "stopping", "client", "create",
           "prompt", "prompted", "answer", "answered", "continue", "continued"}
LoopTyped == loop \in [Connections -> Stages]
JobTyped == job \in [Connections -> JobType]
MailTyped == mail \in [Connections -> JobType]
PlanType == [owner : Connections \cup {None}, revision : Nat,
             status : Active \cup {"none", "completed", "rejected", "dropped"}]
PlanTyped ==
  /\ plan \in [Plans -> PlanType]
  /\ \A p \in Plans : plan[p].status \in {"none", "dropped"} => plan[p].revision = 0
SessionType == [known : BOOLEAN, id : Plans \cup {None}, listener : Plans \cup {None},
                pending : Questions \cup {NoQuestion}, abandoned : Plans \cup {None}]
SessionTyped == session \in SessionType /\ (session.known \/ session = NoSession)
WellFormed(li) ==
  /\ (li.stage = "fetching") = (li.fetching # None)
  /\ Len(li.queue) <= MaxQueue
ListenerTyped ==
  /\ listener \in [Plans -> ListenerType]
  /\ \A l \in Plans : WellFormed(listener[l])
OpenCodeTyped ==
  /\ opencode \in [Plans -> {"idle", "busy"}]
  /\ asked \in 0 .. MaxAsked /\ asking \subseteq Questions
ToldTyped == told \in [Plans -> ToldType]
FailedTyped == failed \subseteq Plans

LEMMA TypesByVariable ==
  TypeOK <=> /\ LoopTyped /\ JobTyped /\ MailTyped /\ PlanTyped /\ SessionTyped
             /\ ListenerTyped /\ OpenCodeTyped /\ ToldTyped /\ FailedTyped
BY Zenon DEF TypeOK, LoopTyped, JobTyped, MailTyped, PlanTyped, SessionTyped, ListenerTyped,
       OpenCodeTyped, ToldTyped, FailedTyped, Stages, PlanType, SessionType, WellFormed

LEMMA TypesByVariableNext ==
  TypeOK' <=> /\ LoopTyped' /\ JobTyped' /\ MailTyped' /\ PlanTyped' /\ SessionTyped'
              /\ ListenerTyped' /\ OpenCodeTyped' /\ ToldTyped' /\ FailedTyped'
BY Zenon DEF TypeOK, LoopTyped, JobTyped, MailTyped, PlanTyped, SessionTyped, ListenerTyped,
       OpenCodeTyped, ToldTyped, FailedTyped, Stages, PlanType, SessionType, WellFormed

LEMMA ConstantsTyped ==
  ASSUME BoundsAssumption
  PROVE  /\ Unheard \in ToldType /\ NoJob \in JobType /\ NoSession \in SessionType
         /\ \A stage \in Running \cup {"none", "dead", "stopped"} :
              stage # "fetching" => Listener(stage) \in ListenerType /\ WellFormed(Listener(stage))
<1> USE DEF Unheard, NoQuestion, None
<1>1. Unheard \in ToldType
  BY DEF ToldType
<1>2. NoJob \in JobType
  BY <1>1 DEF JobType, NoJob
<1>3. NoSession \in SessionType
  BY DEF SessionType, NoSession
<1>4. << >> \in Seq(EventType) /\ Len(<< >>) = 0
  OBVIOUS
<1>5. ASSUME NEW stage \in Running \cup {"none", "dead", "stopped"}, stage # "fetching"
      PROVE  Listener(stage) \in ListenerType /\ WellFormed(Listener(stage))
  BY <1>4, <1>5 DEF ListenerType, Listener, WellFormed, BoundsAssumption
<1> QED BY <1>1, <1>2, <1>3, <1>5

LEMMA InitTyped == BoundsAssumption /\ Init => TypeOK
<1> SUFFICES ASSUME BoundsAssumption, Init PROVE TypeOK
  OBVIOUS
<1> USE ConstantsTyped DEF Init
<1>1. LoopTyped /\ JobTyped /\ MailTyped
  BY DEF LoopTyped, JobTyped, MailTyped, Stages
<1>2. PlanTyped
  BY DEF PlanTyped, PlanType, NoPlan, None, Active
<1>3. SessionTyped
  <2>1. CASE session = NoSession
    BY <2>1 DEF SessionTyped
  <2>2. CASE session = [NoSession EXCEPT !.known = TRUE]
    <3>1. session = [known |-> TRUE, id |-> None, listener |-> None, pending |-> NoQuestion,
                     abandoned |-> None]
      BY <2>2 DEF NoSession
    <3> QED BY <3>1 DEF SessionTyped, SessionType
  <2> QED BY <2>1, <2>2
<1>4. ListenerTyped
  BY DEF ListenerTyped
<1>5. OpenCodeTyped
  BY DEF OpenCodeTyped, BoundsAssumption
<1>6. ToldTyped /\ FailedTyped
  BY DEF ToldTyped, FailedTyped
<1> QED BY <1>1, <1>2, <1>3, <1>4, <1>5, <1>6, TypesByVariable

\* What leaves a variable alone keeps its type; each way to set one keeps it too.
LEMMA UnchangedTyped ==
  ASSUME TypeOK
  PROVE  /\ loop' = loop => LoopTyped'
         /\ job' = job => JobTyped'
         /\ mail' = mail => MailTyped'
         /\ plan' = plan => PlanTyped'
         /\ session' = session => SessionTyped'
         /\ listener' = listener => ListenerTyped'
         /\ opencode' = opencode /\ asked' = asked /\ asking' = asking => OpenCodeTyped'
         /\ told' = told => ToldTyped'
         /\ failed' = failed => FailedTyped'
BY TypesByVariable DEF LoopTyped, JobTyped, MailTyped, PlanTyped, SessionTyped,
       ListenerTyped, OpenCodeTyped, ToldTyped, FailedTyped

LEMMA LoopSet ==
  ASSUME LoopTyped, NEW c \in Connections, NEW stage \in Stages,
         loop' = [loop EXCEPT ![c] = stage]
  PROVE  LoopTyped'
BY DEF LoopTyped

LEMMA JobSet ==
  ASSUME JobTyped, NEW c \in Connections, NEW j \in JobType, job' = [job EXCEPT ![c] = j]
  PROVE  JobTyped'
BY DEF JobTyped

LEMMA MailSet ==
  ASSUME MailTyped, NEW c \in Connections, NEW j \in JobType, mail' = [mail EXCEPT ![c] = j]
  PROVE  MailTyped'
BY DEF MailTyped

LEMMA PlanSet ==
  ASSUME PlanTyped, NEW p, NEW r \in PlanType, r.status \in {"none", "dropped"} => r.revision = 0,
         plan' = [plan EXCEPT ![p] = r]
  PROVE  PlanTyped'
BY DEF PlanTyped

LEMMA PlanStatusSet ==
  ASSUME PlanTyped, NEW p, NEW s \in Active \cup {"completed", "rejected"},
         plan' = [plan EXCEPT ![p].status = s]
  PROVE  PlanTyped'
BY DEF PlanTyped, PlanType, Active

LEMMA PlanRaised ==
  ASSUME PlanTyped, NEW p, NEW s \in Active \cup {"completed", "rejected"},
         plan' = [plan EXCEPT ![p].status = s, ![p].revision = @ + 1]
  PROVE  PlanTyped'
<1> DEFINE r == [[plan[p] EXCEPT !.status = s] EXCEPT !.revision = plan[p].revision + 1]
<1>1. plan' = [plan EXCEPT ![p] = r]
  BY DEF PlanTyped
<1>2. CASE p \in Plans
  <2>1. r \in PlanType /\ r.status = s
    BY <1>2 DEF PlanTyped, PlanType
  <2> HIDE DEF r
  <2> QED BY <1>1, <2>1, PlanSet DEF Active
<1>3. CASE p \notin Plans
  BY <1>3 DEF PlanTyped
<1> QED BY <1>2, <1>3

LEMMA PendingSet ==
  ASSUME SessionTyped, NEW q \in Questions \cup {NoQuestion}, session' = SetPending(q)
  PROVE  SessionTyped'
BY DEF SessionTyped, SessionType, SetPending

LEMMA SessionListenerSet ==
  ASSUME SessionTyped, NEW l \in Plans \cup {None}, session' = UpdateListener(l)
  PROVE  SessionTyped'
BY DEF SessionTyped, SessionType, UpdateListener

LEMMA SessionMade ==
  ASSUME NEW p \in Plans \cup {None}, session' = NewSession(p)
  PROVE  SessionTyped'
<1>1. session' = [known |-> TRUE, id |-> p, listener |-> None, pending |-> NoQuestion,
                  abandoned |-> None]
  BY DEF NewSession, NoSession
<1> QED BY <1>1 DEF SessionTyped, SessionType

LEMMA ListenerSet ==
  ASSUME ListenerTyped, NEW l \in Plans, NEW r \in ListenerType, WellFormed(r),
         listener' = [listener EXCEPT ![l] = r]
  PROVE  ListenerTyped'
<1>1. \A k \in Plans : listener'[k] = IF k = l THEN r ELSE listener[k]
  BY DEF ListenerTyped
<1>2. listener' \in [Plans -> ListenerType]
  BY DEF ListenerTyped
<1>3. \A k \in Plans : WellFormed(listener'[k])
  BY <1>1 DEF ListenerTyped
<1>4. \A k \in Plans : WellFormed(listener[k])'
  BY <1>3 DEF WellFormed
<1> QED BY <1>2, <1>4 DEF ListenerTyped

LEMMA ListenerStopped ==
  ASSUME BoundsAssumption, ListenerTyped, NEW l \in Plans \cup {None}, listener' = Stopped(l)
  PROVE  ListenerTyped'
<1>1. CASE l = None
  BY <1>1 DEF Stopped, ListenerTyped
<1>2. CASE l # None
  <2>1. Listener("stopped") \in ListenerType /\ WellFormed(Listener("stopped"))
    BY ConstantsTyped
  <2> QED BY <1>2, <2>1, ListenerSet DEF Stopped
<1> QED BY <1>1, <1>2

LEMMA ToldSet ==
  ASSUME ToldTyped, NEW p, NEW r, NEW q \in Questions \cup {NoQuestion},
         p \in Plans => r \in Nat, Show(p, r, q)
  PROVE  ToldTyped'
BY DEF ToldTyped, ToldType, Show

LEMMA DropTyped ==
  ASSUME BoundsAssumption, PlanTyped, ToldTyped, NEW ps, Drop(ps)
  PROVE  PlanTyped' /\ ToldTyped'
<1>1. PlanTyped'
  BY DEF PlanTyped, PlanType, Drop
<1>2. ToldTyped'
  BY ConstantsTyped DEF ToldTyped, Drop
<1> QED BY <1>1, <1>2

\* A loop that works on a plan request has the plan.
AtWork ==
  \A c \in Connections :
    loop[c] \in {"client", "create", "prompt", "prompted"} => job[c].plan \in Plans

\* A handler that responds returns the loop to recv, without a job.
LEMMA RespondTyped ==
  ASSUME BoundsAssumption, TypeOK, NEW c \in Connections, Respond(c)
  PROVE  LoopTyped' /\ JobTyped' /\ MailTyped'
<1>1. LoopTyped /\ JobTyped /\ MailTyped
  BY TypesByVariable
<1>2. LoopTyped'
  BY <1>1, LoopSet DEF Respond, Stages
<1>3. JobTyped'
  BY <1>1, JobSet, ConstantsTyped DEF Respond
<1>4. MailTyped'
  BY UnchangedTyped DEF Respond
<1> QED BY <1>2, <1>3, <1>4

LEMMA ConnectionStepTyped ==
  ASSUME BoundsAssumption, TypeOK, NEW c \in Connections,
         Connect(c) \/ Leave(c) \/ StopListener(c) \/ Close(c) \/ CleanupRaises(c)
  PROVE  TypeOK'
<1> USE TypesByVariable, TypesByVariableNext, UnchangedTyped
<1>0. LoopTyped /\ JobTyped /\ MailTyped /\ PlanTyped /\ SessionTyped /\ ListenerTyped
      /\ OpenCodeTyped /\ ToldTyped /\ FailedTyped
  OBVIOUS
<1>1. CASE Connect(c)
  <2>1. LoopTyped'
    BY <1>0, <1>1, LoopSet DEF Connect, Stages
  <2>2. PICK q \in asking \cup {session.pending} : session' = SetPending(q)
    BY <1>1 DEF Connect
  <2>3. q \in Questions \cup {NoQuestion}
    BY <1>0 DEF OpenCodeTyped, SessionTyped, SessionType
  <2>4. SessionTyped'
    BY <1>0, <2>2, <2>3, PendingSet
  <2> QED BY <1>1, <2>1, <2>4 DEF Connect, opencodeVars
<1>2. CASE Leave(c)
  <2>1. LoopTyped'
    BY <1>0, <1>2, LoopSet DEF Leave, Stages
  <2>2. MailTyped'
    BY <1>0, <1>2, MailSet, ConstantsTyped DEF Leave
  <2> QED BY <1>2, <2>1, <2>2 DEF Leave, opencodeVars
<1>3. CASE StopListener(c)
  <2>1. LoopTyped'
    BY <1>0, <1>3, LoopSet DEF StopListener, Stages
  <2>2. session.listener \in Plans \cup {None}
    BY <1>0 DEF SessionTyped, SessionType
  <2>3. ListenerTyped'
    BY <1>0, <1>3, <2>2, ListenerStopped DEF StopListener
  <2> QED BY <1>3, <2>1, <2>3 DEF StopListener, opencodeVars
<1>4. CASE Close(c)
  <2>1. LoopTyped'
    BY <1>0, <1>4, LoopSet DEF Close, Stages
  <2>2. SessionTyped'
    BY <1>0, <1>4, SessionListenerSet DEF Close
  <2>3. PlanTyped' /\ ToldTyped'
    BY <1>0, <1>4, DropTyped DEF Close
  <2> QED BY <1>4, <2>1, <2>2, <2>3 DEF Close, opencodeVars
<1>5. CASE CleanupRaises(c)
  <2>1. LoopTyped'
    BY <1>0, <1>5, LoopSet DEF CleanupRaises, Stages
  <2>2. SessionTyped'
    BY <1>0, <1>5 DEF CleanupRaises, AbandonListener, SessionTyped, SessionType
  <2>3. PlanTyped' /\ ToldTyped'
    BY <1>0, <1>5, DropTyped DEF CleanupRaises
  <2> QED BY <1>5, <2>1, <2>2, <2>3 DEF CleanupRaises, opencodeVars
<1> QED BY <1>1, <1>2, <1>3, <1>4, <1>5

LEMMA RequestStepTyped ==
  ASSUME BoundsAssumption, TypeOK, AtWork, NEW c \in Connections,
         \/ \E p \in NewPlan : PlanRequest(c, p)
         \/ StartListener(c) \/ SessionCreated(c) \/ Prompted(c)
         \/ PlanResponse(c) \/ PlanRequestFails(c)
  PROVE  TypeOK'
<1> USE TypesByVariable, TypesByVariableNext, UnchangedTyped
<1>0. LoopTyped /\ JobTyped /\ MailTyped /\ PlanTyped /\ SessionTyped /\ ListenerTyped
      /\ OpenCodeTyped /\ ToldTyped /\ FailedTyped
  OBVIOUS
<1>a. job[c].plan \in Plans \cup {None}
  BY <1>0 DEF JobTyped, JobType
<1>1. ASSUME NEW p \in NewPlan, PlanRequest(c, p)
      PROVE  TypeOK'
  <2>1. LoopTyped'
    BY <1>0, <1>1, LoopSet DEF PlanRequest, Stages
  <2>2. [NoJob EXCEPT !.plan = p] \in JobType
    BY ConstantsTyped DEF JobType, NewPlan
  <2>3. JobTyped'
    BY <1>0, <1>1, <2>2, JobSet DEF PlanRequest
  <2>4. NewDraft(c) \in PlanType /\ NewDraft(c).revision = 0
    BY DEF PlanType, NewDraft, Active
  <2>5. PlanTyped'
    BY <1>0, <1>1, <2>4, PlanSet DEF PlanRequest
  <2>6. session.listener \in Plans \cup {None}
    BY <1>0 DEF SessionTyped, SessionType
  <2>7. ListenerTyped'
    BY <1>0, <1>1, <2>6, ListenerStopped DEF PlanRequest
  <2> QED BY <1>1, <2>1, <2>3, <2>5, <2>7 DEF PlanRequest, opencodeVars
<1>2. CASE StartListener(c)
  <2>1. LoopTyped'
    BY <1>0, <1>2, LoopSet DEF StartListener, Stages
  <2>2. Listener("starting") \in ListenerType /\ WellFormed(Listener("starting"))
    BY ConstantsTyped DEF Running
  <2>3. ListenerTyped'
    <3>1. CASE job[c].plan \in Plans
      BY <1>0, <1>2, <2>2, <3>1, ListenerSet DEF StartListener
    <3>2. CASE job[c].plan \notin Plans
      <4>1. listener' = listener
        BY <1>0, <1>2, <3>2 DEF StartListener, ListenerTyped
      <4> QED BY <4>1
    <3> QED BY <3>1, <3>2
  <2> QED BY <1>2, <2>1, <2>3 DEF StartListener, opencodeVars
<1>3. CASE SessionCreated(c)
  <2>1. LoopTyped'
    BY <1>0, <1>3, LoopSet DEF SessionCreated, Stages
  <2>2. SessionTyped'
    BY <1>a, <1>3, SessionMade DEF SessionCreated
  <2> QED BY <1>3, <2>1, <2>2 DEF SessionCreated, opencodeVars
<1>4. CASE Prompted(c)
  <2>1. LoopTyped'
    BY <1>0, <1>4, LoopSet DEF Prompted, Stages
  <2>2. OpenCodeTyped'
    BY <1>0, <1>4 DEF Prompted, Prompt, OpenCodeTyped
  <2> QED BY <1>4, <2>1, <2>2 DEF Prompted, Prompt
<1>5. CASE PlanResponse(c)
  <2>1. LoopTyped' /\ JobTyped' /\ MailTyped'
    BY <1>5, RespondTyped DEF PlanResponse
  <2>2. SessionTyped'
    BY <1>0, <1>a, <1>5, SessionListenerSet DEF PlanResponse
  <2>3. PlanTyped'
    BY <1>0, <1>5, PlanStatusSet DEF PlanResponse, Active
  <2>4. ToldTyped'
    BY <1>0, <1>5, ToldSet DEF PlanResponse, Tell
  <2> QED BY <1>5, <2>1, <2>2, <2>3, <2>4 DEF PlanResponse, opencodeVars
<1>6. CASE PlanRequestFails(c)
  <2>1. LoopTyped' /\ JobTyped' /\ MailTyped'
    BY <1>6, RespondTyped DEF PlanRequestFails
  <2>2. FailedTyped'
    BY <1>0, <1>6 DEF PlanRequestFails, AtWork, FailedTyped
  <2> QED BY <1>6, <2>1, <2>2 DEF PlanRequestFails, opencodeVars
<1> QED BY <1>1, <1>2, <1>3, <1>4, <1>5, <1>6

LEMMA ConfirmationStepTyped ==
  ASSUME BoundsAssumption, TypeOK, NEW c \in Connections,
         \/ \E p \in Plans : SendConfirmation(c, p)
         \/ Refuse(c) \/ Reject(c) \/ Proceed(c)
         \/ Replied(c) \/ AnswerEnds(c)
         \/ Continued(c) \/ ContinueEnds(c) \/ ConfirmationFails(c)
  PROVE  TypeOK'
<1> USE TypesByVariable, TypesByVariableNext, UnchangedTyped
<1>0. LoopTyped /\ JobTyped /\ MailTyped /\ PlanTyped /\ SessionTyped /\ ListenerTyped
      /\ OpenCodeTyped /\ ToldTyped /\ FailedTyped
  OBVIOUS
<1>a. ASSUME Receive(c)
      PROVE  /\ MailTyped' /\ SessionTyped' /\ ListenerTyped' /\ OpenCodeTyped' /\ FailedTyped'
             /\ mail[c] \in JobType
  <2>1. MailTyped'
    BY <1>0, <1>a, MailSet, ConstantsTyped DEF Receive
  <2>2. mail[c] \in JobType
    BY <1>0 DEF MailTyped
  <2> QED BY <1>a, <2>1, <2>2 DEF Receive, opencodeVars
<1>1. ASSUME NEW p \in Plans, SendConfirmation(c, p)
      PROVE  TypeOK'
  <2>1. [plan |-> p, shown |-> told[p], target |-> NoQuestion] \in JobType
    BY <1>0 DEF JobType, ToldTyped
  <2>2. MailTyped'
    BY <1>0, <1>1, <2>1, MailSet DEF SendConfirmation
  <2> QED BY <1>1, <2>2 DEF SendConfirmation, opencodeVars
<1>2. CASE Refuse(c)
  BY <1>a, <1>2 DEF Refuse
<1>3. CASE Reject(c)
  <2>1. PlanTyped'
    BY <1>0, <1>3, PlanStatusSet DEF Reject
  <2>2. ToldTyped'
    BY <1>0, <1>3, ConstantsTyped DEF Reject, ToldTyped
  <2> QED BY <1>a, <1>3, <2>1, <2>2 DEF Reject
<1>4. CASE Proceed(c)
  <2>1. MailTyped' /\ SessionTyped' /\ ListenerTyped' /\ OpenCodeTyped' /\ FailedTyped'
        /\ mail[c] \in JobType
    BY <1>a, <1>4 DEF Proceed
  <2>2. (IF session.pending = NoQuestion THEN "continue" ELSE "answer") \in Stages
    BY DEF Stages
  <2>3. LoopTyped'
    BY <1>0, <1>4, <2>2, LoopSet DEF Proceed
  <2>4. [mail[c] EXCEPT !.target = session.pending] \in JobType
    BY <1>0, <2>1 DEF JobType, SessionTyped, SessionType
  <2>5. JobTyped'
    BY <1>0, <1>4, <2>4, JobSet DEF Proceed
  <2> QED BY <1>4, <2>1, <2>3, <2>5 DEF Proceed
<1>5. CASE Replied(c)
  <2>1. LoopTyped'
    BY <1>0, <1>5, LoopSet DEF Replied, Stages
  <2>2. OpenCodeTyped'
    BY <1>0, <1>5 DEF Replied, OpenCodeTyped
  <2> QED BY <1>5, <2>1, <2>2 DEF Replied
<1>b. job[c].plan \in Plans => plan[job[c].plan].revision \in Nat
  BY <1>0 DEF PlanTyped, PlanType
<1>6. CASE AnswerEnds(c)
  <2>1. LoopTyped' /\ JobTyped' /\ MailTyped'
    BY <1>6, RespondTyped DEF AnswerEnds
  <2>2. SessionTyped'
    BY <1>0, <1>6, PendingSet DEF AnswerEnds
  <2>3. PlanTyped'
    BY <1>0, <1>6, PlanStatusSet DEF AnswerEnds, Active
  <2>4. ToldTyped'
    BY <1>0, <1>6, <1>b, ToldSet DEF AnswerEnds, Tell
  <2> QED BY <1>6, <2>1, <2>2, <2>3, <2>4 DEF AnswerEnds, opencodeVars
<1>7. CASE Continued(c)
  <2>1. LoopTyped'
    BY <1>0, <1>7, LoopSet DEF Continued, Stages
  <2>2. OpenCodeTyped'
    BY <1>0, <1>7 DEF Continued, Prompt, OpenCodeTyped
  <2> QED BY <1>7, <2>1, <2>2 DEF Continued, Prompt
<1>8. CASE ContinueEnds(c)
  <2>1. LoopTyped' /\ JobTyped' /\ MailTyped'
    BY <1>8, RespondTyped DEF ContinueEnds
  <2>2. PlanTyped'
    BY <1>0, <1>8, PlanRaised DEF ContinueEnds, Active
  <2>3. job[c].plan \in Plans => plan'[job[c].plan].revision + 1 \in Nat
    BY <2>2 DEF PlanTyped, PlanType
  <2>4. ToldTyped'
    BY <1>0, <1>8, <2>3, ToldSet DEF ContinueEnds, Tell
  <2> QED BY <1>8, <2>1, <2>2, <2>4 DEF ContinueEnds, opencodeVars
<1>9. CASE ConfirmationFails(c)
  <2>1. LoopTyped' /\ JobTyped' /\ MailTyped'
    BY <1>9, RespondTyped DEF ConfirmationFails
  <2> QED BY <1>9, <2>1 DEF ConfirmationFails, opencodeVars
<1> QED BY <1>1, <1>2, <1>3, <1>4, <1>5, <1>6, <1>7, <1>8, <1>9

LEMMA ListenerStepTyped ==
  ASSUME BoundsAssumption, TypeOK, NEW l \in Plans, ListenerStep(l)
  PROVE  TypeOK'
<1> USE TypesByVariable, TypesByVariableNext, UnchangedTyped
<1>0. LoopTyped /\ JobTyped /\ MailTyped /\ PlanTyped /\ SessionTyped /\ ListenerTyped
      /\ OpenCodeTyped /\ ToldTyped /\ FailedTyped
  OBVIOUS
<1>a. listener[l] \in ListenerType /\ WellFormed(listener[l])
  BY <1>0 DEF ListenerTyped
<1>1. CASE Subscribed(l)
  <2>1. [listener[l] EXCEPT !.stage = "on"] \in ListenerType
        /\ WellFormed([listener[l] EXCEPT !.stage = "on"])
    BY <1>a, <1>1 DEF Subscribed, ListenerType, WellFormed, Running
  <2>2. ListenerTyped'
    BY <1>0, <1>1, <2>1, ListenerSet DEF Subscribed
  <2> QED BY <1>1, <2>2 DEF Subscribed, loopVars, opencodeVars
<1>2. CASE Dies(l)
  <2>1. Listener("dead") \in ListenerType /\ WellFormed(Listener("dead"))
    BY ConstantsTyped
  <2>2. ListenerTyped'
    BY <1>0, <1>2, <2>1, ListenerSet DEF Dies
  <2> QED BY <1>2, <2>2 DEF Dies, loopVars, opencodeVars
<1>b. ASSUME listener[l].queue # << >>
      PROVE  /\ Head(listener[l].queue) \in EventType
             /\ Tail(listener[l].queue) \in Seq(EventType)
             /\ Len(Tail(listener[l].queue)) <= MaxQueue
  BY <1>a, <1>b DEF ListenerType, WellFormed, BoundsAssumption
<1>3. CASE QuestionEvent(l)
  <2> DEFINE question == Head(listener[l].queue).question
             p == Earliest(ActiveBeside(l))
             r == [listener[l] EXCEPT !.queue = Tail(listener[l].queue)]
  <2>1. question \in Questions \cup {NoQuestion}
    BY <1>b, <1>3 DEF QuestionEvent, NextEvent, EventType
  <2>2. r \in ListenerType /\ WellFormed(r)
    BY <1>a, <1>b, <1>3 DEF QuestionEvent, NextEvent, ListenerType, WellFormed
  <2>3. listener' = [listener EXCEPT ![l] = r]
    BY <1>3 DEF QuestionEvent
  <2> HIDE DEF r
  <2>4. ListenerTyped'
    BY <1>0, <2>2, <2>3, ListenerSet
  <2>5. session' = SetPending(question)
    BY <1>3 DEF QuestionEvent
  <2> HIDE DEF question
  <2>6. SessionTyped'
    BY <1>0, <2>1, <2>5, PendingSet
  <2>7. CASE ActiveBeside(l) = {}
    BY <1>3, <2>4, <2>6, <2>7 DEF QuestionEvent, loopVars, opencodeVars
  <2>8. CASE ActiveBeside(l) # {}
    <3>1. plan' = [plan EXCEPT ![p].status = "needs_confirmation", ![p].revision = @ + 1]
          /\ Show(p, plan'[p].revision, question)
      BY <1>3, <2>8 DEF QuestionEvent, question
    <3> HIDE DEF p
    <3>2. PlanTyped'
      BY <1>0, <3>1, PlanRaised DEF Active
    <3>3. p \in Plans => plan'[p].revision \in Nat
      BY <3>2 DEF PlanTyped, PlanType
    <3>4. ToldTyped'
      BY <1>0, <2>1, <3>1, <3>3, ToldSet
    <3> QED BY <1>3, <2>4, <2>6, <3>2, <3>4 DEF QuestionEvent, loopVars, opencodeVars
  <2> QED BY <2>7, <2>8
<1>4. CASE IdleEvent(l)
  <2> DEFINE relevant == /\ session.known /\ session.id = Head(listener[l].queue).session
                         /\ ActiveBeside(l) # {}
             first == Earliest(ActiveBeside(l))
             r == [listener[l] EXCEPT
                     !.queue = Tail(listener[l].queue),
                     !.stage = IF relevant THEN "fetching" ELSE listener[l].stage,
                     !.fetching = IF relevant THEN first ELSE listener[l].fetching]
  <2>1. listener' = [listener EXCEPT ![l] = r]
    BY <1>0, <1>4 DEF IdleEvent, ListenerTyped
  <2>2. relevant => first \in Plans
    BY EarliestIsActive DEF ActiveBeside
  <2>3. 0 \notin Plans
    BY DEF Plans, BoundsAssumption
  <2> HIDE DEF relevant, first
  <2>4. listener[l].stage = "on" /\ listener[l].queue # << >>
    BY <1>4 DEF IdleEvent, NextEvent
  <2>5. r \in ListenerType /\ WellFormed(r)
    BY <1>a, <1>b, <2>2, <2>3, <2>4 DEF ListenerType, WellFormed, Running, None
  <2> HIDE DEF r
  <2>6. ListenerTyped'
    BY <1>0, <2>1, <2>5, ListenerSet
  <2> QED BY <1>4, <2>6 DEF IdleEvent, loopVars, opencodeVars
<1>c. ASSUME FetchReturns(l)
      PROVE  ListenerTyped'
  <2> DEFINE r == [listener[l] EXCEPT !.stage = "on", !.fetching = None]
  <2>1. listener' = [listener EXCEPT ![l] = r]
    BY <1>0, <1>c DEF FetchReturns, ListenerTyped
  <2>2. r \in ListenerType /\ WellFormed(r)
    BY <1>a DEF ListenerType, WellFormed, Running
  <2> HIDE DEF r
  <2> QED BY <1>0, <2>1, <2>2, ListenerSet
<1>5. CASE Completed(l)
  <2> DEFINE p == listener[l].fetching
  <2>1. CASE plan[p].status = "dropped"
    BY <1>c, <1>5, <2>1 DEF Completed, loopVars, opencodeVars
  <2>2. CASE plan[p].status # "dropped"
    <3>1. plan' = [plan EXCEPT ![p].status = "completed"] /\ Tell(p, plan[p].revision + 1)
      BY <1>5, <2>2 DEF Completed
    <3> HIDE DEF p
    <3>2. PlanTyped'
      BY <1>0, <3>1, PlanStatusSet
    <3>3. p \in Plans => plan[p].revision + 1 \in Nat
      BY <1>0 DEF PlanTyped, PlanType
    <3>4. ToldTyped'
      BY <1>0, <3>1, <3>3, ToldSet DEF Tell
    <3> QED BY <1>c, <1>5, <3>2, <3>4 DEF Completed, loopVars, opencodeVars
  <2> QED BY <2>1, <2>2
<1>6. CASE FetchFails(l)
  BY <1>c, <1>6 DEF FetchFails, loopVars, opencodeVars
<1> QED BY <1>1, <1>2, <1>3, <1>4, <1>5, <1>6 DEF ListenerStep

LEMMA Published ==
  ASSUME BoundsAssumption, ListenerTyped, NEW event \in EventType, Publish(event)
  PROVE  ListenerTyped'
<1> DEFINE r(l) == IF listener[l].stage \in {"on", "fetching"}
                   THEN [listener[l] EXCEPT !.queue = Append(listener[l].queue, event)]
                   ELSE listener[l]
<1>1. ASSUME NEW l \in Plans
      PROVE  r(l) \in ListenerType /\ WellFormed(r(l))
  <2>1. listener[l] \in ListenerType /\ WellFormed(listener[l])
        /\ Len(listener[l].queue) < MaxQueue
    BY DEF ListenerTyped, Publish
  <2>2. listener[l].queue \in Seq(EventType)
    BY <2>1 DEF ListenerType
  <2>3. Append(listener[l].queue, event) \in Seq(EventType)
        /\ Len(Append(listener[l].queue, event)) = Len(listener[l].queue) + 1
        /\ Len(listener[l].queue) \in Nat
    BY <2>2
  <2>4. Len(Append(listener[l].queue, event)) <= MaxQueue
    BY <2>1, <2>3 DEF BoundsAssumption
  <2> QED BY <2>1, <2>3, <2>4 DEF ListenerType, WellFormed
<1>2. listener' = [l \in Plans |-> r(l)]
  BY DEF Publish
<1> HIDE DEF r
<1>3. listener' \in [Plans -> ListenerType] /\ \A l \in Plans : listener'[l] = r(l)
  BY <1>1, <1>2
<1>4. \A l \in Plans : WellFormed(listener'[l])
  BY <1>1, <1>3
<1>5. \A l \in Plans : WellFormed(listener[l])'
  BY <1>4 DEF WellFormed
<1> QED BY <1>3, <1>5 DEF ListenerTyped

LEMMA OpenCodeStepTyped ==
  ASSUME BoundsAssumption, TypeOK, NEW s \in Plans, OpenCodeStep(s)
  PROVE  TypeOK'
<1> USE TypesByVariable, TypesByVariableNext, UnchangedTyped
<1>0. LoopTyped /\ JobTyped /\ MailTyped /\ PlanTyped /\ SessionTyped /\ ListenerTyped
      /\ OpenCodeTyped /\ ToldTyped /\ FailedTyped
  OBVIOUS
<1>1. CASE OpenCodeAsks(s)
  <2>1. <<s, asked'>> \in Questions
    BY <1>0, <1>1 DEF OpenCodeAsks, OpenCodeTyped, Questions, BoundsAssumption
  <2> DEFINE event == [type |-> "question", session |-> s, question |-> <<s, asked'>>]
  <2>2. event \in EventType
    BY <2>1 DEF EventType
  <2>3. Publish(event)
    BY <1>1 DEF OpenCodeAsks
  <2> HIDE DEF event
  <2>4. ListenerTyped'
    BY <1>0, <2>2, <2>3, Published
  <2>5. OpenCodeTyped'
    BY <1>0, <1>1, <2>1 DEF OpenCodeAsks, OpenCodeTyped, BoundsAssumption
  <2> QED BY <1>1, <2>4, <2>5 DEF OpenCodeAsks, loopVars
<1>2. CASE OpenCodeIdle(s)
  <2> DEFINE event == [type |-> "idle", session |-> s, question |-> NoQuestion]
  <2>2. event \in EventType
    BY DEF EventType
  <2>3. Publish(event)
    BY <1>2 DEF OpenCodeIdle
  <2> HIDE DEF event
  <2>4. ListenerTyped'
    BY <1>0, <2>2, <2>3, Published
  <2>5. OpenCodeTyped'
    BY <1>0, <1>2 DEF OpenCodeIdle, OpenCodeTyped
  <2> QED BY <1>2, <2>4, <2>5 DEF OpenCodeIdle, loopVars
<1> QED BY <1>1, <1>2 DEF OpenCodeStep

LEMMA CrashTyped ==
  ASSUME BoundsAssumption, TypeOK, Crash
  PROVE  TypeOK'
<1> USE TypesByVariable, TypesByVariableNext, UnchangedTyped, ConstantsTyped
<1>0. PlanTyped /\ ToldTyped
  OBVIOUS
<1>1. LoopTyped' /\ JobTyped' /\ MailTyped'
  BY DEF Crash, LoopTyped, JobTyped, MailTyped, Stages
<1>2. PlanTyped' /\ ToldTyped'
  BY <1>0, DropTyped DEF Crash
<1>3. SessionTyped'
  BY DEF Crash, SessionTyped
<1>4. ListenerTyped'
  <2>1. Listener("stopped") \in ListenerType /\ WellFormed(Listener("stopped"))
    OBVIOUS
  <2>2. listener' \in [Plans -> ListenerType] /\ \A l \in Plans : WellFormed(listener'[l])
    BY <2>1 DEF Crash
  <2>3. \A l \in Plans : WellFormed(listener[l])'
    BY <2>2 DEF WellFormed
  <2> QED BY <2>2, <2>3 DEF ListenerTyped
<1> QED BY <1>1, <1>2, <1>3, <1>4 DEF Crash

LEMMA AtWorkKept ==
  ASSUME BoundsAssumption, TypeOK, AtWork, [Next]_vars
  PROVE  AtWork'
<1>0. loop \in [Connections -> Stages] /\ job \in [Connections -> JobType]
  BY TypesByVariable DEF LoopTyped, JobTyped
<1>1. ASSUME UNCHANGED <<loop, job>>
      PROVE  AtWork'
  BY <1>1 DEF AtWork
<1>2. ASSUME NEW c \in Connections, NEW stage, loop' = [loop EXCEPT ![c] = stage],
             \/ stage \notin {"client", "create", "prompt", "prompted"}
             \/ job'[c].plan \in Plans,
             \A d \in Connections \ {c} : job'[d] = job[d]
      PROVE  AtWork'
  BY <1>0, <1>2 DEF AtWork
<1>3. ASSUME NEW c \in Connections, LoopStep(c)
      PROVE  AtWork'
  <2>1. ASSUME NEW p \in NewPlan, PlanRequest(c, p)
        PROVE  AtWork'
    <3>1. job' = [job EXCEPT ![c] = [NoJob EXCEPT !.plan = p]]
          /\ loop' = [loop EXCEPT ![c] = "client"]
      BY <2>1 DEF PlanRequest
    <3>2. job'[c].plan \in Plans
      BY <1>0, <3>1 DEF NewPlan, NoJob
    <3> QED BY <1>0, <1>2, <3>1, <3>2
  <2>2. CASE StartListener(c) \/ SessionCreated(c) \/ Prompted(c)
    <3>1. job' = job /\ \E stage : loop' = [loop EXCEPT ![c] = stage]
      BY <2>2 DEF StartListener, SessionCreated, Prompted, Prompt
    <3>2. loop[c] \in {"client", "create", "prompt"}
      BY <2>2 DEF StartListener, SessionCreated, Prompted
    <3> QED BY <1>2, <3>1, <3>2 DEF AtWork
  <2>3. CASE Connect(c) \/ Leave(c) \/ StopListener(c) \/ Close(c) \/ CleanupRaises(c)
    <3>1. job' = job /\ \E stage \in {"recv", "left", "stopping", "closed"} :
                          loop' = [loop EXCEPT ![c] = stage]
      BY <2>3 DEF Connect, Leave, StopListener, Close, CleanupRaises
    <3> QED BY <1>2, <3>1
  <2>4. CASE PlanResponse(c) \/ PlanRequestFails(c) \/ AnswerEnds(c) \/ ContinueEnds(c)
             \/ ConfirmationFails(c)
    <3>1. Respond(c)
      BY <2>4 DEF PlanResponse, PlanRequestFails, AnswerEnds, ContinueEnds, ConfirmationFails
    <3> QED BY <1>0, <1>2, <3>1 DEF Respond
  <2>5. CASE (\E p \in Plans : SendConfirmation(c, p)) \/ Refuse(c) \/ Reject(c)
    <3>1. UNCHANGED <<loop, job>>
      BY <2>5 DEF SendConfirmation, Refuse, Reject
    <3> QED BY <1>1, <3>1
  <2>6. CASE Proceed(c)
    <3>1. job' = [job EXCEPT ![c] = [mail[c] EXCEPT !.target = session.pending]]
          /\ \E stage \in {"continue", "answer"} : loop' = [loop EXCEPT ![c] = stage]
      BY <2>6 DEF Proceed
    <3> QED BY <1>0, <1>2, <3>1
  <2>7. CASE Replied(c) \/ Continued(c)
    <3>1. job' = job /\ \E stage \in {"answered", "continued"} :
                          loop' = [loop EXCEPT ![c] = stage]
      BY <2>7 DEF Replied, Continued, Prompt
    <3> QED BY <1>2, <3>1
  <2> QED BY <1>3, <2>1, <2>2, <2>3, <2>4, <2>5, <2>6, <2>7 DEF LoopStep
<1>4. ASSUME NEW l \in Plans, ListenerStep(l)
      PROVE  UNCHANGED <<loop, job>>
  BY <1>4 DEF ListenerStep, Subscribed, Dies, QuestionEvent, IdleEvent, Completed, FetchFails,
              loopVars
<1>5. ASSUME NEW s \in Plans, OpenCodeStep(s)
      PROVE  UNCHANGED <<loop, job>>
  BY <1>5 DEF OpenCodeStep, OpenCodeAsks, OpenCodeIdle, loopVars
<1>6. CASE Crash
  BY <1>6 DEF Crash, AtWork
<1>7. CASE UNCHANGED vars
  BY <1>1, <1>7 DEF vars, loopVars
<1> QED BY <1>1, <1>3, <1>4, <1>5, <1>6, <1>7 DEF Next

\* Whatever is requested, confirmed, lost or restarted, on any number of
\* connections: the handlers of ws_proxy.py keep the variables' types, a listener
\* fetches a plan exactly while it is at that await, and a project without
\* SessionInfo has neither a listener nor a pending question.
THEOREM TypeCorrect == Spec => []TypeOK
<1> USE BoundsAssumption
<1>1. Init => TypeOK /\ AtWork
  BY InitTyped DEF Init, AtWork
<1>2. TypeOK /\ AtWork /\ [Next]_vars => TypeOK' /\ AtWork'
  <2> SUFFICES ASSUME TypeOK, AtWork, [Next]_vars PROVE TypeOK' /\ AtWork'
    OBVIOUS
  <2>1. ASSUME NEW c \in Connections, LoopStep(c)
        PROVE  TypeOK'
    BY <2>1, ConnectionStepTyped, RequestStepTyped, ConfirmationStepTyped, Zenon DEF LoopStep
  <2>2. ASSUME NEW p \in Plans, ListenerStep(p) \/ OpenCodeStep(p)
        PROVE  TypeOK'
    BY <2>2, ListenerStepTyped, OpenCodeStepTyped
  <2>3. ASSUME UNCHANGED vars PROVE TypeOK'
    <3>1. /\ loop' = loop /\ job' = job /\ mail' = mail /\ plan' = plan /\ session' = session
          /\ listener' = listener /\ told' = told /\ failed' = failed
          /\ opencode' = opencode /\ asked' = asked /\ asking' = asking
      BY <2>3 DEF vars, loopVars, opencodeVars
    <3>2. /\ LoopTyped' /\ JobTyped' /\ MailTyped' /\ PlanTyped' /\ SessionTyped'
          /\ ListenerTyped' /\ OpenCodeTyped' /\ ToldTyped' /\ FailedTyped'
      BY <3>1, UnchangedTyped
    <3> QED BY <3>2, TypesByVariableNext
  <2>4. TypeOK'
    BY <2>1, <2>2, <2>3, CrashTyped DEF Next
  <2> QED BY <2>4, AtWorkKept
<1> QED BY <1>1, <1>2, PTL DEF Spec

(***************************************************************************)
(* One connection at a time: the inductive invariant.                      *)
(***************************************************************************)

\* The user has one WebSocket open to the project at a time.
OneConnection == MaxConnections = 1

Handling == {"answer", "answered", "continue", "continued"}
Working == {"client", "create", "prompt", "prompted"}

\* Plans are requested in the order of their numbers, and have an owner from then on.
Requests ==
  \A p \in Plans :
    /\ plan[p].owner = None <=> plan[p] = NoPlan
    /\ plan[p].owner # None => \A q \in 1 .. p - 1 : plan[q].owner # None

\* The loop works on plans of its PlanManager only, and on a request for the newest one.
Jobs ==
  \A c \in Connections :
    /\ loop[c] \in {"recv", "left", "stopping", "closed"} => job[c].plan = None
    /\ loop[c] \in {"left", "stopping", "closed"} => mail[c].plan = None
    /\ \A p \in Plans : p \in {job[c].plan, mail[c].plan} => InManager(p)
    /\ loop[c] \in Working => job[c].plan \in Plans /\ Newest(job[c].plan)
    /\ loop[c] = "closed" => \A p \in Plans : ~ InManager(p)

\* A request that has started its listener is the one it is for; one that has a
\* session can give the listener to it.
Begun ==
  \A c \in Connections :
    /\ loop[c] \in {"prompt", "prompted"} => session.known
    /\ loop[c] \in Working \ {"client"} =>
         listener[job[c].plan].stage \in Running \cup {"dead"}

\* From one request to the next, the SessionInfo holds the newest plan's listener.
Held ==
  \A c \in Connections, p \in Plans :
    loop[c] \in Handling \cup {"recv", "left"} /\ Newest(p) /\ p \notin failed =>
      session.listener = p /\ listener[p].stage \in Running \cup {"dead"}

\* Once the SessionInfo's listener is stopped none runs, and from then on that of
\* the request alone.
Quiet ==
  \A c \in Connections, l \in Plans :
    listener[l].stage \in Running =>
      /\ loop[c] \in {"client", "stopping"} => l \in failed
      /\ loop[c] \in Working => l \in failed \/ Newest(l)

\* A listener fetches a plan that was requested.
Fetches ==
  \A l \in Plans : listener[l].fetching # None => plan[listener[l].fetching].owner # None

IInv == /\ TypeOK /\ Requests /\ Jobs /\ Begun /\ Held /\ Quiet /\ Fetches
        /\ RunningListenerIsCurrent

LEMMA TypesUnfolded ==
  ASSUME TypeOK
  PROVE  /\ loop \in [Connections -> Stages]
         /\ job \in [Connections -> JobType] /\ mail \in [Connections -> JobType]
         /\ plan \in [Plans -> PlanType] /\ session \in SessionType
         /\ listener \in [Plans -> ListenerType]
         /\ session.listener \in Plans \cup {None}
         /\ \A c \in Connections : job[c].plan \in Plans \cup {None}
                                   /\ mail[c].plan \in Plans \cup {None}
         /\ \A l \in Plans : listener[l].fetching \in Plans \cup {None}
<1>1. /\ loop \in [Connections -> Stages]
      /\ job \in [Connections -> JobType] /\ mail \in [Connections -> JobType]
      /\ plan \in [Plans -> PlanType] /\ session \in SessionType
      /\ listener \in [Plans -> ListenerType]
  BY TypesByVariable
     DEF LoopTyped, JobTyped, MailTyped, PlanTyped, SessionTyped, ListenerTyped
<1> QED BY <1>1 DEF JobType, SessionType, ListenerType

LEMMA OneOwner ==
  ASSUME OneConnection, TypeOK
  PROVE  /\ Connections = {1}
         /\ \A p \in Plans : plan[p].owner \in {1, None}
         /\ \A p \in Plans : Newest(p) <=> InManager(p) /\ \A q \in Plans : InManager(q) => q <= p
<1>1. Connections = {1}
  BY DEF Connections, OneConnection
<1>2. \A p \in Plans : plan[p].owner \in {1, None}
  BY <1>1, TypesUnfolded DEF PlanType
<1>3. \A p \in Plans : Newest(p) <=> InManager(p) /\ \A q \in Plans : InManager(q) => q <= p
  BY <1>2 DEF Newest, InManager, SameManager, None
<1> QED BY <1>1, <1>2, <1>3

LEMMA NewestIsOne ==
  ASSUME OneConnection, BoundsAssumption, TypeOK,
         NEW p \in Plans, NEW q \in Plans, Newest(p), Newest(q)
  PROVE  p = q
<1>1. InManager(p) /\ InManager(q) /\ p <= q /\ q <= p
  BY OneOwner
<1> QED BY <1>1 DEF Plans, BoundsAssumption

\* Most steps keep every plan in its PlanManager.
KeepsManagers ==
  \A p \in Plans :
    \/ plan'[p] = plan[p]
    \/ InManager(p) /\ plan'[p].owner = plan[p].owner /\ plan'[p].status # "dropped"

LEMMA ManagersKept ==
  ASSUME KeepsManagers
  PROVE  \A p \in Plans : /\ plan'[p].owner = plan[p].owner
                          /\ InManager(p)' <=> InManager(p)
                          /\ Newest(p)' <=> Newest(p)
<1>1. \A p \in Plans : /\ plan'[p].owner = plan[p].owner
                       /\ plan'[p].status = "dropped" <=> plan[p].status = "dropped"
  BY DEF KeepsManagers, InManager
<1>2. \A p \in Plans : InManager(p)' <=> InManager(p)
  BY <1>1 DEF InManager
<1>3. \A p, q \in Plans : SameManager(p, q)' <=> SameManager(p, q)
  BY <1>1 DEF SameManager
<1>4. ASSUME NEW p \in Plans
      PROVE  Newest(p)' <=> Newest(p)
  BY <1>2, <1>3 DEF Newest
<1> QED BY <1>1, <1>2, <1>4

LEMMA RequestsKept ==
  ASSUME BoundsAssumption, Requests, KeepsManagers
  PROVE  Requests'
<1>1. \A p \in Plans : plan'[p].owner = plan[p].owner
  BY ManagersKept
<1>2. ASSUME NEW p \in Plans
      PROVE  plan'[p].owner = None <=> plan'[p] = NoPlan
  <2>1. CASE plan'[p] = plan[p]
    BY <2>1 DEF Requests
  <2>2. CASE InManager(p)
    BY <1>1, <2>2 DEF InManager, NoPlan
  <2> QED BY <2>1, <2>2 DEF KeepsManagers
<1>3. ASSUME NEW p \in Plans, plan'[p].owner # None, NEW q \in 1 .. p - 1
      PROVE  plan'[q].owner # None
  <2>1. q \in Plans
    BY DEF Plans, BoundsAssumption
  <2>2. plan[q].owner # None
    BY <1>1, <1>3 DEF Requests
  <2> QED BY <1>1, <2>1, <2>2
<1> QED BY <1>2, <1>3 DEF Requests

\* A step beside the requests and the ends of connections: no listener is
\* started or stopped, and the SessionInfo keeps its own.
SideStep ==
  /\ KeepsManagers
  /\ failed' = failed
  /\ session'.known = session.known /\ session'.listener = session.listener
  /\ session'.abandoned = session.abandoned
  /\ \A l \in Plans :
       \/ listener'[l].stage = listener[l].stage
       \/ listener[l].stage \in Running /\ listener'[l].stage \in Running \cup {"dead"}
  /\ \A c \in Connections :
       \/ loop'[c] = loop[c] /\ (loop[c] \in Working => job'[c].plan = job[c].plan)
       \/ loop[c] = "prompt" /\ loop'[c] = "prompted" /\ job'[c].plan = job[c].plan
       \/ loop[c] \in Handling \cup {"recv", "left"} /\ loop'[c] \in Handling \cup {"recv", "left"}

LEMMA SideStepKeeps ==
  ASSUME TypeOK, Jobs, Begun, Held, Quiet, RunningListenerIsCurrent, SideStep
  PROVE  Begun' /\ Held' /\ Quiet' /\ RunningListenerIsCurrent'
<1>1. \A p \in Plans : Newest(p)' <=> Newest(p)
  BY ManagersKept DEF SideStep
<1>2. \A l \in Plans : /\ listener'[l].stage \in Running => listener[l].stage \in Running
                       /\ listener[l].stage \in Running \cup {"dead"}
                            => listener'[l].stage \in Running \cup {"dead"}
  BY DEF SideStep
<1>3. Begun'
  <2> SUFFICES ASSUME NEW c \in Connections
               PROVE  /\ loop'[c] \in {"prompt", "prompted"} => session'.known
                      /\ loop'[c] \in Working \ {"client"} =>
                           listener'[job'[c].plan].stage \in Running \cup {"dead"}
    BY Zenon DEF Begun
  <2>1. loop'[c] \in Working \ {"client"} =>
          loop[c] \in Working \ {"client"} /\ job'[c].plan = job[c].plan
    BY DEF SideStep, Working, Handling
  <2>2. loop'[c] \in {"prompt", "prompted"} => loop[c] \in {"prompt", "prompted"}
    BY DEF SideStep, Working, Handling
  <2> QED BY <1>2, <2>1, <2>2 DEF Begun, Jobs, SideStep
<1>4. Held'
  <2> SUFFICES ASSUME NEW c \in Connections, NEW p \in Plans,
                      loop'[c] \in Handling \cup {"recv", "left"}, Newest(p)', p \notin failed'
               PROVE  session'.listener = p /\ listener'[p].stage \in Running \cup {"dead"}
    BY Zenon DEF Held
  <2>1. loop[c] \in Handling \cup {"recv", "left"}
    BY DEF SideStep, Handling
  <2> QED BY <1>1, <1>2, <2>1 DEF Held, SideStep
<1>5. Quiet'
  <2> SUFFICES ASSUME NEW c \in Connections, NEW l \in Plans, listener'[l].stage \in Running
               PROVE  /\ loop'[c] \in {"client", "stopping"} => l \in failed'
                      /\ loop'[c] \in Working => l \in failed' \/ Newest(l)'
    BY Zenon DEF Quiet
  <2>1. /\ loop'[c] \in {"client", "stopping"} => loop[c] \in {"client", "stopping"}
        /\ loop'[c] \in Working => loop[c] \in Working
    BY DEF SideStep, Handling, Working
  <2> QED BY <1>1, <1>2, <2>1 DEF Quiet, SideStep
<1>6. RunningListenerIsCurrent'
  <2> SUFFICES ASSUME NEW l \in Plans, listener'[l].stage \in Running
               PROVE  \/ l \in failed' \/ Newest(l)'
                      \/ l = session'.abandoned /\ l = session'.listener
    BY Zenon DEF RunningListenerIsCurrent
  <2> QED BY <1>1, <1>2 DEF RunningListenerIsCurrent, SideStep
<1> QED BY <1>3, <1>4, <1>5, <1>6

LEMMA FetchesKept ==
  ASSUME TypeOK, Fetches,
         \A p \in Plans : plan[p].owner # None => plan'[p].owner # None,
         \A l \in Plans : \/ listener'[l].fetching \in {listener[l].fetching, None}
                          \/ /\ listener'[l].fetching \in Plans
                             /\ plan[listener'[l].fetching].owner # None
  PROVE  Fetches'
<1>1. ASSUME NEW l \in Plans, listener'[l].fetching # None
      PROVE  plan'[listener'[l].fetching].owner # None
  <2>1. listener'[l].fetching \in Plans /\ plan[listener'[l].fetching].owner # None
    BY <1>1, TypesUnfolded DEF Fetches
  <2> QED BY <2>1
<1> QED BY <1>1 DEF Fetches

LEMMA JobsStay ==
  ASSUME Jobs, KeepsManagers, UNCHANGED loopVars
  PROVE  Jobs'
<1>1. loop' = loop /\ job' = job /\ mail' = mail
  BY DEF loopVars
<1>2. \A p \in Plans : (InManager(p)' <=> InManager(p)) /\ (Newest(p)' <=> Newest(p))
  BY ManagersKept
<1>3. ASSUME NEW c \in Connections
      PROVE  /\ loop'[c] \in {"recv", "left", "stopping", "closed"} => job'[c].plan = None
             /\ loop'[c] \in {"left", "stopping", "closed"} => mail'[c].plan = None
             /\ \A p \in Plans : p \in {job'[c].plan, mail'[c].plan} => InManager(p)'
             /\ loop'[c] \in Working => job'[c].plan \in Plans
             /\ loop'[c] = "closed" => \A p \in Plans : ~ InManager(p)'
  BY <1>1, <1>2 DEF Jobs
<1>4. ASSUME NEW c \in Connections, loop'[c] \in Working
      PROVE  Newest(job[c].plan)'
  BY <1>1, <1>2, <1>4 DEF Jobs
<1> QED BY <1>1, <1>3, <1>4, Zenon DEF Jobs

LEMMA SideStepIInv ==
  ASSUME BoundsAssumption, IInv, TypeOK', SideStep, Jobs', Fetches'
  PROVE  IInv'
<1>1. Begun' /\ Held' /\ Quiet' /\ RunningListenerIsCurrent'
  BY SideStepKeeps DEF IInv
<1>2. Requests'
  BY RequestsKept DEF IInv, SideStep
<1> QED BY <1>1, <1>2 DEF IInv

LEMMA ActiveIsInManager ==
  ASSUME BoundsAssumption, IInv, NEW l \in Plans, ActiveBeside(l) # {}
  PROVE  Earliest(ActiveBeside(l)) \in Plans /\ InManager(Earliest(ActiveBeside(l)))
<1> DEFINE p == Earliest(ActiveBeside(l))
<1>1. p \in ActiveBeside(l)
  BY EarliestIsActive
<1> HIDE DEF p
<1>2. p \in Plans /\ plan[p].status \in Active
  BY <1>1 DEF ActiveBeside
<1>3. plan[p].owner # None
  BY <1>2 DEF IInv, Requests, NoPlan, Active
<1> QED BY <1>2, <1>3 DEF InManager, Active, p

LEMMA ListenerStepKeeps ==
  ASSUME BoundsAssumption, IInv, TypeOK', NEW l \in Plans, ListenerStep(l)
  PROVE  IInv'
<1>0. TypeOK /\ Jobs /\ Fetches /\ Requests
  BY DEF IInv
<1>a. /\ listener \in [Plans -> ListenerType] /\ plan \in [Plans -> PlanType]
      /\ listener[l].fetching \in Plans \cup {None}
      /\ listener[l].stage = "fetching" => listener[l].fetching \in Plans
  BY <1>0, TypesUnfolded DEF TypeOK
<1>b. UNCHANGED loopVars /\ failed' = failed
  BY DEF ListenerStep, Subscribed, Dies, QuestionEvent, IdleEvent, Completed, FetchFails
<1>c. /\ session'.known = session.known /\ session'.listener = session.listener
      /\ session'.abandoned = session.abandoned
  <2>1. session' = session \/ \E q : session' = SetPending(q)
    BY DEF ListenerStep, Subscribed, Dies, QuestionEvent, IdleEvent, Completed, FetchFails
  <2>2. session \in SessionType
    BY <1>0, TypesUnfolded
  <2> QED BY <2>1, <2>2 DEF SetPending, SessionType
<1>d. KeepsManagers
  <2>1. CASE plan' = plan
    BY <2>1 DEF KeepsManagers
  <2>2. CASE QuestionEvent(l) /\ ActiveBeside(l) # {}
    <3> DEFINE p == Earliest(ActiveBeside(l))
    <3>1. plan' = [plan EXCEPT ![p].status = "needs_confirmation", ![p].revision = @ + 1]
      BY <2>2 DEF QuestionEvent
    <3>2. p \in Plans /\ InManager(p)
      BY <2>2, ActiveIsInManager
    <3> HIDE DEF p
    <3> QED BY <1>a, <3>1, <3>2 DEF KeepsManagers, PlanType
  <2>3. CASE Completed(l) /\ plan' # plan
    <3> DEFINE p == listener[l].fetching
    <3>1. plan' = [plan EXCEPT ![p].status = "completed"] /\ plan[p].status # "dropped"
          /\ listener[l].stage = "fetching"
      BY <2>3 DEF Completed, FetchReturns
    <3>2. p \in Plans /\ InManager(p)
      BY <1>0, <1>a, <3>1 DEF Fetches, InManager, TypeOK
    <3> HIDE DEF p
    <3> QED BY <1>a, <3>1, <3>2 DEF KeepsManagers, PlanType
  <2>4. Subscribed(l) \/ Dies(l) \/ IdleEvent(l) \/ FetchFails(l) => plan' = plan
    BY DEF Subscribed, Dies, IdleEvent, FetchFails
  <2>5. QuestionEvent(l) /\ ActiveBeside(l) = {} => plan' = plan
    BY DEF QuestionEvent
  <2> QED BY <2>1, <2>2, <2>3, <2>4, <2>5 DEF ListenerStep
<1>e. /\ \A k \in Plans \ {l} : listener'[k] = listener[k]
      /\ \/ listener'[l].stage = listener[l].stage
         \/ listener[l].stage \in Running /\ listener'[l].stage \in Running \cup {"dead"}
      /\ \/ listener'[l].fetching \in {listener[l].fetching, None}
         \/ /\ listener'[l].fetching \in Plans
            /\ plan[listener'[l].fetching].owner # None
  <2>1. CASE Subscribed(l)
    BY <1>a, <2>1 DEF Subscribed, ListenerType, Running
  <2>2. CASE Dies(l)
    BY <1>a, <2>2 DEF Dies, Listener, ListenerType, Running
  <2>3. CASE QuestionEvent(l)
    BY <1>a, <2>3 DEF QuestionEvent, ListenerType
  <2>4. CASE IdleEvent(l)
    <3> DEFINE relevant == /\ session.known /\ session.id = Head(listener[l].queue).session
                           /\ ActiveBeside(l) # {}
               first == Earliest(ActiveBeside(l))
    <3>1. /\ listener[l].stage = "on"
          /\ \A k \in Plans \ {l} : listener'[k] = listener[k]
          /\ listener'[l].stage = IF relevant THEN "fetching" ELSE listener[l].stage
          /\ listener'[l].fetching = IF relevant THEN first ELSE listener[l].fetching
      BY <1>a, <2>4 DEF IdleEvent, NextEvent, ListenerType
    <3>2. relevant => first \in Plans /\ InManager(first)
      BY ActiveIsInManager
    <3> HIDE DEF relevant, first
    <3> QED BY <3>1, <3>2 DEF InManager, Running
  <2>5. CASE Completed(l) \/ FetchFails(l)
    <3>1. FetchReturns(l)
      BY <2>5 DEF Completed, FetchFails
    <3> QED BY <1>a, <3>1 DEF FetchReturns, ListenerType, Running
  <2> QED BY <2>1, <2>2, <2>3, <2>4, <2>5 DEF ListenerStep
<1>1. SideStep
  BY <1>b, <1>c, <1>d, <1>e DEF SideStep, loopVars
<1>2. Jobs'
  BY <1>0, <1>b, <1>d, JobsStay
<1>3. Fetches'
  <2>1. \A p \in Plans : plan[p].owner # None => plan'[p].owner # None
    BY <1>d, ManagersKept
  <2> QED BY <1>0, <1>e, <2>1, FetchesKept
<1> QED BY <1>1, <1>2, <1>3, SideStepIInv

LEMMA OpenCodeStepKeeps ==
  ASSUME BoundsAssumption, IInv, TypeOK', NEW s \in Plans, OpenCodeStep(s)
  PROVE  IInv'
<1>0. TypeOK /\ Jobs /\ Fetches
  BY DEF IInv
<1>1. UNCHANGED loopVars /\ failed' = failed /\ session' = session /\ plan' = plan
      /\ \E event : Publish(event)
  BY DEF OpenCodeStep, OpenCodeAsks, OpenCodeIdle
<1>2. \A l \in Plans : listener'[l].stage = listener[l].stage
                       /\ listener'[l].fetching = listener[l].fetching
  <2>1. listener \in [Plans -> ListenerType]
    BY <1>0, TypesUnfolded
  <2>2. PICK event : Publish(event)
    BY <1>1
  <2> QED BY <2>1, <2>2 DEF Publish, ListenerType
<1>3. KeepsManagers
  BY <1>1 DEF KeepsManagers
<1>4. SideStep
  BY <1>1, <1>2, <1>3 DEF SideStep, loopVars
<1>5. Jobs'
  BY <1>0, <1>1, <1>3, JobsStay
<1>6. Fetches'
  BY <1>0, <1>1, <1>2, FetchesKept
<1> QED BY <1>4, <1>5, <1>6, SideStepIInv

LEMMA JobsSet ==
  ASSUME OneConnection, TypeOK, NEW c \in Connections,
         loop'[c] \in {"recv", "left", "stopping", "closed"} => job'[c].plan = None,
         loop'[c] \in {"left", "stopping", "closed"} => mail'[c].plan = None,
         \A p \in Plans : p \in {job'[c].plan, mail'[c].plan} => InManager(p)',
         loop'[c] \in Working => job'[c].plan \in Plans /\ Newest(job[c].plan)',
         loop'[c] = "closed" => \A p \in Plans : ~ InManager(p)'
  PROVE  Jobs'
<1>1. \A d \in Connections : d = c
  BY OneOwner
<1> QED BY <1>1, Zenon DEF Jobs

\* The steps of handle_plan_confirmation, and leaving.
LEMMA ConfirmationStepKeeps ==
  ASSUME BoundsAssumption, OneConnection, IInv, TypeOK', NEW c \in Connections,
         \/ Leave(c)
         \/ \E p \in Plans : SendConfirmation(c, p)
         \/ Refuse(c) \/ Reject(c) \/ Proceed(c)
         \/ Replied(c) \/ AnswerEnds(c)
         \/ Continued(c) \/ ContinueEnds(c) \/ ConfirmationFails(c)
  PROVE  IInv'
<1> DEFINE Confirming == Handling \cup {"recv", "left"}
<1>0. TypeOK /\ Jobs /\ Fetches
  BY DEF IInv
<1>a. /\ loop \in [Connections -> Stages]
      /\ job \in [Connections -> JobType] /\ mail \in [Connections -> JobType]
      /\ plan \in [Plans -> PlanType] /\ session \in SessionType
      /\ job[c].plan \in Plans \cup {None} /\ mail[c].plan \in Plans \cup {None}
      /\ \A d \in Connections : d = c
  BY <1>0, TypesUnfolded, OneOwner
<1>b. listener' = listener /\ failed' = failed
  BY DEF Leave, SendConfirmation, Refuse, Reject, Proceed, Receive, Replied, AnswerEnds,
         Continued, Prompt, ContinueEnds, ConfirmationFails
<1>c. /\ session'.known = session.known /\ session'.listener = session.listener
      /\ session'.abandoned = session.abandoned
  <2>1. session' = session \/ \E q : session' = SetPending(q)
    BY DEF Leave, SendConfirmation, Refuse, Reject, Proceed, Receive, Replied, AnswerEnds,
           Continued, Prompt, ContinueEnds, ConfirmationFails
  <2> QED BY <1>a, <2>1 DEF SetPending, SessionType
<1>d. \A p \in Plans : p \in {job[c].plan, mail[c].plan} => InManager(p)
  BY <1>0 DEF Jobs
<1>e. KeepsManagers
  <2>1. CASE plan' = plan
    BY <2>1 DEF KeepsManagers
  <2>2. CASE Reject(c)
    BY <1>a, <1>d, <2>2 DEF Reject, KeepsManagers, PlanType
  <2>3. CASE AnswerEnds(c)
    BY <1>a, <1>d, <2>3 DEF AnswerEnds, KeepsManagers, PlanType
  <2>4. CASE ContinueEnds(c)
    BY <1>a, <1>d, <2>4 DEF ContinueEnds, KeepsManagers, PlanType
  <2>5. \/ plan' = plan \/ Reject(c) \/ AnswerEnds(c) \/ ContinueEnds(c)
    BY DEF Leave, SendConfirmation, Refuse, Proceed, Replied, Continued, Prompt,
           ConfirmationFails
  <2> QED BY <2>1, <2>2, <2>3, <2>4, <2>5
<1>f. /\ \/ loop'[c] = loop[c] /\ job' = job /\ loop[c] \notin {"left", "stopping", "closed"}
         \/ loop[c] \in Confirming /\ loop'[c] \in Handling
         \/ loop[c] \in Confirming /\ loop'[c] = "recv" /\ job'[c].plan = None
         \/ loop[c] = "recv" /\ loop'[c] = "left" /\ job' = job /\ mail'[c].plan = None
      /\ job'[c].plan \in {job[c].plan, mail[c].plan, None}
      /\ \/ mail'[c].plan \in {mail[c].plan, None}
         \/ \E p \in Plans : InManager(p) /\ mail'[c].plan = p
  <2>1. CASE Leave(c)
    BY <1>a, <2>1 DEF Leave, NoJob, Handling
  <2>2. ASSUME NEW p \in Plans, SendConfirmation(c, p)
        PROVE  /\ loop'[c] = loop[c] /\ job' = job
               /\ loop[c] \notin {"left", "stopping", "closed"}
               /\ InManager(p) /\ mail'[c].plan = p
    <3>1. 1 # None /\ plan[p].owner = c /\ c = 1
      BY <1>0, <2>2, OneOwner DEF SendConfirmation, None
    <3> QED BY <1>a, <2>2, <3>1 DEF SendConfirmation, InManager
  <2>3. CASE Refuse(c) \/ Reject(c)
    BY <1>a, <2>3 DEF Refuse, Reject, Receive, NoJob
  <2>4. CASE Proceed(c)
    <3>1. loop[c] = "recv" /\ loop'[c] \in {"answer", "continue"}
          /\ job'[c].plan = mail[c].plan /\ mail'[c].plan = None
      BY <1>a, <2>4 DEF Proceed, Receive, NoJob, JobType
    <3> QED BY <3>1 DEF Handling
  <2>5. CASE Replied(c) \/ Continued(c)
    BY <1>a, <2>5 DEF Replied, Continued, Prompt, Handling
  <2>6. CASE AnswerEnds(c) \/ ContinueEnds(c) \/ ConfirmationFails(c)
    <3>1. Respond(c) /\ loop[c] \in Handling
      BY <2>6 DEF AnswerEnds, ContinueEnds, ConfirmationFails, Handling
    <3> QED BY <1>a, <3>1 DEF Respond, NoJob
  <2> QED BY <2>1, <2>2, <2>3, <2>4, <2>5, <2>6
<1> HIDE DEF Confirming
<1>g. \A p \in Plans : (InManager(p)' <=> InManager(p)) /\ (Newest(p)' <=> Newest(p))
  BY <1>e, ManagersKept
<1>1. SideStep
  <2>1. \/ loop'[c] = loop[c] /\ (loop[c] \in Working => job'[c].plan = job[c].plan)
        \/ loop[c] \in Confirming /\ loop'[c] \in Confirming
    BY <1>f DEF Confirming
  <2> QED BY <1>a, <1>b, <1>c, <1>e, <2>1 DEF SideStep, Confirming
<1>2. Jobs'
  <2>1. loop'[c] \in {"recv", "left", "stopping", "closed"} => job'[c].plan = None
    BY <1>0, <1>f DEF Jobs, Handling
  <2>2. loop'[c] \in {"left", "stopping", "closed"} => mail'[c].plan = None
    BY <1>f DEF Handling
  <2>3. \A p \in Plans : p \in {job'[c].plan, mail'[c].plan} => InManager(p)'
    <3>1. None \notin Plans
      BY DEF None, Plans, BoundsAssumption
    <3> QED BY <1>d, <1>f, <1>g, <3>1
  <2>4. loop'[c] \in Working => job' = job /\ loop[c] \in Working
    BY <1>f DEF Working, Handling
  <2>5. loop'[c] \in Working => job'[c].plan \in Plans /\ Newest(job[c].plan)'
    <3> SUFFICES ASSUME loop'[c] \in Working
                 PROVE  job'[c].plan \in Plans /\ Newest(job[c].plan)'
      OBVIOUS
    <3> DEFINE p == job[c].plan
    <3>1. p \in Plans /\ Newest(p) /\ job' = job
      BY <1>0, <2>4 DEF Jobs
    <3> QED BY <1>g, <3>1 DEF Newest, InManager, SameManager
  <2>6. loop'[c] # "closed"
    BY <1>f DEF Handling
  <2> QED BY <1>0, <2>1, <2>2, <2>3, <2>5, <2>6, JobsSet
<1>3. Fetches'
  <2>1. \A p \in Plans : plan[p].owner # None => plan'[p].owner # None
    BY <1>e, ManagersKept
  <2> QED BY <1>0, <1>b, <2>1, FetchesKept
<1> QED BY <1>1, <1>2, <1>3, SideStepIInv

\* The ends of connections.
LEMMA ConnectKeeps ==
  ASSUME BoundsAssumption, OneConnection, IInv, TypeOK', NEW c \in Connections, Connect(c)
  PROVE  IInv'
<1>0. TypeOK /\ Jobs /\ Fetches /\ Requests /\ Quiet /\ RunningListenerIsCurrent
  BY DEF IInv
<1>a. /\ loop[c] = "closed" /\ loop'[c] = "recv" /\ job' = job /\ mail' = mail
      /\ plan' = plan /\ listener' = listener /\ failed' = failed
      /\ \A d \in Connections : d = c
  BY <1>0, TypesUnfolded, OneOwner DEF Connect
<1>b. \A p \in Plans : ~ InManager(p) /\ ~ InManager(p)'
  BY <1>0, <1>a DEF Jobs, InManager
<1>c. KeepsManagers
  BY <1>a DEF KeepsManagers
<1>1. Requests'
  BY <1>0, <1>c, RequestsKept
<1>2. Jobs'
  <2>1. job[c].plan = None /\ mail[c].plan = None
    BY <1>0, <1>a DEF Jobs
  <2>2. \A p \in Plans : p \in {job'[c].plan, mail'[c].plan} => InManager(p)'
    BY <1>a, <2>1 DEF Plans, None, BoundsAssumption
  <2> QED BY <1>0, <1>a, <2>1, <2>2, JobsSet DEF Working
<1>3. Begun'
  BY <1>a DEF Begun, Working
<1>4. Held'
  <2>1. \A p \in Plans : ~ Newest(p)'
    BY <1>b DEF Newest
  <2> QED BY <2>1, Zenon DEF Held
<1>5. Quiet'
  BY <1>a DEF Quiet, Working
<1>6. Fetches'
  BY <1>0, <1>a, FetchesKept
<1>7. RunningListenerIsCurrent'
  <2>1. \A p \in Plans : Newest(p)' <=> Newest(p)
    BY <1>c, ManagersKept
  <2>2. session'.listener = session.listener /\ session'.abandoned = session.abandoned
    <3>1. session \in SessionType /\ \E q : session' = SetPending(q)
      BY <1>0, TypesUnfolded DEF Connect
    <3> QED BY <3>1 DEF SetPending, SessionType
  <2> QED BY <1>0, <1>a, <2>1, <2>2, Zenon DEF RunningListenerIsCurrent
<1> QED BY <1>1, <1>2, <1>3, <1>4, <1>5, <1>6, <1>7 DEF IInv

\* Stopping the SessionInfo's listener leaves none running.
LEMMA StopLeavesNone ==
  ASSUME BoundsAssumption, OneConnection, IInv, NEW c \in Connections, loop[c] \in {"recv", "left"},
         listener' = Stopped(session.listener)
  PROVE  /\ \A l \in Plans : listener'[l].stage \in Running =>
              l \in failed /\ listener'[l].stage = listener[l].stage
         /\ \A l \in Plans : listener'[l].fetching \in {listener[l].fetching, None}
<1>1. TypeOK /\ Held /\ RunningListenerIsCurrent
  BY DEF IInv
<1>2. listener \in [Plans -> ListenerType] /\ session.listener \in Plans \cup {None}
  BY <1>1, TypesUnfolded
<1>3. \A l \in Plans : listener'[l] = IF l = session.listener THEN Listener("stopped")
                                                              ELSE listener[l]
  BY <1>2 DEF Stopped, Plans, None, BoundsAssumption
<1>4. ASSUME NEW l \in Plans, listener'[l].stage \in Running
      PROVE  l \in failed /\ listener'[l].stage = listener[l].stage
  <2>1. l # session.listener /\ listener'[l] = listener[l]
    BY <1>3, <1>4 DEF Listener, Running
  <2>2. l \in failed \/ Newest(l)
    BY <1>1, <1>4, <2>1 DEF RunningListenerIsCurrent
  <2> QED BY <1>1, <2>1, <2>2 DEF Held
<1>5. \A l \in Plans : listener'[l].fetching \in {listener[l].fetching, None}
  BY <1>3 DEF Listener
<1> QED BY <1>4, <1>5

LEMMA StopListenerKeeps ==
  ASSUME BoundsAssumption, OneConnection, IInv, TypeOK', NEW c \in Connections, StopListener(c)
  PROVE  IInv'
<1>0. TypeOK /\ Jobs /\ Fetches /\ Requests
  BY DEF IInv
<1>a. /\ loop[c] = "left" /\ loop'[c] = "stopping" /\ job' = job /\ mail' = mail
      /\ plan' = plan /\ failed' = failed /\ listener' = Stopped(session.listener)
      /\ \A d \in Connections : d = c
  BY <1>0, TypesUnfolded, OneOwner DEF StopListener
<1>b. /\ \A l \in Plans : listener'[l].stage \in Running => l \in failed
      /\ \A l \in Plans : listener'[l].fetching \in {listener[l].fetching, None}
  BY <1>a, StopLeavesNone
<1>c. KeepsManagers
  BY <1>a DEF KeepsManagers
<1>1. Requests'
  BY <1>0, <1>c, RequestsKept
<1>2. Jobs'
  <2>1. \A p \in Plans : InManager(p)' <=> InManager(p)
    BY <1>c, ManagersKept
  <2>2. job[c].plan = None /\ mail[c].plan = None
    BY <1>0, <1>a DEF Jobs
  <2>3. \A p \in Plans : p \in {job'[c].plan, mail'[c].plan} => InManager(p)'
    BY <1>a, <2>2 DEF Plans, None, BoundsAssumption
  <2> QED BY <1>0, <1>a, <2>2, <2>3, JobsSet DEF Working
<1>3. Begun'
  BY <1>a DEF Begun, Working
<1>4. Held'
  <2>1. \A d \in Connections : loop'[d] \notin Handling \cup {"recv", "left"}
    BY <1>a DEF Handling
  <2> QED BY <2>1, Zenon DEF Held
<1>5. Quiet'
  BY <1>a, <1>b DEF Quiet, Working
<1>6. Fetches'
  BY <1>0, <1>a, <1>b, FetchesKept
<1>7. RunningListenerIsCurrent'
  BY <1>a, <1>b, Zenon DEF RunningListenerIsCurrent
<1> QED BY <1>1, <1>2, <1>3, <1>4, <1>5, <1>6, <1>7 DEF IInv

\* Dropping plans leaves them their owners.
LEMMA DroppedAreOut ==
  ASSUME BoundsAssumption, TypeOK, Requests, NEW ps, Drop(ps), ps \subseteq Requested
  PROVE  /\ Requests'
         /\ \A p \in Plans : plan'[p].owner = plan[p].owner
         /\ \A p \in ps : p \in Plans /\ ~ InManager(p)'
<1>1. plan \in [Plans -> PlanType]
  BY TypesUnfolded
<1>2. \A p \in Plans : /\ plan'[p].owner = plan[p].owner
                       /\ p \in ps => plan'[p].status = "dropped"
                       /\ p \notin ps => plan'[p] = plan[p]
  BY <1>1 DEF Drop, PlanType
<1>3. \A p \in ps : p \in Plans /\ ~ InManager(p)'
  BY <1>2 DEF InManager, Requested
<1>4. \A p \in Plans : plan'[p].owner = None <=> plan'[p] = NoPlan
  <2>1. \A p \in ps : plan'[p] # NoPlan /\ plan'[p].owner # None
    BY <1>2 DEF NoPlan, Requested, Requests
  <2> QED BY <1>2, <2>1 DEF Requests
<1>5. Requests'
  <2>1. ASSUME NEW p \in Plans, plan'[p].owner # None, NEW q \in 1 .. p - 1
        PROVE  plan'[q].owner # None
    <3>1. q \in Plans
      BY DEF Plans, BoundsAssumption
    <3>2. plan[q].owner # None
      BY <1>2, <2>1 DEF Requests
    <3> QED BY <1>2, <3>1, <3>2
  <2> QED BY <1>4, <2>1 DEF Requests
<1> QED BY <1>2, <1>3, <1>5

\* A connection ends, with or without the rest of its clean-up.
LEMMA EndKeeps ==
  ASSUME BoundsAssumption, OneConnection, IInv, TypeOK', NEW c \in Connections,
         Close(c) \/ CleanupRaises(c), RunningListenerIsCurrent'
  PROVE  IInv'
<1>0. TypeOK /\ Jobs /\ Fetches /\ Requests
  BY DEF IInv
<1> DEFINE ps == {p \in Plans : plan[p].owner = c}
<1>a. /\ loop[c] \in {"left", "stopping"} /\ loop'[c] = "closed" /\ job' = job /\ mail' = mail
      /\ listener' = listener /\ failed' = failed /\ Drop(ps)
      /\ c = 1 /\ \A d \in Connections : d = c
  BY <1>0, TypesUnfolded, OneOwner DEF Close, CleanupRaises
<1>b. ps \subseteq Requested
  BY <1>0, <1>a DEF Requested, NoPlan, None
<1>c. /\ Requests'
      /\ \A p \in Plans : plan'[p].owner = plan[p].owner
      /\ \A p \in ps : p \in Plans /\ ~ InManager(p)'
  <2> HIDE DEF ps
  <2> QED BY <1>0, <1>a, <1>b, DroppedAreOut
<1>d. \A p \in Plans : ~ InManager(p)'
  <2>1. \A p \in Plans : p \notin ps => plan[p].owner = None
    BY <1>0, <1>a, OneOwner
  <2> HIDE DEF ps
  <2> QED BY <1>c, <2>1 DEF InManager
<1>e. \A p \in Plans : ~ Newest(p)'
  BY <1>d DEF Newest
<1>2. Jobs'
  <2>1. job[c].plan = None /\ mail[c].plan = None
    BY <1>0, <1>a DEF Jobs
  <2>2. \A p \in Plans : p \in {job'[c].plan, mail'[c].plan} => InManager(p)'
    BY <1>a, <2>1 DEF Plans, None, BoundsAssumption
  <2> QED BY <1>0, <1>a, <1>d, <2>1, <2>2, JobsSet DEF Working
<1>3. Begun'
  BY <1>a DEF Begun, Working
<1>4. Held'
  BY <1>e, Zenon DEF Held
<1>5. Quiet'
  BY <1>a DEF Quiet, Working
<1>6. Fetches'
  BY <1>0, <1>a, <1>c, FetchesKept
<1> QED BY <1>c, <1>2, <1>3, <1>4, <1>5, <1>6 DEF IInv

LEMMA CloseKeeps ==
  ASSUME BoundsAssumption, OneConnection, IInv, TypeOK', NEW c \in Connections, Close(c)
  PROVE  IInv'
<1>1. TypeOK /\ Quiet
  BY DEF IInv
<1>2. loop[c] = "stopping" /\ listener' = listener /\ failed' = failed
  BY DEF Close
<1>3. \A l \in Plans : listener'[l].stage \in Running => l \in failed'
  BY <1>1, <1>2 DEF Quiet
<1>4. RunningListenerIsCurrent'
  BY <1>3, Zenon DEF RunningListenerIsCurrent
<1> QED BY <1>4, EndKeeps

\* The newest plan's listener is the SessionInfo's, so that a clean-up that raises
\* leaves no other.
LEMMA CleanupRaisesKeeps ==
  ASSUME BoundsAssumption, OneConnection, IInv, TypeOK', NEW c \in Connections, CleanupRaises(c)
  PROVE  IInv'
<1>1. TypeOK /\ Held /\ RunningListenerIsCurrent
  BY DEF IInv
<1>2. /\ loop[c] = "left" /\ listener' = listener /\ failed' = failed
      /\ session' = AbandonListener
  BY DEF CleanupRaises
<1>3. session'.abandoned = session.listener /\ session'.listener = session.listener
  <2>1. session \in SessionType /\ (session.known \/ session = NoSession)
    BY <1>1, TypesByVariable DEF SessionTyped
  <2>2. NoSession.listener = None /\ NoSession.abandoned = None
    BY DEF NoSession
  <2> QED BY <1>2, <2>1, <2>2 DEF SessionType, AbandonListener
<1>4. ASSUME NEW l \in Plans, listener[l].stage \in Running
      PROVE  l \in failed \/ l = session.listener
  BY <1>1, <1>2, <1>4 DEF Held, RunningListenerIsCurrent
<1>5. \A l \in Plans :
        listener'[l].stage \in Running =>
          \/ l \in failed' \/ Newest(l)'
          \/ l = session'.abandoned /\ l = session'.listener
  BY <1>2, <1>3, <1>4
<1>6. RunningListenerIsCurrent'
  BY <1>5, Zenon DEF RunningListenerIsCurrent
<1> QED BY <1>6, EndKeeps

LEMMA CrashKeeps ==
  ASSUME BoundsAssumption, OneConnection, IInv, TypeOK', Crash
  PROVE  IInv'
<1>0. TypeOK /\ Fetches /\ Requests
  BY DEF IInv
<1>a. \A c \in Connections : loop'[c] = "closed" /\ job'[c].plan = None /\ mail'[c].plan = None
  BY DEF Crash, NoJob
<1>b. \A l \in Plans : listener'[l].stage = "stopped" /\ listener'[l].fetching = None
  BY DEF Crash, Listener
<1>c. /\ Requests'
      /\ \A p \in Plans : plan'[p].owner = plan[p].owner
      /\ \A p \in Requested : ~ InManager(p)'
  BY <1>0, DroppedAreOut DEF Crash
<1>d. \A p \in Plans : ~ InManager(p)'
  <2>1. \A p \in Plans : p \notin Requested => plan[p].owner = None
    BY DEF Requested, NoPlan
  <2> QED BY <1>c, <2>1 DEF InManager
<1>2. Jobs'
  <2>1. \A p \in Plans : p # None
    BY DEF Plans, None, BoundsAssumption
  <2> QED BY <1>a, <1>d, <2>1, Zenon DEF Jobs, Working
<1>3. Begun'
  BY <1>a DEF Begun, Working
<1>4. Held'
  BY <1>a, Zenon DEF Held, Handling
<1>5. Quiet' /\ RunningListenerIsCurrent'
  BY <1>a, <1>b DEF Quiet, RunningListenerIsCurrent, Running
<1>6. Fetches'
  BY <1>0, <1>b, <1>c, FetchesKept
<1> QED BY <1>c, <1>2, <1>3, <1>4, <1>5, <1>6 DEF IInv

\* A new plan is the newest, and no other listener than failed ones runs beside it.
LEMMA PlanRequestKeeps ==
  ASSUME BoundsAssumption, OneConnection, IInv, TypeOK', NEW c \in Connections,
         NEW n \in NewPlan, PlanRequest(c, n)
  PROVE  IInv'
<1>0. TypeOK /\ Jobs /\ Fetches /\ Requests
  BY DEF IInv
<1>a. /\ loop[c] = "recv" /\ loop'[c] = "client" /\ mail' = mail
      /\ failed' = failed /\ listener' = Stopped(session.listener)
      /\ job'[c].plan = n
      /\ c = 1 /\ \A d \in Connections : d = c
  BY <1>0, TypesUnfolded, OneOwner DEF PlanRequest, NoJob
<1>b. /\ \A l \in Plans : listener'[l].stage \in Running => l \in failed
      /\ \A l \in Plans : listener'[l].fetching \in {listener[l].fetching, None}
  BY <1>a, StopLeavesNone DEF PlanRequest
<1>c. /\ n \in Plans /\ plan[n].owner = None
      /\ \A q \in 1 .. n - 1 : q \in Plans /\ plan[q].owner # None
      /\ \A q \in Plans : plan[q].owner # None => q < n
  <2>1. n \in Plans /\ plan[n] = NoPlan
    BY DEF NewPlan, Requested
  <2>2. plan[n].owner = None
    BY <2>1 DEF NoPlan
  <2>3. \A q \in 1 .. n - 1 : q \in Plans /\ plan[q] # NoPlan
    BY DEF NewPlan, Requested
  <2>4. \A q \in 1 .. n - 1 : plan[q].owner # None
    BY <1>0, <2>3 DEF Requests
  <2>5. ASSUME NEW q \in Plans, plan[q].owner # None
        PROVE  q < n
    <3>1. n \notin 1 .. q - 1 /\ n # q
      BY <1>0, <2>2, <2>5 DEF Requests
    <3> QED BY <2>1, <3>1 DEF Plans, BoundsAssumption
  <2> QED BY <2>1, <2>2, <2>3, <2>4, <2>5
<1>d. /\ plan'[n] = NewDraft(c)
      /\ \A q \in Plans : q # n => plan'[q] = plan[q]
  BY <1>0, <1>c, TypesUnfolded DEF PlanRequest
<1>e. /\ plan'[n].owner = 1 /\ plan'[n].status # "dropped" /\ plan'[n] # NoPlan
      /\ \A q \in Plans : plan[q].owner # None => plan'[q].owner # None
  BY <1>a, <1>c, <1>d DEF NewDraft, NoPlan, None
<1>f. InManager(n)' /\ \A q \in Plans : q # n => (InManager(q)' <=> InManager(q))
  BY <1>d, <1>e DEF InManager, None
<1>g. \A q \in Plans : plan'[q].owner # None => q <= n
  BY <1>c, <1>d DEF Plans, BoundsAssumption
<1>h. Newest(n)'
  <2>1. \A q \in Plans : SameManager(n, q)' => plan'[q].owner = 1
    BY <1>e DEF SameManager
  <2> QED BY <1>f, <1>g, <2>1 DEF Newest, None
<1>1. Requests'
  <2>1. \A p \in Plans : plan'[p].owner = None <=> plan'[p] = NoPlan
    BY <1>0, <1>d, <1>e DEF Requests, None
  <2>2. ASSUME NEW p \in Plans, plan'[p].owner # None, NEW q \in 1 .. p - 1
        PROVE  plan'[q].owner # None
    <3>1. q \in Plans /\ q \in 1 .. n - 1
      BY <1>c, <1>g, <2>2 DEF Plans, BoundsAssumption
    <3> QED BY <1>c, <1>e, <3>1
  <2> QED BY <2>1, <2>2 DEF Requests
<1>2. Jobs'
  <2>1. \A p \in Plans : p \in {job'[c].plan, mail'[c].plan} => InManager(p)'
    BY <1>0, <1>a, <1>f DEF Jobs
  <2>2. Newest(job[c].plan)'
    BY <1>a, <1>h
  <2> QED BY <1>0, <1>a, <1>c, <2>1, <2>2, JobsSet
<1>3. Begun'
  BY <1>a DEF Begun, Working
<1>4. Held'
  <2>1. \A d \in Connections : loop'[d] \notin Handling \cup {"recv", "left"}
    BY <1>a DEF Handling
  <2> QED BY <2>1, Zenon DEF Held
<1>5. Quiet'
  BY <1>a, <1>b DEF Quiet
<1>6. Fetches'
  BY <1>0, <1>b, <1>e, FetchesKept
<1>7. RunningListenerIsCurrent'
  BY <1>a, <1>b, Zenon DEF RunningListenerIsCurrent
<1> QED BY <1>1, <1>2, <1>3, <1>4, <1>5, <1>6, <1>7 DEF IInv

\* The steps of a plan request once the plan is made.
LEMMA RequestStepKeeps ==
  ASSUME BoundsAssumption, OneConnection, IInv, TypeOK', NEW c \in Connections,
         \/ StartListener(c) \/ SessionCreated(c) \/ Prompted(c)
         \/ PlanResponse(c) \/ PlanRequestFails(c)
  PROVE  IInv'
<1> DEFINE j == job[c].plan
<1>0. TypeOK /\ Jobs /\ Begun /\ Fetches /\ Requests /\ Quiet /\ RunningListenerIsCurrent
  BY DEF IInv
<1>a. /\ loop \in [Connections -> Stages]
      /\ job \in [Connections -> JobType] /\ mail \in [Connections -> JobType]
      /\ plan \in [Plans -> PlanType] /\ session \in SessionType
      /\ listener \in [Plans -> ListenerType]
      /\ \A d \in Connections : d = c
  BY <1>0, TypesUnfolded, OneOwner
<1>b. loop[c] \in Working /\ j \in Plans /\ Newest(j) /\ InManager(j)
  <2>1. loop[c] \in Working
    BY DEF StartListener, SessionCreated, Prompted, PlanResponse, PlanRequestFails, Working
  <2> QED BY <1>0, <2>1 DEF Jobs, Newest
<1>c. KeepsManagers /\ mail' = mail
  <2>1. mail' = mail /\ (plan' = plan \/ plan' = [plan EXCEPT ![j].status = "draft"])
    BY DEF StartListener, SessionCreated, Prompted, Prompt, PlanResponse, PlanRequestFails,
           Respond
  <2> QED BY <1>a, <1>b, <2>1 DEF KeepsManagers, PlanType
<1>d. \A p \in Plans : /\ plan'[p].owner = plan[p].owner
                       /\ InManager(p)' <=> InManager(p)
                       /\ Newest(p)' <=> Newest(p)
  BY <1>c, ManagersKept
<1>e. \A p \in Plans : Newest(p)' => p = j
  BY <1>0, <1>b, <1>d, NewestIsOne
<1>f. \A p \in Plans : p \in {job[c].plan, mail[c].plan} => InManager(p)'
  BY <1>0, <1>d DEF Jobs
<1>g. \A l \in Plans : listener[l].stage \in Running => l \in failed \/ Newest(l)'
  <2>1. \A l \in Plans : listener[l].stage \in Running => l \in failed \/ Newest(l)
    BY <1>0, <1>b DEF Quiet
  <2> QED BY <1>d, <2>1
<1>1. Requests'
  BY <1>0, <1>c, RequestsKept
<1>2. Jobs'
  <2>1. CASE job' = job /\ loop'[c] \in Working
    <3>1. Newest(job[c].plan)'
      BY <1>b, <1>d, <2>1 DEF Newest, InManager, SameManager
    <3>2. \A p \in Plans : p \in {job'[c].plan, mail'[c].plan} => InManager(p)'
      BY <1>c, <1>f, <2>1
    <3> QED BY <1>0, <1>b, <2>1, <3>1, <3>2, JobsSet DEF Working
  <2>2. CASE Respond(c)
    <3>1. loop'[c] = "recv" /\ job'[c].plan = None
      BY <1>a, <2>2 DEF Respond, NoJob
    <3>2. \A p \in Plans : p \in {job'[c].plan, mail'[c].plan} => InManager(p)'
      BY <1>c, <1>f, <3>1 DEF Plans, None, BoundsAssumption
    <3> QED BY <1>0, <3>1, <3>2, JobsSet DEF Working
  <2>3. StartListener(c) \/ SessionCreated(c) \/ Prompted(c) =>
          job' = job /\ loop'[c] \in Working
    BY <1>a DEF StartListener, SessionCreated, Prompted, Prompt, Working
  <2> QED BY <2>1, <2>2, <2>3 DEF PlanResponse, PlanRequestFails
<1>3. Fetches'
  <2>1. \A l \in Plans : listener'[l].fetching \in {listener[l].fetching, None}
    BY <1>a DEF StartListener, SessionCreated, Prompted, Prompt, PlanResponse,
                PlanRequestFails, Listener
  <2> QED BY <1>0, <1>d, <2>1, FetchesKept
<1>4. CASE StartListener(c)
  <2>1. /\ loop[c] = "client" /\ loop'[c] = "create" /\ job' = job /\ failed' = failed
        /\ \A l \in Plans : listener'[l] = IF l = j THEN Listener("starting") ELSE listener[l]
    BY <1>a, <1>4 DEF StartListener
  <2>2. listener'[j].stage \in Running
    BY <1>b, <2>1 DEF Listener, Running
  <2>3. Begun'
    BY <1>a, <2>1, <2>2 DEF Begun
  <2>4. Held'
    <3>1. \A d \in Connections : loop'[d] \notin Handling \cup {"recv", "left"}
      BY <1>a, <2>1 DEF Handling
    <3> QED BY <3>1, Zenon DEF Held
  <2>5. \A l \in Plans : listener'[l].stage \in Running => l \in failed' \/ l = j
    BY <1>0, <2>1 DEF Quiet
  <2>6. \A l \in Plans : listener'[l].stage \in Running => l \in failed' \/ Newest(l)'
    BY <1>b, <1>d, <2>5, Zenon
  <2>7. RunningListenerIsCurrent' /\ Quiet'
    <3>1. \A d \in Connections : loop'[d] \notin {"client", "stopping"}
      BY <1>a, <2>1
    <3> QED BY <2>6, <3>1, Zenon DEF RunningListenerIsCurrent, Quiet
  <2> QED BY <1>1, <1>2, <1>3, <2>3, <2>4, <2>7 DEF IInv
<1>5. CASE SessionCreated(c)
  <2>1. /\ loop[c] = "create" /\ loop'[c] = "prompt" /\ job' = job /\ failed' = failed
        /\ listener' = listener /\ session'.known
    BY <1>a, <1>5 DEF SessionCreated, NewSession, NoSession
  <2>2. Begun'
    BY <1>0, <1>a, <2>1 DEF Begun, Working
  <2>3. Held'
    <3>1. \A d \in Connections : loop'[d] \notin Handling \cup {"recv", "left"}
      BY <1>a, <2>1 DEF Handling
    <3> QED BY <3>1, Zenon DEF Held
  <2>4. RunningListenerIsCurrent' /\ Quiet'
    <3>1. \A d \in Connections : loop'[d] \notin {"client", "stopping"}
      BY <1>a, <2>1
    <3>2. \A l \in Plans : listener'[l].stage \in Running => l \in failed' \/ Newest(l)'
      BY <1>g, <2>1
    <3> QED BY <3>1, <3>2, Zenon DEF RunningListenerIsCurrent, Quiet
  <2> QED BY <1>1, <1>2, <1>3, <2>2, <2>3, <2>4 DEF IInv
<1>6. CASE Prompted(c)
  <2>1. /\ loop[c] = "prompt" /\ loop'[c] = "prompted" /\ job' = job /\ failed' = failed
        /\ listener' = listener /\ session' = session
    BY <1>a, <1>6 DEF Prompted, Prompt
  <2>2. SideStep
    BY <1>a, <1>c, <2>1 DEF SideStep
  <2> QED BY <1>2, <1>3, <2>2, SideStepIInv
<1>7. CASE PlanResponse(c)
  <2>1. /\ loop[c] = "prompted" /\ loop'[c] = "recv" /\ failed' = failed
        /\ listener' = listener /\ session' = UpdateListener(j)
    BY <1>a, <1>7 DEF PlanResponse, Respond
  <2>2. session'.listener = j /\ listener'[j].stage \in Running \cup {"dead"}
    BY <1>0, <1>a, <2>1 DEF Begun, Working, UpdateListener, SessionType
  <2>3. Begun' /\ Quiet'
    <3>1. \A d \in Connections : loop'[d] \notin Working \cup {"stopping"}
      BY <1>a, <2>1 DEF Working
    <3> QED BY <3>1, Zenon DEF Begun, Quiet, Working
  <2>4. Held'
    BY <1>e, <2>2, Zenon DEF Held
  <2>5. RunningListenerIsCurrent'
    <3>1. \A l \in Plans : listener'[l].stage \in Running => l \in failed' \/ Newest(l)'
      BY <1>g, <2>1
    <3> QED BY <3>1, Zenon DEF RunningListenerIsCurrent
  <2> QED BY <1>1, <1>2, <1>3, <2>3, <2>4, <2>5 DEF IInv
<1>8. CASE PlanRequestFails(c)
  <2>1. loop'[c] = "recv" /\ failed' = failed \cup {j} /\ listener' = listener
    BY <1>a, <1>8 DEF PlanRequestFails, Respond
  <2>2. Begun' /\ Quiet'
    <3>1. \A d \in Connections : loop'[d] \notin Working \cup {"stopping"}
      BY <1>a, <2>1 DEF Working
    <3> QED BY <3>1, Zenon DEF Begun, Quiet, Working
  <2>3. Held'
    <3>1. \A p \in Plans : Newest(p)' => p \in failed'
      BY <1>e, <2>1
    <3> QED BY <3>1, Zenon DEF Held
  <2>4. RunningListenerIsCurrent'
    <3>1. \A l \in Plans : listener'[l].stage \in Running => l \in failed' \/ Newest(l)'
      BY <1>g, <2>1
    <3> QED BY <3>1, Zenon DEF RunningListenerIsCurrent
  <2> QED BY <1>1, <1>2, <1>3, <2>2, <2>3, <2>4 DEF IInv
<1> QED BY <1>4, <1>5, <1>6, <1>7, <1>8

LEMMA InitIInv == BoundsAssumption /\ Init => IInv
<1> SUFFICES ASSUME BoundsAssumption, Init PROVE IInv
  OBVIOUS
<1>1. TypeOK
  BY InitTyped
<1>2. /\ \A p \in Plans : plan[p] = NoPlan /\ NoPlan.owner = None
      /\ \A l \in Plans : listener[l].stage = "none" /\ listener[l].fetching = None
      /\ \A c \in Connections : loop[c] = "closed" /\ job[c].plan = None /\ mail[c].plan = None
  BY DEF Init, NoPlan, Listener, NoJob
<1>3. Requests /\ Begun /\ Held /\ Quiet /\ Fetches /\ RunningListenerIsCurrent
  BY <1>2 DEF Requests, Begun, Held, Quiet, Fetches, RunningListenerIsCurrent, Running,
              Working, Handling
<1>4. Jobs
  <2>1. None \notin Plans
    BY DEF None, Plans, BoundsAssumption
  <2>2. \A p \in Plans : ~ InManager(p)
    BY <1>2 DEF InManager
  <2> QED BY <1>2, <2>1, <2>2, Zenon DEF Jobs, Working
<1> QED BY <1>1, <1>3, <1>4 DEF IInv

LEMMA StutterKeeps ==
  ASSUME IInv, UNCHANGED vars
  PROVE  IInv'
<1>1. /\ loop' = loop /\ job' = job /\ mail' = mail /\ plan' = plan /\ session' = session
      /\ listener' = listener /\ told' = told /\ failed' = failed
      /\ opencode' = opencode /\ asked' = asked /\ asking' = asking
  BY DEF vars, loopVars, opencodeVars
<1>2. TypeOK'
  <2>1. /\ LoopTyped' /\ JobTyped' /\ MailTyped' /\ PlanTyped' /\ SessionTyped'
        /\ ListenerTyped' /\ OpenCodeTyped' /\ ToldTyped' /\ FailedTyped'
    BY <1>1, UnchangedTyped DEF IInv
  <2> QED BY <2>1, TypesByVariableNext
<1>3. Requests' /\ Begun' /\ Fetches'
  BY <1>1 DEF IInv, Requests, Begun, Fetches
<1>4. KeepsManagers
  BY <1>1 DEF KeepsManagers
<1>5. Jobs'
  BY <1>1, <1>4, JobsStay DEF IInv, loopVars
<1>6. \A p \in Plans : Newest(p)' <=> Newest(p)
  BY <1>4, ManagersKept
<1>7. Held' /\ Quiet' /\ RunningListenerIsCurrent'
  BY <1>1, <1>6, Zenon DEF IInv, Held, Quiet, RunningListenerIsCurrent
<1> QED BY <1>2, <1>3, <1>5, <1>7 DEF IInv

LEMMA Invariant == OneConnection => (Spec => []IInv)
<1> SUFFICES ASSUME OneConnection PROVE Spec => []IInv
  OBVIOUS
<1> USE BoundsAssumption
<1>1. Init => IInv
  BY InitIInv
<1>2. IInv /\ TypeOK' /\ [Next]_vars => IInv'
  <2> SUFFICES ASSUME IInv, TypeOK', [Next]_vars PROVE IInv'
    OBVIOUS
  <2>1. ASSUME NEW c \in Connections, LoopStep(c)
        PROVE  IInv'
    BY <2>1, ConnectKeeps, StopListenerKeeps, CloseKeeps, CleanupRaisesKeeps,
       PlanRequestKeeps, RequestStepKeeps, ConfirmationStepKeeps, Zenon DEF LoopStep
  <2>2. ASSUME NEW p \in Plans, ListenerStep(p) \/ OpenCodeStep(p)
        PROVE  IInv'
    BY <2>2, ListenerStepKeeps, OpenCodeStepKeeps
  <2> QED BY <2>1, <2>2, CrashKeeps, StutterKeeps DEF Next
<1> QED BY <1>1, <1>2, TypeCorrect, PTL DEF Spec

\* With one WebSocket at a time: whatever is requested, answered, lost, closed or
\* restarted, the only listener that runs for a client is that of the newest plan
\* of the connection that is there, but for those of failed requests and the one
\* that a connection left when its clean-up raised, which the SessionInfo holds.
THEOREM OneListenerRuns == OneConnection => (Spec => []RunningListenerIsCurrent)
<1>1. IInv => RunningListenerIsCurrent
  BY DEF IInv
<1> QED BY <1>1, Invariant, PTL

\* With one WebSocket at a time: between two messages of the client, the
\* SessionInfo holds the newest plan's listener, which can therefore be stopped.
THEOREM NewestListenerIsKept == OneConnection => (Spec => []NewestPlanIsListenedTo)
<1>1. IInv => NewestPlanIsListenedTo
  <2> SUFFICES ASSUME IInv, NEW p \in Plans, Newest(p), p \notin failed,
                      loop[plan[p].owner] = "recv"
               PROVE  session.listener = p /\ listener[p].stage \in Running \cup {"dead"}
    BY DEF NewestPlanIsListenedTo
  <2>1. plan[p].owner \in Connections
    BY TypesUnfolded DEF IInv, PlanType, Newest, InManager
  <2> QED BY <2>1 DEF IInv, Held
<1> QED BY <1>1, Invariant, PTL

(***************************************************************************)
(* Any number of connections: what becomes of pending questions.           *)
(***************************************************************************)

\* A session id is that of a plan that was made, and a request that has no session
\* yet is for a plan of its own connection that the SessionInfo does not have.
Owned ==
  /\ session.id # None => plan[session.id].status # "none"
  /\ \A c \in Connections :
       loop[c] \in Working =>
         /\ plan[job[c].plan].owner = c /\ plan[job[c].plan].status # "none"
         /\ loop[c] \in {"client", "create"} => job[c].plan # session.id

\* OpenCode numbers its questions, and does not wait for what was answered.
Numbered ==
  /\ \A q \in asking : q[2] <= asked
  /\ \A c \in Connections :
       loop[c] = "answered" => job[c].target \notin asking /\ job[c].target[2] <= asked

\* A plan that was made keeps its owner.
PlansStay ==
  \A p \in Plans : plan[p].status # "none" =>
    plan'[p].owner = plan[p].owner /\ plan'[p].status # "none"

LEMMA PlansStayMade ==
  ASSUME BoundsAssumption, TypeOK, [Next]_vars
  PROVE  PlansStay
<1>0. plan \in [Plans -> PlanType]
  BY TypesUnfolded
<1>a. ASSUME NEW p, NEW s \in {"draft", "confirmed", "needs_confirmation", "completed", "rejected"},
             plan' = [plan EXCEPT ![p].status = s]
      PROVE  PlansStay
  BY <1>0, <1>a DEF PlansStay, PlanType
<1>b. ASSUME NEW p, NEW s \in {"confirmed", "needs_confirmation"},
             plan' = [plan EXCEPT ![p].status = s, ![p].revision = @ + 1]
      PROVE  PlansStay
  BY <1>0, <1>b DEF PlansStay, PlanType
<1>c. ASSUME NEW ps, Drop(ps)
      PROVE  PlansStay
  BY <1>0, <1>c DEF PlansStay, PlanType, Drop
<1>d. ASSUME plan' = plan
      PROVE  PlansStay
  BY <1>d DEF PlansStay
<1>1. ASSUME NEW c \in Connections, LoopStep(c)
      PROVE  PlansStay
  <2>1. ASSUME NEW p \in NewPlan, PlanRequest(c, p)
        PROVE  PlansStay
    BY <1>0, <2>1 DEF PlanRequest, PlansStay, NewPlan, Requested, NoPlan
  <2>2. CASE Close(c) \/ CleanupRaises(c)
    BY <1>c, <2>2 DEF Close, CleanupRaises
  <2>3. CASE PlanResponse(c) \/ Reject(c) \/ AnswerEnds(c)
    BY <1>a, <2>3 DEF PlanResponse, Reject, AnswerEnds
  <2>4. CASE ContinueEnds(c)
    BY <1>b, <2>4 DEF ContinueEnds
  <2>5. CASE Connect(c) \/ Leave(c) \/ StopListener(c) \/ StartListener(c) \/ SessionCreated(c)
             \/ Prompted(c) \/ PlanRequestFails(c) \/ (\E p \in Plans : SendConfirmation(c, p))
    <3>1. plan' = plan
      BY <2>5 DEF Connect, Leave, StopListener, StartListener, SessionCreated, Prompted, Prompt,
                  PlanRequestFails, SendConfirmation
    <3> QED BY <1>d, <3>1
  <2>6. CASE Refuse(c) \/ Proceed(c) \/ Replied(c) \/ Continued(c) \/ ConfirmationFails(c)
    <3>1. plan' = plan
      BY <2>6 DEF Refuse, Proceed, Replied, Continued, Prompt, ConfirmationFails
    <3> QED BY <1>d, <3>1
  <2> QED BY <1>1, <2>1, <2>2, <2>3, <2>4, <2>5, <2>6 DEF LoopStep
<1>2. ASSUME NEW l \in Plans, ListenerStep(l)
      PROVE  PlansStay
  <2>1. CASE Subscribed(l) \/ Dies(l) \/ IdleEvent(l) \/ FetchFails(l)
    <3>1. plan' = plan
      BY <2>1 DEF Subscribed, Dies, IdleEvent, FetchFails
    <3> QED BY <1>d, <3>1
  <2>2. CASE QuestionEvent(l)
    <3>1. CASE ActiveBeside(l) = {}
      BY <1>d, <2>2, <3>1 DEF QuestionEvent
    <3>2. CASE ActiveBeside(l) # {}
      BY <1>b, <2>2, <3>2 DEF QuestionEvent
    <3> QED BY <3>1, <3>2
  <2>3. CASE Completed(l)
    <3> DEFINE p == listener[l].fetching
    <3>1. plan' = plan \/ plan' = [plan EXCEPT ![p].status = "completed"]
      BY <2>3 DEF Completed
    <3> HIDE DEF p
    <3> QED BY <1>a, <1>d, <3>1
  <2> QED BY <1>2, <2>1, <2>2, <2>3 DEF ListenerStep
<1>3. ASSUME NEW s \in Plans, OpenCodeStep(s)
      PROVE  PlansStay
  <2>1. plan' = plan
    BY <1>3 DEF OpenCodeStep, OpenCodeAsks, OpenCodeIdle
  <2> QED BY <1>d, <2>1
<1>4. CASE Crash
  BY <1>c, <1>4 DEF Crash
<1>5. CASE UNCHANGED vars
  BY <1>d, <1>5 DEF vars
<1> QED BY <1>1, <1>2, <1>3, <1>4, <1>5 DEF Next

\* The loop of a step that begins no request and creates no session.
LoopsGoOn ==
  /\ session'.id = session.id
  /\ \A d \in Connections :
       loop'[d] \in Working =>
         /\ loop[d] \in Working /\ job'[d] = job[d]
         /\ loop'[d] \in {"client", "create"} => loop[d] \in {"client", "create"}

LEMMA OwnedStays ==
  ASSUME TypeOK, AtWork, Owned, PlansStay, LoopsGoOn
  PROVE  Owned'
<1>1. session'.id # None => plan'[session'.id].status # "none"
  <2>1. session.id \in Plans \cup {None}
    BY TypesUnfolded DEF SessionType
  <2> QED BY <2>1 DEF Owned, PlansStay, LoopsGoOn
<1>2. ASSUME NEW d \in Connections, loop'[d] \in Working
      PROVE  /\ plan'[job'[d].plan].owner = d /\ plan'[job'[d].plan].status # "none"
             /\ loop'[d] \in {"client", "create"} => job'[d].plan # session'.id
  <2>1. loop[d] \in Working /\ job'[d] = job[d] /\ job[d].plan \in Plans
    BY <1>2 DEF LoopsGoOn, AtWork, Working
  <2> QED BY <1>2, <2>1 DEF Owned, PlansStay, LoopsGoOn
<1> QED BY <1>1, <1>2, Zenon DEF Owned

LEMMA OthersGoOn ==
  ASSUME TypeOK, NEW c \in Connections, LoopStep(c)
  PROVE  \A d \in Connections \ {c} : loop'[d] = loop[d] /\ job'[d] = job[d]
<1>0. loop \in [Connections -> Stages] /\ job \in [Connections -> JobType]
  BY TypesUnfolded
<1>1. ASSUME NEW p \in NewPlan, PlanRequest(c, p)
      PROVE  \A d \in Connections \ {c} : loop'[d] = loop[d] /\ job'[d] = job[d]
  BY <1>0, <1>1 DEF PlanRequest
<1>2. CASE Connect(c) \/ Leave(c) \/ StopListener(c) \/ Close(c) \/ CleanupRaises(c)
  BY <1>0, <1>2 DEF Connect, Leave, StopListener, Close, CleanupRaises
<1>3. CASE StartListener(c) \/ SessionCreated(c) \/ Prompted(c)
  BY <1>0, <1>3 DEF StartListener, SessionCreated, Prompted, Prompt
<1>4. CASE PlanResponse(c) \/ PlanRequestFails(c) \/ AnswerEnds(c) \/ ContinueEnds(c)
           \/ ConfirmationFails(c)
  <2>1. Respond(c)
    BY <1>4 DEF PlanResponse, PlanRequestFails, AnswerEnds, ContinueEnds, ConfirmationFails
  <2> QED BY <1>0, <2>1 DEF Respond
<1>5. CASE (\E p \in Plans : SendConfirmation(c, p)) \/ Refuse(c) \/ Reject(c)
  <2>1. loop' = loop /\ job' = job
    BY <1>5 DEF SendConfirmation, Refuse, Reject
  <2> QED BY <2>1
<1>6. CASE Proceed(c)
  BY <1>0, <1>6 DEF Proceed
<1>7. CASE Replied(c) \/ Continued(c)
  BY <1>0, <1>7 DEF Replied, Continued, Prompt
<1> QED BY <1>1, <1>2, <1>3, <1>4, <1>5, <1>6, <1>7 DEF LoopStep

\* Where the loop goes in a step, and what becomes of its job.
LEMMA LoopGoes ==
  ASSUME TypeOK, NEW c \in Connections, LoopStep(c)
  PROVE  \/ \E p \in NewPlan : PlanRequest(c, p)
         \/ SessionCreated(c)
         \/ loop'[c] = loop[c] /\ job'[c] = job[c]
         \/ loop[c] = "client" /\ loop'[c] = "create" /\ job'[c] = job[c]
         \/ loop[c] = "prompt" /\ loop'[c] = "prompted" /\ job'[c] = job[c]
         \/ Replied(c)
         \/ loop'[c] \notin Working \cup {"answered"}
<1>0. loop \in [Connections -> Stages] /\ job \in [Connections -> JobType]
  BY TypesUnfolded
<1> USE DEF Working
<1>2. CASE Connect(c) \/ Leave(c) \/ StopListener(c) \/ Close(c) \/ CleanupRaises(c)
  <2>1. loop'[c] \in {"recv", "left", "stopping", "closed"}
    BY <1>0, <1>2 DEF Connect, Leave, StopListener, Close, CleanupRaises
  <2> QED BY <2>1
<1>3. CASE StartListener(c) \/ Prompted(c)
  BY <1>0, <1>3 DEF StartListener, Prompted, Prompt
<1>4. CASE PlanResponse(c) \/ PlanRequestFails(c) \/ AnswerEnds(c) \/ ContinueEnds(c)
           \/ ConfirmationFails(c)
  <2>1. Respond(c)
    BY <1>4 DEF PlanResponse, PlanRequestFails, AnswerEnds, ContinueEnds, ConfirmationFails
  <2>2. loop'[c] = "recv"
    BY <1>0, <2>1 DEF Respond
  <2> QED BY <2>2
<1>5. CASE (\E p \in Plans : SendConfirmation(c, p)) \/ Refuse(c) \/ Reject(c)
  <2>1. loop' = loop /\ job' = job
    BY <1>5 DEF SendConfirmation, Refuse, Reject
  <2> QED BY <2>1
<1>6. CASE Proceed(c) \/ Continued(c)
  <2>1. loop'[c] \in {"continue", "answer", "continued"}
    BY <1>0, <1>6 DEF Proceed, Continued, Prompt
  <2> QED BY <2>1
<1> QED BY <1>2, <1>3, <1>4, <1>5, <1>6 DEF LoopStep

\* Only a new session and a crash change the session id.
LEMMA SessionIdStays ==
  ASSUME TypeOK, [Next]_vars
  PROVE  \/ session'.id = session.id
         \/ \E c \in Connections : SessionCreated(c)
         \/ Crash
<1>0. session \in SessionType
  BY TypesUnfolded
<1>a. ASSUME session' = session \/ (\E q : session' = SetPending(q))
                                \/ (\E l : session' = UpdateListener(l))
                                \/ session' = AbandonListener
      PROVE  session'.id = session.id
  BY <1>0, <1>a DEF SetPending, UpdateListener, AbandonListener, SessionType
<1>1. ASSUME NEW c \in Connections, LoopStep(c), ~ SessionCreated(c)
      PROVE  session'.id = session.id
  <2>1. CASE Connect(c) \/ Close(c) \/ CleanupRaises(c) \/ PlanResponse(c) \/ AnswerEnds(c)
    BY <1>a, <2>1 DEF Connect, Close, CleanupRaises, PlanResponse, AnswerEnds
  <2>2. CASE Leave(c) \/ StopListener(c) \/ (\E p \in NewPlan : PlanRequest(c, p))
             \/ StartListener(c) \/ Prompted(c) \/ PlanRequestFails(c)
    <3>1. session' = session
      BY <2>2 DEF Leave, StopListener, PlanRequest, StartListener, Prompted, Prompt,
                  PlanRequestFails
    <3> QED BY <1>a, <3>1
  <2>3. CASE (\E p \in Plans : SendConfirmation(c, p)) \/ Refuse(c) \/ Reject(c) \/ Proceed(c)
    <3>1. session' = session
      BY <2>3 DEF SendConfirmation, Refuse, Reject, Proceed, Receive
    <3> QED BY <1>a, <3>1
  <2>4. CASE Replied(c) \/ Continued(c) \/ ContinueEnds(c) \/ ConfirmationFails(c)
    <3>1. session' = session
      BY <2>4 DEF Replied, Continued, Prompt, ContinueEnds, ConfirmationFails
    <3> QED BY <1>a, <3>1
  <2> QED BY <1>1, <2>1, <2>2, <2>3, <2>4 DEF LoopStep
<1>2. ASSUME NEW l \in Plans, ListenerStep(l)
      PROVE  session'.id = session.id
  <2>1. session' = session \/ \E q : session' = SetPending(q)
    BY <1>2 DEF ListenerStep, Subscribed, Dies, QuestionEvent, IdleEvent, Completed, FetchFails
  <2> QED BY <1>a, <2>1
<1>3. ASSUME NEW s \in Plans, OpenCodeStep(s)
      PROVE  session'.id = session.id
  BY <1>3 DEF OpenCodeStep, OpenCodeAsks, OpenCodeIdle
<1>4. CASE UNCHANGED vars
  BY <1>4 DEF vars
<1> QED BY <1>1, <1>2, <1>3, <1>4 DEF Next

LEMMA OwnedKept ==
  ASSUME BoundsAssumption, TypeOK, AtWork, Owned, [Next]_vars
  PROVE  Owned'
<1>0. /\ PlansStay /\ plan \in [Plans -> PlanType] /\ loop \in [Connections -> Stages]
      /\ job \in [Connections -> JobType] /\ session.id \in Plans \cup {None}
      /\ None \notin Plans
  BY PlansStayMade, TypesUnfolded DEF SessionType, Plans, None, BoundsAssumption
<1>a. ASSUME NEW c \in Connections, LoopStep(c)
      PROVE  \A d \in Connections \ {c} : loop'[d] = loop[d] /\ job'[d] = job[d]
  BY <1>a, OthersGoOn
<1>1. ASSUME NEW c \in Connections, NEW p \in NewPlan, PlanRequest(c, p)
      PROVE  Owned'
  <2>1. /\ p \in Plans /\ plan[p] = NoPlan /\ plan' = [plan EXCEPT ![p] = NewDraft(c)]
        /\ session' = session /\ loop'[c] = "client" /\ job'[c].plan = p
    BY <1>0, <1>1 DEF PlanRequest, NewPlan, Requested, NoJob
  <2>2. plan'[p].owner = c /\ plan'[p].status = "draft" /\ plan[p].status = "none"
    BY <1>0, <2>1 DEF NewDraft, NoPlan
  <2>3. session'.id # None => plan'[session'.id].status # "none"
    BY <1>0, <2>1 DEF Owned, PlansStay
  <2>4. p # session'.id
    BY <1>0, <2>1, <2>2 DEF Owned
  <2>5. \A d \in Connections \ {c} : loop'[d] = loop[d] /\ job'[d] = job[d]
    BY <1>1, <1>a DEF LoopStep
  <2>6. ASSUME NEW d \in Connections \ {c}, loop'[d] \in Working
        PROVE  /\ plan'[job'[d].plan].owner = d /\ plan'[job'[d].plan].status # "none"
               /\ loop'[d] \in {"client", "create"} => job'[d].plan # session'.id
    <3>1. loop[d] \in Working /\ job'[d] = job[d] /\ job[d].plan \in Plans
      BY <2>5, <2>6 DEF AtWork, Working
    <3> QED BY <1>0, <2>1, <2>5, <2>6, <3>1 DEF Owned, PlansStay
  <2>7. \A d \in Connections : loop'[d] \in Working =>
          /\ plan'[job'[d].plan].owner = d /\ plan'[job'[d].plan].status # "none"
          /\ loop'[d] \in {"client", "create"} => job'[d].plan # session'.id
    BY <2>1, <2>2, <2>4, <2>6
  <2> QED BY <2>3, <2>7, Zenon DEF Owned
<1>2. ASSUME NEW c \in Connections, SessionCreated(c)
      PROVE  Owned'
  <2>1. /\ loop[c] = "create" /\ loop'[c] = "prompt" /\ job' = job /\ plan' = plan
        /\ session'.id = job[c].plan
    BY <1>0, <1>2 DEF SessionCreated, NewSession, NoSession
  <2>2. /\ plan[job[c].plan].owner = c /\ plan[job[c].plan].status # "none"
    BY <2>1 DEF Owned, Working
  <2>3. \A d \in Connections \ {c} : loop'[d] = loop[d]
    BY <1>2, <1>a DEF LoopStep
  <2>4. ASSUME NEW d \in Connections, loop'[d] \in Working
        PROVE  /\ plan[job[d].plan].owner = d /\ plan[job[d].plan].status # "none"
               /\ loop'[d] \in {"client", "create"} => job[d].plan # job[c].plan
    <3>1. CASE d = c
      BY <2>1, <2>2, <3>1
    <3>2. CASE d # c
      BY <2>2, <2>3, <2>4, <3>2 DEF Owned
    <3> QED BY <3>1, <3>2
  <2>5. \A d \in Connections : loop'[d] \in Working =>
          /\ plan'[job'[d].plan].owner = d /\ plan'[job'[d].plan].status # "none"
          /\ loop'[d] \in {"client", "create"} => job'[d].plan # session'.id
    BY <2>1, <2>4
  <2>6. session'.id # None => plan'[session'.id].status # "none"
    BY <2>1, <2>2
  <2> QED BY <2>5, <2>6, Zenon DEF Owned
<1>3. CASE Crash
  <2>1. session'.id = None /\ \A d \in Connections : loop'[d] = "closed"
    BY <1>3 DEF Crash, NoSession
  <2> QED BY <2>1, Zenon DEF Owned, Working
<1>4. ASSUME session'.id = session.id, NEW c \in Connections, LoopStep(c),
             ~ (\E p \in NewPlan : PlanRequest(c, p)), ~ SessionCreated(c)
      PROVE  Owned'
  <2>1. ASSUME NEW d \in Connections, loop'[d] \in Working
        PROVE  /\ loop[d] \in Working /\ job'[d] = job[d]
               /\ loop'[d] \in {"client", "create"} => loop[d] \in {"client", "create"}
    <3>1. CASE d = c
      <4>1. loop'[c] = "answered" \/ ~ Replied(c)
        BY <1>0 DEF Replied
      <4> QED BY <1>4, <2>1, <3>1, <4>1, LoopGoes DEF Working
    <3>2. CASE d # c
      BY <1>4, <1>a, <2>1, <3>2
    <3> QED BY <3>1, <3>2
  <2>2. LoopsGoOn
    BY <1>4, <2>1 DEF LoopsGoOn
  <2> QED BY <1>0, <2>2, OwnedStays
<1>5. ASSUME UNCHANGED <<loop, job>>, session'.id = session.id
      PROVE  Owned'
  <2>1. LoopsGoOn
    BY <1>5 DEF LoopsGoOn
  <2> QED BY <1>0, <2>1, OwnedStays
<1>6. CASE ~ (\E c \in Connections : LoopStep(c)) /\ ~ Crash
  <2>1. UNCHANGED <<loop, job>>
    <3>1. ASSUME NEW l \in Plans, ListenerStep(l)
          PROVE  UNCHANGED <<loop, job>>
      BY <3>1 DEF ListenerStep, Subscribed, Dies, QuestionEvent, IdleEvent, Completed, FetchFails,
                  loopVars
    <3>2. ASSUME NEW s \in Plans, OpenCodeStep(s)
          PROVE  UNCHANGED <<loop, job>>
      BY <3>2 DEF OpenCodeStep, OpenCodeAsks, OpenCodeIdle, loopVars
    <3>3. UNCHANGED vars => UNCHANGED <<loop, job>>
      BY DEF vars, loopVars
    <3> QED BY <1>6, <3>1, <3>2, <3>3 DEF Next
  <2>2. session'.id = session.id
    BY <1>6, SessionIdStays DEF LoopStep
  <2> QED BY <1>5, <2>1, <2>2
<1>7. ASSUME NEW c \in Connections, LoopStep(c)
      PROVE  Owned'
  <2>1. CASE SessionCreated(c) \/ \E p \in NewPlan : PlanRequest(c, p)
    BY <1>1, <1>2, <2>1
  <2>2. CASE ~ SessionCreated(c) /\ ~ \E p \in NewPlan : PlanRequest(c, p)
    <3>1. CASE session'.id = session.id
      BY <1>4, <1>7, <2>2, <3>1
    <3>2. CASE session'.id # session.id
      BY <1>2, <1>3, <3>2, SessionIdStays
    <3> QED BY <3>1, <3>2
  <2> QED BY <2>1, <2>2
<1> QED BY <1>3, <1>6, <1>7

LEMMA NumberedKept ==
  ASSUME BoundsAssumption, TypeOK, Numbered, [Next]_vars
  PROVE  Numbered'
<1>0. /\ loop \in [Connections -> Stages] /\ job \in [Connections -> JobType]
      /\ asked \in Nat /\ asking \subseteq Questions
  BY TypesUnfolded DEF TypeOK, BoundsAssumption
<1>a. ASSUME asked' = asked, asking' \subseteq asking,
             \A d \in Connections : loop'[d] = "answered" =>
               \/ loop[d] = "answered" /\ job'[d] = job[d]
               \/ job'[d].target \notin asking' /\ job'[d].target[2] <= asked
      PROVE  Numbered'
  BY <1>a DEF Numbered
<1>1. ASSUME NEW c \in Connections, LoopStep(c)
      PROVE  Numbered'
  <2>1. \A d \in Connections \ {c} : loop'[d] = loop[d] /\ job'[d] = job[d]
    BY <1>1, OthersGoOn
  <2>2. CASE Replied(c)
    <3>1. /\ asked' = asked /\ asking' = asking \ {job[c].target} /\ job' = job
          /\ job[c].target \in asking
      BY <2>2 DEF Replied
    <3>2. job'[c].target \notin asking' /\ job'[c].target[2] <= asked
      BY <3>1 DEF Numbered
    <3> QED BY <1>a, <2>1, <3>1, <3>2
  <2>3. CASE ~ Replied(c)
    <3>1. loop'[c] = "answered" => loop[c] = "answered" /\ job'[c] = job[c]
      <4>1. ASSUME NEW p \in NewPlan, PlanRequest(c, p)
            PROVE  loop'[c] = "client"
        BY <1>0, <4>1 DEF PlanRequest
      <4>2. SessionCreated(c) => loop'[c] = "prompt"
        BY <1>0 DEF SessionCreated
      <4> QED BY <1>1, <2>3, <4>1, <4>2, LoopGoes
    <3>2. asked' = asked /\ asking' = asking
      <4>1. CASE Connect(c) \/ Leave(c) \/ StopListener(c) \/ Close(c) \/ CleanupRaises(c)
                 \/ (\E p \in NewPlan : PlanRequest(c, p)) \/ StartListener(c) \/ SessionCreated(c)
        BY <4>1 DEF Connect, Leave, StopListener, Close, CleanupRaises, PlanRequest, StartListener,
                    SessionCreated, opencodeVars
      <4>2. CASE Prompted(c) \/ PlanResponse(c) \/ PlanRequestFails(c)
                 \/ (\E p \in Plans : SendConfirmation(c, p))
        BY <4>2 DEF Prompted, Prompt, PlanResponse, PlanRequestFails, SendConfirmation,
                    opencodeVars
      <4>3. CASE Refuse(c) \/ Reject(c) \/ Proceed(c) \/ AnswerEnds(c)
        BY <4>3 DEF Refuse, Reject, Proceed, Receive, AnswerEnds, opencodeVars
      <4>4. CASE Continued(c) \/ ContinueEnds(c) \/ ConfirmationFails(c)
        BY <4>4 DEF Continued, Prompt, ContinueEnds, ConfirmationFails, opencodeVars
      <4> QED BY <1>1, <2>3, <4>1, <4>2, <4>3, <4>4 DEF LoopStep
    <3> QED BY <1>a, <2>1, <3>1, <3>2
  <2> QED BY <2>2, <2>3
<1>2. ASSUME NEW l \in Plans, ListenerStep(l)
      PROVE  Numbered'
  <2>1. UNCHANGED <<loop, job, asked, asking>>
    BY <1>2 DEF ListenerStep, Subscribed, Dies, QuestionEvent, IdleEvent, Completed, FetchFails,
                loopVars, opencodeVars
  <2> QED BY <1>a, <2>1
<1>3. ASSUME NEW s \in Plans, OpenCodeAsks(s)
      PROVE  Numbered'
  <2>1. loop' = loop /\ job' = job /\ asked' = asked + 1 /\ asking' = asking \cup {<<s, asked + 1>>}
    BY <1>3 DEF OpenCodeAsks, loopVars
  <2>2. \A q \in asking' : q[2] <= asked'
    <3>1. \A q \in asking : q[2] \in Nat
      BY <1>0 DEF Questions, BoundsAssumption
    <3> QED BY <1>0, <2>1, <3>1 DEF Numbered
  <2>3. ASSUME NEW c \in Connections, loop'[c] = "answered"
        PROVE  job'[c].target \notin asking' /\ job'[c].target[2] <= asked'
    <3>1. job[c].target \notin asking /\ job[c].target[2] <= asked
      BY <2>1, <2>3 DEF Numbered
    <3>2. job[c].target[2] \in Nat
      BY <1>0 DEF JobType, Questions, NoQuestion, BoundsAssumption
    <3>3. job[c].target # <<s, asked + 1>>
      BY <1>0, <3>1, <3>2
    <3> QED BY <1>0, <2>1, <3>1, <3>2, <3>3
  <2> QED BY <2>2, <2>3 DEF Numbered
<1>4. ASSUME NEW s \in Plans, OpenCodeIdle(s)
      PROVE  Numbered'
  <2>1. UNCHANGED <<loop, job, asked, asking>>
    BY <1>4 DEF OpenCodeIdle, loopVars
  <2> QED BY <1>a, <2>1
<1>5. CASE Crash
  BY <1>5, <1>a DEF Crash
<1>6. CASE UNCHANGED vars
  <2>1. UNCHANGED <<loop, job, asked, asking>>
    BY <1>6 DEF vars, loopVars, opencodeVars
  <2> QED BY <1>a, <2>1
<1> QED BY <1>1, <1>2, <1>3, <1>4, <1>5, <1>6 DEF Next, OpenCodeStep

\* The action of QuestionForgottenOnlyWhenOvertaken, as a predicate of one step.
ForgottenOnlyWhenOvertaken ==
  session.pending \in asking' /\ session'.pending = NoQuestion =>
    \/ ~ session'.known \/ session'.id # session.id
    \/ \E c \in Connections : loop[c] = "answered" /\ job[c].target # session.pending

LEMMA StepForgetsOnlyWhenOvertaken ==
  ASSUME BoundsAssumption, TypeOK, TypeOK', Owned, Numbered, [Next]_vars
  PROVE  ForgottenOnlyWhenOvertaken
<1> SUFFICES ASSUME session.pending \in asking', session'.pending = NoQuestion,
                    session'.known, session'.id = session.id
             PROVE  \E c \in Connections : loop[c] = "answered" /\ job[c].target # session.pending
  BY DEF ForgottenOnlyWhenOvertaken
<1>0. /\ session \in SessionType /\ asking \subseteq Questions /\ asking' \subseteq Questions
      /\ listener \in [Plans -> ListenerType] /\ NoQuestion \notin Questions
  <2>1. asking \subseteq Questions /\ asking' \subseteq Questions
    BY TypesByVariable, TypesByVariableNext DEF OpenCodeTyped
  <2>2. NoQuestion \notin Questions
    BY DEF NoQuestion, Questions, Plans, BoundsAssumption
  <2> QED BY <2>1, <2>2, TypesUnfolded
<1>a. session' # session /\ session.pending # NoQuestion
  BY <1>0
<1>b. ASSUME NEW l, session' = UpdateListener(l)
      PROVE  FALSE
  BY <1>0, <1>a, <1>b DEF UpdateListener, SessionType
<1>d. ASSUME session' = AbandonListener
      PROVE  FALSE
  BY <1>0, <1>a, <1>d DEF AbandonListener, SessionType
<1>c. ASSUME NEW q \in Questions, session' = SetPending(q)
      PROVE  FALSE
  BY <1>0, <1>a, <1>c DEF SetPending, SessionType
<1>1. ASSUME NEW c \in Connections, LoopStep(c), ~ AnswerEnds(c)
      PROVE  FALSE
  <2>1. CASE Connect(c)
    <3>1. PICK q \in asking \cup {session.pending} : session' = SetPending(q)
      BY <2>1 DEF Connect
    <3> QED BY <1>0, <1>c, <3>1
  <2>2. CASE Close(c) \/ CleanupRaises(c) \/ PlanResponse(c)
    BY <1>b, <1>d, <2>2 DEF Close, CleanupRaises, PlanResponse
  <2>3. CASE SessionCreated(c)
    <3>1. loop[c] = "create" /\ session'.id = job[c].plan
      BY <1>0, <2>3 DEF SessionCreated, NewSession, NoSession
    <3> QED BY <3>1 DEF Owned, Working
  <2>4. CASE Leave(c) \/ StopListener(c) \/ (\E p \in NewPlan : PlanRequest(c, p))
             \/ StartListener(c) \/ Prompted(c) \/ PlanRequestFails(c)
    <3>1. session' = session
      BY <2>4 DEF Leave, StopListener, PlanRequest, StartListener, Prompted, Prompt,
                  PlanRequestFails
    <3> QED BY <1>a, <3>1
  <2>5. CASE (\E p \in Plans : SendConfirmation(c, p)) \/ Refuse(c) \/ Reject(c) \/ Proceed(c)
    <3>1. session' = session
      BY <2>5 DEF SendConfirmation, Refuse, Reject, Proceed, Receive
    <3> QED BY <1>a, <3>1
  <2>6. CASE Replied(c) \/ Continued(c) \/ ContinueEnds(c) \/ ConfirmationFails(c)
    <3>1. session' = session
      BY <2>6 DEF Replied, Continued, Prompt, ContinueEnds, ConfirmationFails
    <3> QED BY <1>a, <3>1
  <2> QED BY <1>1, <2>1, <2>2, <2>3, <2>4, <2>5, <2>6 DEF LoopStep
<1>2. ASSUME NEW c \in Connections, AnswerEnds(c)
      PROVE  loop[c] = "answered" /\ job[c].target # session.pending
  <2>1. loop[c] = "answered" /\ asking' = asking
    BY <1>2 DEF AnswerEnds, opencodeVars
  <2> QED BY <2>1 DEF Numbered
<1>3. ASSUME NEW l \in Plans, ListenerStep(l)
      PROVE  FALSE
  <2>1. QuestionEvent(l)
    <3>1. Subscribed(l) \/ Dies(l) \/ IdleEvent(l) \/ FetchFails(l) \/ Completed(l)
            => session' = session
      BY DEF Subscribed, Dies, IdleEvent, Completed, FetchFails
    <3> QED BY <1>3, <1>a, <3>1 DEF ListenerStep
  <2> DEFINE event == Head(listener[l].queue)
  <2>2. event \in EventType /\ event.type = "question" /\ session' = SetPending(event.question)
    BY <1>0, <2>1 DEF QuestionEvent, NextEvent, ListenerType
  <2> HIDE DEF event
  <2>3. event.question \in Questions
    BY <2>2 DEF EventType
  <2> QED BY <1>c, <2>2, <2>3
<1>4. ASSUME NEW s \in Plans, OpenCodeStep(s)
      PROVE  FALSE
  BY <1>4, <1>a DEF OpenCodeStep, OpenCodeAsks, OpenCodeIdle
<1>5. CASE Crash
  BY <1>5 DEF Crash, NoSession
<1>6. CASE UNCHANGED vars
  BY <1>6, <1>a DEF vars
<1> QED BY <1>1, <1>2, <1>3, <1>4, <1>5, <1>6 DEF Next

\* With any number of connections: whatever is refused, fails, is continued, dies
\* or is restarted, a question that OpenCode waits for is dropped from the live
\* SessionInfo only by a reply to another question that returns late.
THEOREM QuestionsAreKept == Spec => QuestionForgottenOnlyWhenOvertaken
<1> USE BoundsAssumption
<1>1. Init => TypeOK /\ AtWork /\ Owned /\ Numbered
  <2> SUFFICES ASSUME Init PROVE TypeOK /\ AtWork /\ Owned /\ Numbered
    OBVIOUS
  <2>1. session.id = None /\ asking = {} /\ \A c \in Connections : loop[c] = "closed"
    <3>1. session.id = None
      BY DEF Init, NoSession
    <3> QED BY <3>1 DEF Init
  <2> QED BY <2>1, InitTyped DEF AtWork, Owned, Numbered, Working
<1>2. /\ TypeOK /\ TypeOK' /\ AtWork /\ Owned /\ Numbered /\ [Next]_vars
      => /\ AtWork' /\ Owned' /\ Numbered'
         /\ [ForgottenOnlyWhenOvertaken]_vars
  BY AtWorkKept, OwnedKept, NumberedKept, StepForgetsOnlyWhenOvertaken
<1>3. QuestionForgottenOnlyWhenOvertaken <=> [][ForgottenOnlyWhenOvertaken]_vars
  BY Zenon DEF QuestionForgottenOnlyWhenOvertaken, ForgottenOnlyWhenOvertaken
<1> QED BY <1>1, <1>2, <1>3, TypeCorrect, PTL DEF Spec
================================================================================
