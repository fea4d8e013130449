--------------------------- MODULE PlanAnswers_proofs ---------------------------
(***************************************************************************)
(* Proof that, with one connection at a time and one plan, an answer is    *)
(* never posted to OpenCode as the answer to another question than the one *)
(* the client was shown last (ShownQuestionIsAnswered of PlanFlow).        *)
(*                                                                         *)
(* A question is in four places: in the queue of the listener, pending in  *)
(* the SessionInfo, shown to the client, and in a confirmation under way.  *)
(* The argument is about a question that was shown at the revision that    *)
(* the plan still has: such a view is open.  What is pending is then the   *)
(* question of the view or nothing, since a question that becomes pending  *)
(* raises the revision; it does so only if the plan is active, and that    *)
(* the plan is active while OpenCode can ask is the hard part.             *)
(***************************************************************************)
EXTENDS PlanFlow_proofs

\* p is the only plan that was ever requested, its request did not fail, and its
\* connection is there.
Alone(p) == Requested = {p} /\ failed = {} /\ plan[p].status # "dropped"

\* Queued questions are open, in the order in which they were asked, and after
\* a question nothing but questions is queued.
InOrder(queue, open) ==
  \A i \in DOMAIN queue : queue[i].type = "question" =>
    /\ queue[i].question \in open
    /\ \A j \in DOMAIN queue : i < j =>
         queue[j].type = "question" /\ queue[i].question[2] < queue[j].question[2]

\* They are later than number n.
After(queue, n) ==
  \A i \in DOMAIN queue : queue[i].type = "question" => n < queue[i].question[2]

\* The listener's queue: in order, and later than what is pending or being answered.
Queued(p, c) ==
  /\ InOrder(listener[p].queue, asking)
  /\ After(listener[p].queue, session.pending[2])
  /\ After(listener[p].queue, job[c].target[2])

\* A session with an open question is busy.
Waiting(p) == asking # {} => opencode[p] = "busy"

\* Before the first prompt nothing was asked, and a listener runs without a
\* SessionInfo only until the session is created.
Preparing(p, c) ==
  /\ loop[c] \in {"client", "create", "prompt"} =>
       /\ opencode[p] = "idle"
       /\ told[p].question = NoQuestion /\ mail[c].shown.question = NoQuestion
  /\ ~ session.known /\ listener[p].stage \in Running => loop[c] = "create"

\* The question shown last is the pending one, and the plan waits for it.
ToldIsPending(p) ==
  told[p].question # NoQuestion =>
    /\ told[p].revision = plan[p].revision /\ plan[p].status = "needs_confirmation"
    /\ session.pending = told[p].question

\* What the client was shown is open while the plan has the revision of that time.
OpenView(p, view) == view.question # NoQuestion /\ view.revision = plan[p].revision

\* A confirmation under way is of a revision that the plan has had, and while it is
\* open no other question than the confirmation's is pending.
MailIsPending(p, c) ==
  LET view == mail[c].shown
  IN /\ view.question # NoQuestion => view.revision <= plan[p].revision
     /\ OpenView(p, view) => session.pending \in {view.question, NoQuestion}

\* As long as a question was shown at the current revision, a session that may ask
\* has a plan that is active and not about to be completed.
OpenIsActive(p, c) ==
  \A view \in {told[p], mail[c].shown} : OpenView(p, view) /\ opencode[p] = "busy" =>
    /\ plan[p].status \in Active /\ listener[p].stage # "fetching"
    /\ \A i \in DOMAIN listener[p].queue : listener[p].queue[i].type = "question"

\* A plan that is being continued has such a view only of a question that OpenCode
\* waits for: the next prompt cannot be the one that makes the session busy.
OpenIsAsked(p, c) ==
  \A view \in {told[p], mail[c].shown} :
    OpenView(p, view) /\ loop[c] \in {"continue", "continued"} => view.question \in asking

\* The property, for one connection.
Answered(c) == loop[c] = "answer" => job[c].shown.question \in {job[c].target, NoQuestion}

Local(p, c) ==
  /\ Queued(p, c) /\ Waiting(p) /\ Preparing(p, c) /\ ToldIsPending(p) /\ MailIsPending(p, c)
  /\ OpenIsActive(p, c) /\ OpenIsAsked(p, c) /\ Answered(c)

\* Nothing happens to a plan before it is requested.
Untouched ==
  \A p \in Plans : plan[p] = NoPlan =>
    opencode[p] = "idle" /\ told[p] = Unheard /\ \A q \in asking : q[1] # p

\* Questions are numbered as they are asked.
Counted ==
  /\ session.pending[2] <= asked /\ \A q \in asking : q[2] <= asked
  /\ \A c \in Connections : job[c].target[2] <= asked
  /\ \A l \in Plans : \A i \in DOMAIN listener[l].queue :
       listener[l].queue[i].question[2] <= asked

\* What is confirmed is a plan, and a listener that does not run has no events.
Addressed ==
  \A c \in Connections : /\ mail[c] # NoJob => mail[c].plan \in Plans
                         /\ loop[c] \in Handling => job[c].plan \in Plans
\* A listener is that of a plan.
Started == \A l \in Plans : plan[l] = NoPlan => listener[l].stage \notin Running
Emptied == \A l \in Plans : listener[l].stage \notin Running => listener[l].queue = << >>

Basis == IInv /\ Owned /\ Untouched /\ Started /\ Counted /\ Addressed /\ Emptied

AInv == Basis /\ \A p \in Plans, c \in Connections : Alone(p) => Local(p, c)

-----------------------------------------------------------------------------
(* Queues of events. *)

LEMMA QueueTail ==
  ASSUME NEW queue \in Seq(EventType), queue # << >>, NEW open, InOrder(queue, open)
  PROVE  /\ InOrder(Tail(queue), open)
         /\ \A n : After(queue, n) => After(Tail(queue), n)
         /\ Head(queue).type = "question" =>
              /\ Head(queue).question \in open
              /\ After(Tail(queue), Head(queue).question[2])
              /\ \A i \in DOMAIN Tail(queue) : Tail(queue)[i].type = "question"
         /\ (\A i \in DOMAIN queue : queue[i].type = "question") =>
              Head(queue).type = "question"
<1>1. \A i \in DOMAIN Tail(queue) : i + 1 \in DOMAIN queue /\ Tail(queue)[i] = queue[i + 1]
                                    /\ i \in Nat /\ 1 < i + 1
  OBVIOUS
<1>2. 1 \in DOMAIN queue /\ Head(queue) = queue[1]
  OBVIOUS
<1>3. \A i, j \in DOMAIN Tail(queue) : i < j => i + 1 < j + 1
  BY <1>1
<1>4. InOrder(Tail(queue), open)
  BY <1>1, <1>3 DEF InOrder
<1>5. \A n : After(queue, n) => After(Tail(queue), n)
  BY <1>1 DEF After
<1>6. ASSUME Head(queue).type = "question"
      PROVE  /\ Head(queue).question \in open
             /\ \A i \in DOMAIN Tail(queue) :
                  /\ Tail(queue)[i].type = "question"
                  /\ Head(queue).question[2] < Tail(queue)[i].question[2]
  BY <1>1, <1>2, <1>6 DEF InOrder
<1> QED BY <1>2, <1>4, <1>5, <1>6 DEF After

LEMMA AppendAt ==
  ASSUME NEW queue \in Seq(EventType), NEW event \in EventType
  PROVE  \A i \in DOMAIN Append(queue, event) :
           \/ i \in DOMAIN queue /\ Append(queue, event)[i] = queue[i]
           \/ /\ Append(queue, event)[i] = event
              /\ \A j \in DOMAIN queue : ~ (i < j)
              /\ \A j \in DOMAIN Append(queue, event) : ~ (i < j)
OBVIOUS

\* A new question is later than all.
LEMMA QueueAsked ==
  ASSUME NEW queue \in Seq(EventType), NEW open, InOrder(queue, open),
         NEW event \in EventType, event.type = "question", NEW n \in Nat,
         event.question[2] = n + 1,
         \A q \in open : q[2] \in Nat /\ q[2] <= n
  PROVE  /\ InOrder(Append(queue, event), open \cup {event.question})
         /\ \A m \in Nat : m <= n /\ After(queue, m) => After(Append(queue, event), m)
<1> DEFINE longer == Append(queue, event)
<1>1. \A i \in DOMAIN longer :
        \/ i \in DOMAIN queue /\ longer[i] = queue[i]
        \/ longer[i] = event /\ \A j \in DOMAIN longer : ~ (i < j)
  BY AppendAt, Zenon
<1> HIDE DEF longer
<1>2. ASSUME NEW i \in DOMAIN queue, queue[i].type = "question"
      PROVE  queue[i].question \in open /\ queue[i].question[2] < event.question[2]
  BY <1>2 DEF InOrder
<1>3. InOrder(longer, open \cup {event.question})
  <2> SUFFICES ASSUME NEW i \in DOMAIN longer, longer[i].type = "question"
               PROVE  /\ longer[i].question \in open \cup {event.question}
                      /\ \A j \in DOMAIN longer : i < j =>
                           longer[j].type = "question"
                           /\ longer[i].question[2] < longer[j].question[2]
    BY DEF InOrder
  <2>1. CASE longer[i] = event /\ \A j \in DOMAIN longer : ~ (i < j)
    BY <2>1
  <2>2. CASE i \in DOMAIN queue /\ longer[i] = queue[i]
    <3>1. ASSUME NEW j \in DOMAIN longer, i < j
          PROVE  longer[j].type = "question" /\ queue[i].question[2] < longer[j].question[2]
      BY <1>1, <1>2, <2>2, <3>1 DEF InOrder
    <3> QED BY <1>2, <2>2, <3>1
  <2> QED BY <1>1, <2>1, <2>2
<1>4. ASSUME NEW m \in Nat, m <= n, After(queue, m)
      PROVE  After(longer, m)
  BY <1>1, <1>4 DEF After
<1> QED BY <1>3, <1>4 DEF longer

\* An idle event is queued when no question is.
LEMMA QueueIdle ==
  ASSUME NEW queue \in Seq(EventType), InOrder(queue, {}),
         NEW event \in EventType, event.type # "question"
  PROVE  InOrder(Append(queue, event), {}) /\ \A n : After(Append(queue, event), n)
<1> DEFINE longer == Append(queue, event)
<1>1. \A i \in DOMAIN longer :
        \/ i \in DOMAIN queue /\ longer[i] = queue[i]
        \/ longer[i] = event
  BY AppendAt, Zenon
<1> HIDE DEF longer
<1>2. \A i \in DOMAIN longer : longer[i].type # "question"
  BY <1>1 DEF InOrder
<1> QED BY <1>2 DEF InOrder, After, longer

-----------------------------------------------------------------------------
(* The only plan, and steps that ask and show nothing. *)

LEMMA AloneTypes ==
  ASSUME BoundsAssumption, TypeOK, NEW p \in Plans, NEW c \in Connections
  PROVE  /\ told[p] \in ToldType /\ mail[c] \in JobType /\ job[c] \in JobType
         /\ mail[c].shown \in ToldType /\ job[c].shown \in ToldType
         /\ plan[p] \in PlanType /\ plan[p].revision \in Nat
         /\ session \in SessionType /\ session.pending[2] \in Nat
         /\ session.pending \in Questions \cup {NoQuestion}
         /\ job[c].target \in Questions \cup {NoQuestion} /\ job[c].target[2] \in Nat
         /\ listener[p] \in ListenerType /\ listener[p].queue \in Seq(EventType)
         /\ asked \in Nat /\ asking \subseteq Questions
         /\ \A q \in Questions \cup {NoQuestion} : q[2] \in Nat
         /\ None \notin Plans /\ NoQuestion \notin Questions
<1>1. /\ told[p] \in ToldType /\ mail[c] \in JobType /\ job[c] \in JobType
      /\ plan[p] \in PlanType /\ session \in SessionType /\ listener[p] \in ListenerType
  BY TypesByVariable, TypesUnfolded DEF ToldTyped
<1>2. asked \in Nat /\ asking \subseteq Questions
  BY TypesByVariable DEF OpenCodeTyped, BoundsAssumption
<1>3. \A q \in Questions \cup {NoQuestion} : q[2] \in Nat
  BY DEF Questions, NoQuestion, BoundsAssumption
<1>4. None \notin Plans /\ NoQuestion \notin Questions
  BY DEF None, NoQuestion, Questions, Plans, BoundsAssumption
<1>5. /\ session.pending \in Questions \cup {NoQuestion}
      /\ job[c].target \in Questions \cup {NoQuestion}
  BY <1>1 DEF SessionType, JobType
<1>6. mail[c].shown \in ToldType /\ job[c].shown \in ToldType /\ plan[p].revision \in Nat
      /\ listener[p].queue \in Seq(EventType)
  BY <1>1 DEF JobType, PlanType, ListenerType
<1> QED BY <1>1, <1>2, <1>3, <1>4, <1>5, <1>6

LEMMA AloneFacts ==
  ASSUME BoundsAssumption, OneConnection, Basis, NEW p \in Plans, Alone(p)
  PROVE  /\ Connections = {1} /\ plan[p].owner = 1
         /\ \A q \in Plans : q # p => plan[q] = NoPlan
         /\ \A q \in Plans : InManager(q) => q = p
         /\ InManager(p) <=> plan[p].status # "dropped"
         /\ \A l \in Plans : listener[l].stage \in Running => l = p /\ InManager(p)
         /\ \A c \in Connections : job[c].plan \in {p, None} /\ mail[c].plan \in {p, None}
         /\ \A c \in Connections : loop[c] = "closed" => ~ InManager(p)
<1>1. TypeOK /\ Requests /\ Jobs /\ Started
  BY DEF IInv, Basis
<1>2. Connections = {1} /\ \A q \in Plans : plan[q].owner \in {1, None}
  BY <1>1, OneOwner
<1>3. plan[p] # NoPlan /\ \A q \in Plans : q # p => plan[q] = NoPlan
  BY DEF Alone, Requested
<1>4. plan[p].owner = 1
  BY <1>1, <1>2, <1>3 DEF Requests
<1>5. \A q \in Plans : InManager(q) => q = p
  BY <1>3 DEF InManager, NoPlan
<1>6. InManager(p) <=> plan[p].status # "dropped"
  BY <1>4 DEF InManager, None
<1>7. \A l \in Plans : listener[l].stage \in Running => l = p /\ InManager(p)
  BY <1>1, <1>3, <1>6 DEF Started, Alone
<1>8. \A c \in Connections : job[c].plan \in {p, None} /\ mail[c].plan \in {p, None}
  <2>1. \A c \in Connections : job[c].plan \in Plans \cup {None} /\ mail[c].plan \in Plans \cup {None}
    BY <1>1, TypesUnfolded
  <2> QED BY <1>1, <1>5, <2>1 DEF Jobs
<1>9. \A c \in Connections : loop[c] = "closed" => ~ InManager(p)
  BY <1>1 DEF Jobs
<1> QED BY <1>2, <1>3, <1>4, <1>5, <1>6, <1>7, <1>8, <1>9

\* What is known before a step, of the only plan and its connection.
Scene(p, c) ==
  /\ p \in Plans /\ c \in Connections
  /\ OneConnection /\ Basis /\ Alone(p) /\ Local(p, c)

\* A step after which nothing that was shown is left.
LEMMA BlankStays ==
  ASSUME NEW p, NEW c,
         Queued(p, c)', Waiting(p)', Preparing(p, c)', loop'[c] # "answer",
         told'[p].question = NoQuestion, mail'[c].shown.question = NoQuestion
  PROVE  Local(p, c)'
<1>1. ToldIsPending(p)' /\ Answered(c)'
  BY DEF ToldIsPending, Answered
<1>2. MailIsPending(p, c)'
  BY DEF MailIsPending, OpenView
<1>3. OpenIsActive(p, c)' /\ OpenIsAsked(p, c)'
  BY DEF OpenIsActive, OpenIsAsked, OpenView
<1> QED BY <1>1, <1>2, <1>3 DEF Local

\* A step in which nothing is asked, answered or shown: the loop begins nothing, and
\* what was shown is shown still, at the plan's revision, or no more.
QuietStep(p, c) ==
  /\ opencode'[p] = opencode[p] /\ asking' = asking
  /\ \/ listener'[p] = listener[p]
     \/ listener'[p].queue = << >> /\ listener'[p].stage \notin Running
     \/ /\ listener'[p].queue = listener[p].queue
        /\ listener'[p].stage = "on" /\ listener[p].stage \in Running
  /\ session'.known = session.known
  /\ \/ session'.pending = session.pending
     \/ session'.pending = NoQuestion /\ told'[p].question = NoQuestion
  /\ job'[c].target \in {job[c].target, NoQuestion}
  /\ \/ loop'[c] = loop[c] /\ job'[c] = job[c]
     \/ /\ loop[c] # "create"
        /\ loop'[c] \notin {"client", "create", "prompt", "continue", "continued", "answer"}
  /\ mail'[c].shown = mail[c].shown \/ mail'[c].shown.question = NoQuestion
  /\ (told'[p] = told[p] /\ plan'[p] = plan[p]) \/ told'[p].question = NoQuestion
  /\ \/ /\ plan'[p].revision = plan[p].revision
        /\ \/ plan'[p].status \in Active \/ plan'[p] = plan[p]
           \/ ~ (OpenView(p, mail[c].shown) /\ opencode[p] = "busy")
     \/ plan'[p].revision = plan[p].revision + 1
     \/ mail'[c].shown.question = NoQuestion

LEMMA QuietStays ==
  ASSUME BoundsAssumption, TypeOK, NEW p \in Plans, NEW c \in Connections,
         Local(p, c), QuietStep(p, c)
  PROVE  Local(p, c)'
<1>0. /\ listener[p].queue \in Seq(EventType) /\ plan[p].revision \in Nat
      /\ session.pending[2] \in Nat /\ job[c].target[2] \in Nat
      /\ mail[c].shown.revision \in Nat
      /\ session.pending \in Questions \cup {NoQuestion}
      /\ \A q \in Questions \cup {NoQuestion} : q[2] \in Nat
  BY AloneTypes DEF ToldType
<1>1. Queued(p, c)'
  <2>1. CASE listener'[p].queue = << >>
    BY <2>1 DEF Queued, InOrder, After
  <2>2. CASE listener'[p].queue # << >>
    <3>1. /\ listener'[p].queue = listener[p].queue
          /\ listener'[p].stage \notin Running => listener[p].stage \notin Running
      BY <2>2 DEF QuietStep, Running
    <3>2. ASSUME NEW n \in Nat, After(listener[p].queue, n)
          PROVE  After(listener[p].queue, NoQuestion[2])
      <4>1. \A i \in DOMAIN listener[p].queue : listener[p].queue[i].type = "question" =>
               listener[p].queue[i].question[2] \in Nat
        BY <1>0 DEF EventType
      <4> QED BY <3>2, <4>1 DEF After, NoQuestion
    <3>3. After(listener[p].queue, session'.pending[2])
      BY <1>0, <3>2 DEF Local, Queued, QuietStep
    <3>4. After(listener[p].queue, job'[c].target[2])
      BY <1>0, <3>2 DEF Local, Queued, QuietStep
    <3> QED BY <3>1, <3>3, <3>4 DEF Local, Queued, QuietStep
  <2> QED BY <2>1, <2>2
<1>2. Waiting(p)'
  BY DEF Local, Waiting, QuietStep
<1>3. Preparing(p, c)'
  <2>1. listener'[p].stage \in Running => listener[p].stage \in Running
    BY DEF QuietStep
  <2> QED BY <2>1 DEF Local, Preparing, QuietStep
<1>4. ToldIsPending(p)'
  BY DEF Local, ToldIsPending, QuietStep
<1>5. MailIsPending(p, c)'
  BY <1>0 DEF Local, MailIsPending, OpenView, QuietStep
<1>a. ASSUME NEW view \in {told'[p], mail'[c].shown}, OpenView(p, view)'
      PROVE  /\ view \in {told[p], mail[c].shown} /\ OpenView(p, view)
             /\ \/ plan'[p].status = plan[p].status \/ plan'[p].status \in Active
                \/ opencode[p] # "busy"
  <2>1. CASE view = told'[p]
    BY <1>a, <2>1 DEF OpenView, QuietStep
  <2>2. CASE view = mail'[c].shown
    <3>1. view = mail[c].shown /\ view.question # NoQuestion /\ view.revision = plan'[p].revision
      BY <1>a, <2>2 DEF OpenView, QuietStep
    <3>2. view.revision <= plan[p].revision
      BY <3>1 DEF Local, MailIsPending
    <3>3. plan'[p].revision = plan[p].revision
      BY <1>0, <2>2, <3>1, <3>2 DEF QuietStep
    <3> QED BY <2>2, <3>1, <3>3, <1>0 DEF OpenView, QuietStep
  <2> QED BY <1>a, <2>1, <2>2
<1>6. OpenIsActive(p, c)'
  <2> SUFFICES ASSUME NEW view \in {told'[p], mail'[c].shown}, OpenView(p, view)',
                      opencode'[p] = "busy"
               PROVE  /\ plan'[p].status \in Active /\ listener'[p].stage # "fetching"
                      /\ \A i \in DOMAIN listener'[p].queue :
                           listener'[p].queue[i].type = "question"
    BY DEF OpenIsActive
  <2>1. /\ plan'[p].status \in Active /\ listener[p].stage # "fetching"
        /\ \A i \in DOMAIN listener[p].queue : listener[p].queue[i].type = "question"
    BY <1>a DEF Local, OpenIsActive, QuietStep
  <2>2. CASE listener'[p].queue = << >>
    BY <2>1, <2>2 DEF QuietStep, Running
  <2>3. CASE listener'[p].queue # << >>
    BY <2>1, <2>3 DEF QuietStep
  <2> QED BY <2>2, <2>3
<1>7. OpenIsAsked(p, c)'
  <2> SUFFICES ASSUME NEW view \in {told'[p], mail'[c].shown}, OpenView(p, view)',
                      loop'[c] \in {"continue", "continued"}
               PROVE  view.question \in asking'
    BY DEF OpenIsAsked
  <2> QED BY <1>a DEF Local, OpenIsAsked, QuietStep
<1>8. Answered(c)'
  BY DEF Local, Answered, QuietStep
<1> QED BY <1>1, <1>2, <1>3, <1>4, <1>5, <1>6, <1>7, <1>8 DEF Local

-----------------------------------------------------------------------------
(* The steps, one by one. *)

\* The facts of a scene.
LEMMA SceneFacts ==
  ASSUME BoundsAssumption, NEW p, NEW c, Scene(p, c)
  PROVE  /\ p \in Plans /\ c \in Connections /\ c = 1 /\ TypeOK /\ Local(p, c)
         /\ loop \in [Connections -> Stages]
         /\ job \in [Connections -> JobType] /\ mail \in [Connections -> JobType]
         /\ plan \in [Plans -> PlanType] /\ session \in SessionType
         /\ listener \in [Plans -> ListenerType] /\ told \in [Plans -> ToldType]
         /\ opencode \in [Plans -> {"idle", "busy"}]
         /\ job[c].plan \in {p, None} /\ mail[c].plan \in {p, None}
         /\ loop[c] \in Working => job[c].plan = p
         /\ loop[c] \in {"recv", "left", "stopping", "closed"} => job[c].plan = None
         /\ loop[c] \in {"left", "stopping", "closed"} =>
              mail[c] = NoJob
         /\ loop[c] = "closed" => plan[p].status = "dropped"
         /\ loop[c] \in Handling => job[c].plan = p
         /\ mail[c] = NoJob \/ mail[c].plan = p
         /\ \A l \in Plans : listener[l].stage \in Running => l = p
         /\ NoJob.shown.question = NoQuestion /\ NoJob.target = NoQuestion
         /\ Unheard.question = NoQuestion
<1>1. /\ p \in Plans /\ c \in Connections /\ Basis /\ Alone(p) /\ Local(p, c) /\ OneConnection
      /\ TypeOK /\ Jobs /\ Addressed
  BY DEF Scene, Basis, IInv
<1>2. /\ told \in [Plans -> ToldType] /\ opencode \in [Plans -> {"idle", "busy"}]
  BY <1>1, TypesByVariable DEF ToldTyped, OpenCodeTyped
<1>3. /\ c = 1 /\ job[c].plan \in {p, None} /\ mail[c].plan \in {p, None}
      /\ \A q \in Plans : InManager(q) => q = p
      /\ InManager(p) <=> plan[p].status # "dropped"
      /\ \A l \in Plans : listener[l].stage \in Running => l = p
      /\ loop[c] = "closed" => ~ InManager(p)
  BY <1>1, AloneFacts
<1>4. /\ loop[c] \in Working => job[c].plan = p
      /\ loop[c] \in {"recv", "left", "stopping", "closed"} => job[c].plan = None
      /\ loop[c] \in {"left", "stopping", "closed"} => mail[c].plan = None
  BY <1>1, <1>3 DEF Jobs, Newest
<1>5. /\ mail[c].plan = None => mail[c] = NoJob
      /\ mail[c] = NoJob \/ mail[c].plan = p
      /\ loop[c] \in Handling => job[c].plan = p
  <2>1. None \notin Plans
    BY DEF None, Plans, BoundsAssumption
  <2> QED BY <1>1, <1>3, <2>1 DEF Addressed
<1>6. /\ NoJob.shown.question = NoQuestion /\ NoJob.target = NoQuestion
      /\ Unheard.question = NoQuestion
  BY DEF NoJob, Unheard
<1> QED BY <1>1, <1>2, <1>3, <1>4, <1>5, <1>6, TypesUnfolded

\* Leaving, refusing and rejecting are quiet.
LEMMA LeaveIsQuiet ==
  ASSUME BoundsAssumption, NEW p, NEW c, Scene(p, c), Leave(c) \/ Refuse(c) \/ Reject(c)
  PROVE  QuietStep(p, c)
<1> USE SceneFacts
<1>1. CASE Leave(c) \/ Refuse(c)
  BY <1>1 DEF Leave, Refuse, Receive, QuietStep, opencodeVars
<1>2. CASE Reject(c)
  <2>1. /\ loop' = loop /\ job' = job /\ session' = session /\ listener' = listener
        /\ opencode' = opencode /\ asking' = asking
        /\ mail'[c] = NoJob
    BY <1>2 DEF Reject, Receive, opencodeVars
  <2>2. (told'[p] = told[p] /\ plan'[p] = plan[p]) \/ told'[p].question = NoQuestion
    BY <1>2 DEF Reject
  <2> QED BY <2>1, <2>2 DEF QuietStep
<1> QED BY <1>1, <1>2

\* The end of a connection is quiet.
LEMMA EndIsQuiet ==
  ASSUME BoundsAssumption, NEW p, NEW c, Scene(p, c),
         StopListener(c) \/ Close(c) \/ CleanupRaises(c)
  PROVE  QuietStep(p, c)
<1> USE SceneFacts
<1>1. CASE StopListener(c)
  <2>1. listener'[p] = listener[p] \/ listener'[p] = Listener("stopped")
    BY <1>1 DEF StopListener, Stopped
  <2>2. Listener("stopped").queue = << >> /\ Listener("stopped").stage \notin Running
    BY DEF Listener, Running
  <2> QED BY <1>1, <2>1, <2>2 DEF StopListener, QuietStep, opencodeVars
<1>2. CASE Close(c) \/ CleanupRaises(c)
  <2>1. (told'[p] = told[p] /\ plan'[p] = plan[p]) \/ told'[p].question = NoQuestion
    BY <1>2 DEF Close, CleanupRaises, Drop
  <2>2. session'.known = session.known /\ session'.pending = session.pending
    BY <1>2 DEF Close, CleanupRaises, UpdateListener, AbandonListener, SessionType
  <2> QED BY <1>2, <2>1, <2>2 DEF Close, CleanupRaises, QuietStep, opencodeVars
<1> QED BY <1>1, <1>2

\* The responses are quiet.
LEMMA ResponseIsQuiet ==
  ASSUME BoundsAssumption, NEW p, NEW c, Scene(p, c),
         PlanResponse(c) \/ AnswerEnds(c) \/ ContinueEnds(c) \/ ConfirmationFails(c)
  PROVE  QuietStep(p, c)
<1>0. /\ c \in Connections /\ p \in Plans
      /\ loop \in [Connections -> Stages] /\ job \in [Connections -> JobType]
      /\ plan \in [Plans -> PlanType] /\ session \in SessionType
      /\ told \in [Plans -> ToldType] /\ NoJob.target = NoQuestion
      /\ loop[c] \in Working \cup Handling => job[c].plan = p
  BY SceneFacts
<1>a. /\ loop'[c] = "recv" /\ job'[c] = NoJob /\ mail' = mail /\ listener' = listener
      /\ opencode' = opencode /\ asking' = asking
  <2>1. Respond(c) /\ UNCHANGED <<listener, opencodeVars>>
    BY DEF PlanResponse, AnswerEnds, ContinueEnds, ConfirmationFails
  <2> QED BY <1>0, <2>1 DEF Respond, opencodeVars
<1>b. loop[c] \in (Working \cup Handling) \ {"create"}
  BY DEF PlanResponse, AnswerEnds, ContinueEnds, ConfirmationFails, Working, Handling
<1>c. ASSUME session'.known = session.known,
             session'.pending \in {session.pending, NoQuestion},
             told'[p].question = NoQuestion,
             \/ plan'[p].revision = plan[p].revision /\ plan'[p].status \in Active
             \/ plan'[p].revision = plan[p].revision + 1
      PROVE  QuietStep(p, c)
  BY <1>0, <1>a, <1>b, <1>c DEF QuietStep
<1>1. CASE PlanResponse(c)
  <2>1. session'.known = session.known /\ session'.pending = session.pending
    BY <1>0, <1>1 DEF PlanResponse, UpdateListener, SessionType
  <2>2. told'[p].question = NoQuestion
    BY <1>0, <1>b, <1>1 DEF PlanResponse, Tell, Show
  <2>3. plan'[p].revision = plan[p].revision /\ plan'[p].status \in Active
    BY <1>0, <1>b, <1>1 DEF PlanResponse, PlanType, Active
  <2> QED BY <1>c, <2>1, <2>2, <2>3
<1>2. CASE AnswerEnds(c)
  <2>1. session'.known = session.known /\ session'.pending \in {session.pending, NoQuestion}
    BY <1>0, <1>2 DEF AnswerEnds, SetPending, SessionType
  <2>2. told'[p].question = NoQuestion
    BY <1>0, <1>b, <1>2 DEF AnswerEnds, Tell, Show
  <2>3. plan'[p].revision = plan[p].revision /\ plan'[p].status \in Active
    BY <1>0, <1>b, <1>2 DEF AnswerEnds, PlanType, Active
  <2> QED BY <1>c, <2>1, <2>2, <2>3
<1>3. CASE ContinueEnds(c)
  <2>1. session' = session
    BY <1>3 DEF ContinueEnds
  <2>2. told'[p].question = NoQuestion
    BY <1>0, <1>b, <1>3 DEF ContinueEnds, Tell, Show
  <2>3. plan'[p].revision = plan[p].revision + 1
    BY <1>0, <1>b, <1>3 DEF ContinueEnds, PlanType
  <2> QED BY <1>c, <2>1, <2>2, <2>3
<1>4. CASE ConfirmationFails(c)
  BY <1>0, <1>4, <1>a, <1>b DEF ConfirmationFails, QuietStep
<1> QED BY <1>1, <1>2, <1>3, <1>4

\* So are the steps of the listener, but those with an event.
LEMMA ListenerIsQuiet ==
  ASSUME BoundsAssumption, NEW p, NEW c, Scene(p, c), NEW l \in Plans,
         Subscribed(l) \/ Dies(l) \/ FetchFails(l) \/ Completed(l)
  PROVE  QuietStep(p, c)
<1>0. /\ c \in Connections /\ p \in Plans
      /\ plan \in [Plans -> PlanType] /\ told \in [Plans -> ToldType]
      /\ listener \in [Plans -> ListenerType]
      /\ \A k \in Plans : listener[k].stage \in Running => k = p
  BY SceneFacts
<1>a. l = p
  BY <1>0 DEF Subscribed, Dies, FetchFails, Completed, FetchReturns, Running
<1>b. /\ loop' = loop /\ job' = job /\ mail' = mail /\ session' = session
      /\ opencode' = opencode /\ asking' = asking
  BY DEF Subscribed, Dies, FetchFails, Completed, loopVars, opencodeVars
<1>c. ASSUME listener'[p].queue = listener[p].queue, listener'[p].stage = "on",
             listener[p].stage \in Running,
             (told'[p] = told[p] /\ plan'[p] = plan[p]) \/ told'[p].question = NoQuestion,
             plan'[p].revision = plan[p].revision,
             \/ plan'[p] = plan[p]
             \/ ~ (OpenView(p, mail[c].shown) /\ opencode[p] = "busy")
      PROVE  QuietStep(p, c)
  BY <1>0, <1>b, <1>c DEF QuietStep
<1>1. CASE Subscribed(l)
  <2>1. /\ listener'[p].queue = listener[p].queue /\ listener'[p].stage = "on"
        /\ listener[p].stage \in Running
    BY <1>0, <1>a, <1>1 DEF Subscribed, ListenerType, Running
  <2> QED BY <1>1, <1>c, <2>1 DEF Subscribed
<1>2. CASE Dies(l)
  <2>1. listener'[p].queue = << >> /\ listener'[p].stage \notin Running
    BY <1>0, <1>a, <1>2 DEF Dies, Listener, Running
  <2>2. plan' = plan /\ told' = told
    BY <1>2 DEF Dies
  <2> QED BY <1>b, <2>1, <2>2 DEF QuietStep
<1>d. ASSUME FetchReturns(l)
      PROVE  /\ listener'[p].queue = listener[p].queue /\ listener'[p].stage = "on"
             /\ listener[p].stage \in Running /\ listener[p].stage = "fetching"
  BY <1>0, <1>a, <1>d DEF FetchReturns, ListenerType, Running
<1>3. CASE FetchFails(l)
  BY <1>3, <1>c, <1>d DEF FetchFails
<1>4. CASE Completed(l)
  <2>1. FetchReturns(l)
    BY <1>4 DEF Completed
  <2>2. (told'[p] = told[p] /\ plan'[p] = plan[p]) \/ told'[p].question = NoQuestion
    BY <1>0, <1>4 DEF Completed, Tell, Show
  <2>3. plan'[p].revision = plan[p].revision
    BY <1>0, <1>4 DEF Completed, PlanType
  <2>4. ~ (OpenView(p, mail[c].shown) /\ opencode[p] = "busy")
    BY <1>d, <2>1 DEF Scene, Local, OpenIsActive
  <2> QED BY <1>c, <1>d, <2>1, <2>2, <2>3, <2>4
<1> QED BY <1>1, <1>2, <1>3, <1>4

\* A connection that is not open yet has no plan.
LEMMA NoneConnects ==
  ASSUME BoundsAssumption, NEW p, NEW c, Scene(p, c)
  PROVE  ~ Connect(c)
<1>1. Connect(c) => loop[c] = "closed"
  BY DEF Connect
<1>2. plan[p].status # "dropped"
  BY DEF Scene, Alone
<1> QED BY <1>1, <1>2, SceneFacts

\* After a step in which nothing that was shown is left: a request, a crash.
LEMMA RequestStepIsBlank ==
  ASSUME BoundsAssumption, NEW p, NEW c, Scene(p, c),
         StartListener(c) \/ SessionCreated(c) \/ Prompted(c)
  PROVE  Local(p, c)'
<1>0. /\ c \in Connections /\ p \in Plans /\ Local(p, c)
      /\ loop \in [Connections -> Stages] /\ opencode \in [Plans -> {"idle", "busy"}]
      /\ listener \in [Plans -> ListenerType] /\ session \in SessionType
  BY SceneFacts
<1>a. loop[c] \in {"client", "create", "prompt"}
  BY DEF StartListener, SessionCreated, Prompted
<1>b. /\ opencode[p] = "idle" /\ asking = {}
      /\ told[p].question = NoQuestion /\ mail[c].shown.question = NoQuestion
      /\ job[c].plan = p
  <2>1. job[c].plan = p
    BY <1>a, SceneFacts DEF Working
  <2> QED BY <1>0, <1>a, <2>1 DEF Local, Preparing, Waiting
<1>c. /\ job' = job /\ mail' = mail /\ told' = told /\ asking' = {}
      /\ loop'[c] \in {"create", "prompt", "prompted"}
  BY <1>0, <1>b DEF StartListener, SessionCreated, Prompted, Prompt, opencodeVars
<1>d. Waiting(p)'
  BY <1>c DEF Waiting
<1>1. CASE StartListener(c)
  <2>1. /\ listener'[p] = Listener("starting") /\ loop'[c] = "create"
        /\ opencode' = opencode /\ session' = session
    BY <1>0, <1>b, <1>1 DEF StartListener, opencodeVars
  <2>2. Queued(p, c)'
    BY <2>1 DEF Queued, Listener, InOrder, After, Running
  <2>3. Preparing(p, c)'
    BY <1>b, <1>c, <2>1 DEF Preparing
  <2> QED BY <1>b, <1>c, <1>d, <2>2, <2>3, BlankStays
<1>2. CASE SessionCreated(c)
  <2>1. /\ session'.known /\ session'.pending = NoQuestion
        /\ listener' = listener /\ opencode' = opencode
    BY <1>2 DEF SessionCreated, NewSession, NoSession, opencodeVars
  <2>2. \A i \in DOMAIN listener[p].queue : listener[p].queue[i].type # "question"
    BY <1>0, <1>b DEF Local, Queued, InOrder
  <2>3. Queued(p, c)'
    BY <1>0, <2>1, <2>2 DEF Local, Queued, InOrder, After
  <2>4. Preparing(p, c)'
    BY <1>b, <1>c, <2>1 DEF Preparing
  <2> QED BY <1>b, <1>c, <1>d, <2>3, <2>4, BlankStays
<1>3. CASE Prompted(c)
  <2>1. loop[c] = "prompt" /\ loop'[c] = "prompted" /\ listener' = listener /\ session' = session
        /\ asking' = asking
    BY <1>0, <1>3 DEF Prompted, Prompt
  <2>2. Queued(p, c)'
    BY <1>0, <1>c, <2>1 DEF Local, Queued
  <2>3. Preparing(p, c)'
    BY <1>0, <2>1 DEF Local, Preparing
  <2> QED BY <1>b, <1>c, <1>d, <2>2, <2>3, BlankStays
<1> QED BY <1>1, <1>2, <1>3

LEMMA CrashIsBlank ==
  ASSUME BoundsAssumption, NEW p, NEW c, Scene(p, c), Crash
  PROVE  Local(p, c)'
<1>0. /\ c \in Connections /\ p \in Plans /\ Local(p, c) /\ p \in Requested
      /\ NoJob.shown.question = NoQuestion
  BY SceneFacts DEF Scene, Alone
<1>1. /\ loop'[c] = "closed" /\ mail'[c] = NoJob
      /\ told'[p].question = NoQuestion
      /\ listener'[p] = Listener("stopped")
      /\ opencode' = opencode /\ asking' = asking
  BY <1>0 DEF Crash, Drop, Unheard
<1>2. Queued(p, c)'
  BY <1>1 DEF Queued, Listener, InOrder, After
<1>3. Waiting(p)' /\ Preparing(p, c)'
  BY <1>0, <1>1 DEF Local, Waiting, Preparing, Listener, Running
<1> QED BY <1>0, <1>1, <1>2, <1>3, BlankStays

\* The steps of handle_plan_confirmation that are not quiet.
LEMMA ContinuedKeeps ==
  ASSUME BoundsAssumption, NEW p, NEW c, Scene(p, c), Continued(c)
  PROVE  Local(p, c)'
<1>0. /\ c \in Connections /\ p \in Plans /\ Local(p, c)
      /\ loop \in [Connections -> Stages] /\ opencode \in [Plans -> {"idle", "busy"}]
  BY SceneFacts
<1>1. /\ loop[c] = "continue" /\ loop'[c] = "continued"
      /\ job' = job /\ mail' = mail /\ plan' = plan /\ session' = session /\ told' = told
      /\ listener' = listener /\ asking' = asking
      /\ opencode[p] = "busy" => opencode'[p] = "busy"
  BY <1>0 DEF Continued, Prompt
<1>2. Queued(p, c)' /\ Waiting(p)' /\ Preparing(p, c)'
  BY <1>0, <1>1 DEF Local, Queued, Waiting, Preparing
<1>3. ToldIsPending(p)' /\ MailIsPending(p, c)' /\ OpenIsAsked(p, c)' /\ Answered(c)'
  BY <1>0, <1>1 DEF Local, ToldIsPending, MailIsPending, OpenIsAsked, OpenView, Answered
<1>4. OpenIsActive(p, c)'
  <2>1. ASSUME NEW view \in {told[p], mail[c].shown}, OpenView(p, view)
        PROVE  opencode[p] = "busy"
    BY <1>0, <1>1, <2>1 DEF Local, OpenIsAsked, Waiting
  <2> QED BY <1>0, <1>1, <2>1 DEF Local, OpenIsActive, OpenView
<1> QED BY <1>2, <1>3, <1>4 DEF Local

LEMMA SendConfirmationKeeps ==
  ASSUME BoundsAssumption, NEW p, NEW c, Scene(p, c), NEW q \in Plans, SendConfirmation(c, q)
  PROVE  Local(p, c)'
<1>0. /\ c \in Connections /\ p \in Plans /\ Local(p, c) /\ c = 1
      /\ mail \in [Connections -> JobType] /\ plan[p].revision \in Nat
      /\ \A r \in Plans : InManager(r) => r = p
  BY SceneFacts, AloneFacts, AloneTypes DEF Scene, Basis
<1>a. q = p
  BY <1>0 DEF SendConfirmation, InManager, None
<1>1. /\ loop' = loop /\ job' = job /\ plan' = plan /\ session' = session /\ told' = told
      /\ listener' = listener /\ asking' = asking /\ opencode' = opencode
      /\ mail'[c].shown = told[p]
  BY <1>0, <1>a DEF SendConfirmation, opencodeVars
<1>2. Queued(p, c)' /\ Waiting(p)' /\ Preparing(p, c)'
  BY <1>0, <1>1 DEF Local, Queued, Waiting, Preparing
<1>3. ToldIsPending(p)' /\ Answered(c)'
  BY <1>0, <1>1 DEF Local, ToldIsPending, Answered
<1>4. MailIsPending(p, c)'
  BY <1>0, <1>1 DEF Local, ToldIsPending, MailIsPending, OpenView
<1>5. OpenIsActive(p, c)' /\ OpenIsAsked(p, c)'
  BY <1>0, <1>1 DEF Local, OpenIsActive, OpenIsAsked, OpenView
<1> QED BY <1>2, <1>3, <1>4, <1>5 DEF Local

LEMMA ProceedKeeps ==
  ASSUME BoundsAssumption, NEW p, NEW c, Scene(p, c), Proceed(c)
  PROVE  Local(p, c)'
<1>0. /\ c \in Connections /\ p \in Plans /\ Local(p, c)
      /\ loop \in [Connections -> Stages] /\ job \in [Connections -> JobType]
      /\ mail \in [Connections -> JobType] /\ (mail[c] = NoJob \/ mail[c].plan = p)
      /\ NoJob.shown.question = NoQuestion
  BY SceneFacts
<1>1. /\ plan' = plan /\ session' = session /\ told' = told /\ session.known
      /\ listener' = listener /\ asking' = asking /\ opencode' = opencode
      /\ mail'[c].shown.question = NoQuestion
      /\ loop'[c] = IF session.pending = NoQuestion THEN "continue" ELSE "answer"
  BY <1>0 DEF Proceed, Receive, opencodeVars
<1>2. job'[c].shown = mail[c].shown /\ job'[c].target = session.pending
  BY <1>0 DEF Proceed, JobType
<1>3. plan[p].revision = mail[c].shown.revision
  BY <1>0 DEF Proceed, Receive, CurrentRevision
<1>4. Queued(p, c)' /\ Waiting(p)' /\ Preparing(p, c)'
  BY <1>0, <1>1, <1>2 DEF Local, Queued, Waiting, Preparing
<1>5. ToldIsPending(p)'
  BY <1>0, <1>1 DEF Local, ToldIsPending
<1>6. MailIsPending(p, c)'
  BY <1>1 DEF MailIsPending, OpenView
<1>7. OpenIsActive(p, c)'
  BY <1>0, <1>1 DEF Local, OpenIsActive, OpenView
<1>8. OpenIsAsked(p, c)'
  <2>1. loop'[c] = "continue" => told[p].question = NoQuestion
    BY <1>0, <1>1 DEF Local, ToldIsPending
  <2> QED BY <1>1, <2>1 DEF OpenIsAsked, OpenView
<1>9. Answered(c)'
  <2>1. loop'[c] = "answer" /\ mail[c].shown.question # NoQuestion =>
          session.pending = mail[c].shown.question
    BY <1>0, <1>1, <1>3 DEF Local, MailIsPending, OpenView
  <2> QED BY <1>2, <2>1 DEF Answered
<1> QED BY <1>4, <1>5, <1>6, <1>7, <1>8, <1>9 DEF Local

LEMMA RepliedKeeps ==
  ASSUME BoundsAssumption, NEW p, NEW c, Scene(p, c), Replied(c)
  PROVE  Local(p, c)'
<1>0. /\ c \in Connections /\ p \in Plans /\ Local(p, c)
      /\ loop \in [Connections -> Stages] /\ job[c].target[2] \in Nat
      /\ asking \subseteq Questions
  BY SceneFacts, AloneTypes
<1>1. /\ loop[c] = "answer" /\ loop'[c] = "answered"
      /\ job' = job /\ mail' = mail /\ plan' = plan /\ session' = session /\ told' = told
      /\ listener' = listener /\ opencode' = opencode
      /\ asking' = asking \ {job[c].target}
  BY <1>0 DEF Replied
<1>2. Queued(p, c)'
  <2>1. InOrder(listener[p].queue, asking) /\ After(listener[p].queue, job[c].target[2])
    BY <1>0 DEF Local, Queued
  <2>2. InOrder(listener[p].queue, asking \ {job[c].target})
    BY <1>0, <2>1 DEF InOrder, After
  <2> QED BY <1>0, <1>1, <2>2 DEF Local, Queued
<1>3. Waiting(p)' /\ Preparing(p, c)' /\ ToldIsPending(p)' /\ Answered(c)'
  BY <1>0, <1>1 DEF Local, Waiting, Preparing, ToldIsPending, Answered
<1>4. MailIsPending(p, c)'
  BY <1>0, <1>1 DEF Local, MailIsPending, OpenView
<1>5. OpenIsActive(p, c)' /\ OpenIsAsked(p, c)'
  BY <1>0, <1>1 DEF Local, OpenIsActive, OpenIsAsked, OpenView
<1> QED BY <1>2, <1>3, <1>4, <1>5 DEF Local

\* The only plan is the first active one beside its listener, or none is.
LEMMA BesideIsAlone ==
  ASSUME BoundsAssumption, NEW p, NEW c, Scene(p, c)
  PROVE  ActiveBeside(p) = IF plan[p].status \in Active THEN {p} ELSE {}
<1>1. /\ p \in Plans /\ \A q \in Plans : InManager(q) => q = p
      /\ plan[p].owner = 1
  BY SceneFacts, AloneFacts DEF Scene, Basis
<1>2. ASSUME NEW q \in Plans, plan[q].owner = plan[p].owner, plan[q].status \in Active
      PROVE  q = p
  BY <1>1, <1>2 DEF InManager, Active, None
<1> QED BY <1>1, <1>2 DEF ActiveBeside, Active

LEMMA QuestionEventKeeps ==
  ASSUME BoundsAssumption, NEW p, NEW c, Scene(p, c), NEW l \in Plans, QuestionEvent(l)
  PROVE  Local(p, c)'
<1> DEFINE queue == listener[p].queue
           question == Head(queue).question
<1>0. /\ c \in Connections /\ p \in Plans /\ Local(p, c) /\ l = p
      /\ loop \in [Connections -> Stages] /\ session \in SessionType
      /\ plan \in [Plans -> PlanType] /\ told \in [Plans -> ToldType]
      /\ listener \in [Plans -> ListenerType] /\ queue \in Seq(EventType)
      /\ plan[p].revision \in Nat /\ mail[c].shown.revision \in Nat
      /\ asking \subseteq Questions /\ NoQuestion \notin Questions
  BY SceneFacts, AloneTypes DEF QuestionEvent, NextEvent, Running, ToldType
<1>1. /\ listener[p].stage = "on" /\ queue # << >> /\ Head(queue).type = "question"
      /\ loop' = loop /\ job' = job /\ mail' = mail
      /\ opencode' = opencode /\ asking' = asking
      /\ session' = SetPending(question)
  BY <1>0 DEF QuestionEvent, NextEvent, loopVars, opencodeVars
<1>2. listener'[p].stage = "on" /\ listener'[p].queue = Tail(queue)
  BY <1>0, <1>1 DEF QuestionEvent, ListenerType
<1>3. /\ InOrder(queue, asking) /\ After(queue, job[c].target[2])
  BY <1>0 DEF Local, Queued
<1>4. /\ InOrder(Tail(queue), asking) /\ After(Tail(queue), job[c].target[2])
      /\ After(Tail(queue), question[2]) /\ question \in asking
      /\ \A i \in DOMAIN Tail(queue) : Tail(queue)[i].type = "question"
  BY <1>0, <1>1, <1>3, QueueTail
<1>5. opencode[p] = "busy"
  BY <1>0, <1>4 DEF Local, Waiting
<1>6. session.known
  BY <1>0, <1>1, <1>5 DEF Local, Preparing, Running
<1>7. session'.pending = question /\ session'.known
  BY <1>0, <1>1, <1>6 DEF SetPending, SessionType
<1>8. question # NoQuestion
  BY <1>0, <1>4
<1> HIDE DEF question, queue
<1>9. Queued(p, c)' /\ Waiting(p)' /\ Preparing(p, c)' /\ Answered(c)'
  <2>1. Queued(p, c)'
    BY <1>1, <1>2, <1>4, <1>7 DEF Queued, Running
  <2>2. Preparing(p, c)'
    BY <1>0, <1>1, <1>5, <1>7 DEF Local, Preparing
  <2> QED BY <1>0, <1>1, <2>1, <2>2 DEF Local, Waiting, Answered
<1>10. CASE plan[p].status \in Active
  <2>1. ActiveBeside(p) = {p} /\ Earliest({p}) = p
    BY <1>10, BesideIsAlone DEF Earliest
  <2>2. /\ plan' = [plan EXCEPT ![p].status = "needs_confirmation", ![p].revision = @ + 1]
        /\ Show(p, plan'[p].revision, question)
    BY <1>0, <2>1 DEF QuestionEvent, question, queue
  <2>3. plan'[p].status = "needs_confirmation" /\ plan'[p].revision = plan[p].revision + 1
    BY <1>0, <2>2 DEF PlanType
  <2>4. told'[p].question = question /\ told'[p].revision = plan'[p].revision
    BY <1>0, <2>2 DEF Show
  <2>5. mail[c].shown.question # NoQuestion => mail[c].shown.revision <= plan[p].revision
    BY <1>0 DEF Local, MailIsPending
  <2>6. ~ OpenView(p, mail[c].shown)'
    BY <1>0, <1>1, <2>3, <2>5 DEF OpenView
  <2>7. ToldIsPending(p)'
    BY <1>7, <2>3, <2>4 DEF ToldIsPending
  <2>8. MailIsPending(p, c)'
    BY <1>0, <1>1, <2>3, <2>5, <2>6 DEF MailIsPending
  <2>9. OpenIsActive(p, c)'
    BY <1>2, <1>4, <2>3 DEF OpenIsActive, Active
  <2>10. OpenIsAsked(p, c)'
    BY <1>1, <1>4, <2>4, <2>6 DEF OpenIsAsked
  <2> QED BY <1>9, <2>7, <2>8, <2>9, <2>10 DEF Local
<1>11. CASE plan[p].status \notin Active
  <2>1. plan' = plan /\ told' = told
    BY <1>0, <1>11, BesideIsAlone DEF QuestionEvent
  <2>2. told[p].question = NoQuestion
    BY <1>0, <1>11 DEF Local, ToldIsPending, Active
  <2>3. ~ OpenView(p, mail[c].shown)
    BY <1>0, <1>5, <1>11 DEF Local, OpenIsActive
  <2>4. \A view \in {told'[p], mail'[c].shown} : ~ OpenView(p, view)'
    BY <1>1, <2>1, <2>2, <2>3 DEF OpenView
  <2>5. ToldIsPending(p)'
    BY <2>1, <2>2 DEF ToldIsPending
  <2>6. MailIsPending(p, c)'
    BY <1>0, <1>1, <2>1, <2>4 DEF Local, MailIsPending
  <2>7. OpenIsActive(p, c)' /\ OpenIsAsked(p, c)'
    BY <2>4 DEF OpenIsActive, OpenIsAsked
  <2> QED BY <1>9, <2>5, <2>6, <2>7 DEF Local
<1> QED BY <1>10, <1>11

LEMMA IdleEventKeeps ==
  ASSUME BoundsAssumption, NEW p, NEW c, Scene(p, c), NEW l \in Plans, IdleEvent(l)
  PROVE  Local(p, c)'
<1> DEFINE queue == listener[p].queue
<1>0. /\ c \in Connections /\ p \in Plans /\ Local(p, c) /\ l = p
      /\ listener \in [Plans -> ListenerType] /\ queue \in Seq(EventType)
  BY SceneFacts, AloneTypes DEF IdleEvent, NextEvent, Running
<1>1. /\ listener[p].stage = "on" /\ queue # << >> /\ Head(queue).type = "idle"
      /\ loop' = loop /\ job' = job /\ mail' = mail /\ plan' = plan /\ session' = session
      /\ told' = told /\ opencode' = opencode /\ asking' = asking
  BY <1>0 DEF IdleEvent, NextEvent, loopVars, opencodeVars
<1>2. listener'[p].stage \in Running /\ listener'[p].queue = Tail(queue)
  BY <1>0, <1>1 DEF IdleEvent, ListenerType, Running
<1>3. /\ InOrder(queue, asking) /\ After(queue, job[c].target[2])
      /\ After(queue, session.pending[2])
  BY <1>0 DEF Local, Queued
<1>4. /\ InOrder(Tail(queue), asking) /\ After(Tail(queue), job[c].target[2])
      /\ After(Tail(queue), session.pending[2])
      /\ ~ \A i \in DOMAIN queue : queue[i].type = "question"
  BY <1>0, <1>1, <1>3, QueueTail
<1>5. ASSUME NEW view \in {told[p], mail[c].shown}
      PROVE  ~ (OpenView(p, view) /\ opencode[p] = "busy")
  BY <1>0, <1>4 DEF Local, OpenIsActive
<1> HIDE DEF queue
<1>6. Queued(p, c)'
  BY <1>1, <1>2, <1>4 DEF Queued
<1>7. Preparing(p, c)'
  BY <1>0, <1>1, <1>2 DEF Local, Preparing, Running
<1>8. Waiting(p)' /\ ToldIsPending(p)' /\ Answered(c)' /\ OpenIsAsked(p, c)'
  BY <1>0, <1>1 DEF Local, Waiting, ToldIsPending, Answered, OpenIsAsked, OpenView
<1>9. MailIsPending(p, c)'
  BY <1>0, <1>1 DEF Local, MailIsPending, OpenView
<1>10. OpenIsActive(p, c)'
  BY <1>1, <1>5 DEF OpenIsActive, OpenView
<1> QED BY <1>6, <1>7, <1>8, <1>9, <1>10 DEF Local

\* A listener that is connected to OpenCode gets its events.
LEMMA ListenerHears ==
  ASSUME BoundsAssumption, NEW p, NEW c, Scene(p, c), NEW event \in EventType, Publish(event)
  PROVE  /\ listener'[p].stage = listener[p].stage
         /\ IF listener[p].stage \in {"on", "fetching"}
            THEN listener'[p].queue = Append(listener[p].queue, event)
            ELSE listener'[p].queue = listener[p].queue
<1>1. listener \in [Plans -> ListenerType] /\ p \in Plans
  BY SceneFacts
<1> QED BY <1>1 DEF Publish, ListenerType

LEMMA AsksKeeps ==
  ASSUME BoundsAssumption, NEW p, NEW c, Scene(p, c), NEW s \in Plans, OpenCodeAsks(s)
  PROVE  Local(p, c)'
<1> DEFINE queue == listener[p].queue
           question == <<s, asked + 1>>
           event == [type |-> "question", session |-> s, question |-> question]
<1>0. /\ c \in Connections /\ p \in Plans /\ Local(p, c) /\ queue \in Seq(EventType)
      /\ asked \in Nat /\ asking \subseteq Questions
      /\ \A q \in Questions \cup {NoQuestion} : q[2] \in Nat
      /\ session.pending[2] \in Nat /\ job[c].target[2] \in Nat
  BY SceneFacts, AloneTypes
<1>a. s = p
  BY AloneFacts DEF Scene, Basis, Untouched, OpenCodeAsks
<1>1. /\ loop' = loop /\ job' = job /\ mail' = mail /\ plan' = plan /\ session' = session
      /\ told' = told /\ opencode' = opencode /\ opencode[p] = "busy"
      /\ asking' = asking \cup {question}
      /\ Publish(event)
  BY <1>a DEF OpenCodeAsks, loopVars
<1>2. question \in Questions /\ event \in EventType
  <2>1. asked + 1 \in 1 .. MaxAsked
    BY <1>0 DEF OpenCodeAsks, BoundsAssumption
  <2> QED BY <2>1 DEF Questions, EventType
<1>3. event.type = "question" /\ event.question = question /\ question[2] = asked + 1
  OBVIOUS
<1>4. /\ session.pending[2] <= asked /\ job[c].target[2] <= asked
      /\ \A q \in asking : q[2] \in Nat /\ q[2] <= asked
  BY <1>0 DEF Scene, Basis, Counted
<1> HIDE DEF event, question, queue
<1>5. /\ listener'[p].stage = listener[p].stage
      /\ listener'[p].queue = queue \/ listener'[p].queue = Append(queue, event)
      /\ listener'[p].queue # queue => listener[p].stage \in Running
  BY <1>1, <1>2, ListenerHears DEF Running, queue
<1>6. /\ InOrder(queue, asking) /\ After(queue, session.pending[2])
      /\ After(queue, job[c].target[2])
  BY <1>0 DEF Local, Queued, queue
<1>7. /\ InOrder(Append(queue, event), asking \cup {question})
      /\ After(Append(queue, event), session.pending[2])
      /\ After(Append(queue, event), job[c].target[2])
  BY <1>0, <1>2, <1>3, <1>4, <1>6, QueueAsked
<1>8. InOrder(queue, asking \cup {question})
  BY <1>6 DEF InOrder
<1>9. Queued(p, c)'
  <2>1. CASE listener'[p].queue = queue
    BY <1>0, <1>1, <1>5, <1>6, <1>8, <2>1 DEF Local, Queued, queue
  <2>2. CASE listener'[p].queue # queue
    BY <1>1, <1>5, <1>7, <2>2 DEF Queued
  <2> QED BY <2>1, <2>2
<1>10. Waiting(p)' /\ Preparing(p, c)' /\ ToldIsPending(p)' /\ Answered(c)'
  BY <1>0, <1>1, <1>5 DEF Local, Waiting, Preparing, ToldIsPending, Answered
<1>11. MailIsPending(p, c)' /\ OpenIsAsked(p, c)'
  BY <1>0, <1>1 DEF Local, MailIsPending, OpenIsAsked, OpenView
<1>12. OpenIsActive(p, c)'
  <2>1. (\A i \in DOMAIN queue : queue[i].type = "question") =>
          \A i \in DOMAIN Append(queue, event) : Append(queue, event)[i].type = "question"
    BY <1>0, <1>2, <1>3, AppendAt DEF queue
  <2>2. ASSUME NEW view \in {told[p], mail[c].shown}, OpenView(p, view)
        PROVE  /\ plan[p].status \in Active /\ listener[p].stage # "fetching"
               /\ \A i \in DOMAIN queue : queue[i].type = "question"
    BY <1>0, <1>1, <2>2 DEF Local, OpenIsActive, queue
  <2>3. \A view : OpenView(p, view)' <=> OpenView(p, view)
    BY <1>1 DEF OpenView
  <2>4. ASSUME NEW view \in {told'[p], mail'[c].shown}, OpenView(p, view)'
        PROVE  /\ plan'[p].status \in Active /\ listener'[p].stage # "fetching"
               /\ \A i \in DOMAIN listener'[p].queue : listener'[p].queue[i].type = "question"
    BY <1>1, <1>5, <2>1, <2>2, <2>3, <2>4
  <2> QED BY <2>4 DEF OpenIsActive
<1> QED BY <1>9, <1>10, <1>11, <1>12 DEF Local

LEMMA IdleKeeps ==
  ASSUME BoundsAssumption, NEW p, NEW c, Scene(p, c), NEW s \in Plans, OpenCodeIdle(s)
  PROVE  Local(p, c)'
<1> DEFINE queue == listener[p].queue
           event == [type |-> "idle", session |-> s, question |-> NoQuestion]
<1>0. /\ c \in Connections /\ p \in Plans /\ Local(p, c) /\ queue \in Seq(EventType)
      /\ asking \subseteq Questions /\ opencode \in [Plans -> {"idle", "busy"}]
  BY SceneFacts, AloneTypes
<1>a. s = p
  BY AloneFacts DEF Scene, Basis, Untouched, OpenCodeIdle
<1>b. asking = {}
  <2>1. ASSUME NEW q \in asking
        PROVE  FALSE
    <3>1. q[1] \in Plans /\ q[1] # p
      BY <1>0, <1>a DEF OpenCodeIdle, Questions
    <3>2. plan[q[1]] = NoPlan
      BY <3>1, AloneFacts DEF Scene, Basis
    <3> QED BY <3>1, <3>2 DEF Scene, Basis, Untouched
  <2> QED BY <2>1
<1>1. /\ loop' = loop /\ job' = job /\ mail' = mail /\ plan' = plan /\ session' = session
      /\ told' = told /\ opencode'[p] = "idle" /\ asking' = {}
      /\ Publish(event) /\ event \in EventType
  BY <1>0, <1>a, <1>b DEF OpenCodeIdle, loopVars, EventType
<1>2. event.type # "question"
  OBVIOUS
<1> HIDE DEF event, queue
<1>3. /\ listener'[p].stage = listener[p].stage
      /\ listener'[p].queue = queue \/ listener'[p].queue = Append(queue, event)
      /\ listener'[p].queue # queue => listener[p].stage \in Running
  BY <1>1, ListenerHears DEF Running, queue
<1>4. InOrder(Append(queue, event), {}) /\ \A n : After(Append(queue, event), n)
  <2>1. InOrder(queue, {})
    BY <1>0, <1>b DEF Local, Queued, queue
  <2> QED BY <1>0, <1>1, <1>2, <2>1, QueueIdle
<1>5. Queued(p, c)'
  <2>1. CASE listener'[p].queue = queue
    BY <1>0, <1>1, <1>b, <1>3, <2>1 DEF Local, Queued, queue
  <2>2. CASE listener'[p].queue # queue
    BY <1>1, <1>3, <1>4, <2>2 DEF Queued
  <2> QED BY <2>1, <2>2
<1>6. Waiting(p)' /\ Preparing(p, c)' /\ ToldIsPending(p)' /\ Answered(c)'
  BY <1>0, <1>1, <1>3 DEF Local, Waiting, Preparing, ToldIsPending, Answered
<1>7. MailIsPending(p, c)' /\ OpenIsAsked(p, c)'
  BY <1>0, <1>1, <1>b DEF Local, MailIsPending, OpenIsAsked, OpenView
<1>8. OpenIsActive(p, c)'
  BY <1>1 DEF OpenIsActive
<1> QED BY <1>5, <1>6, <1>7, <1>8 DEF Local

-----------------------------------------------------------------------------
(* What the steps leave alone. *)

NoRequest == ~ \E c \in Connections : \E p \in NewPlan : PlanRequest(c, p)

\* Only a request gives a plan an owner.
LEMMA OwnersStay ==
  ASSUME BoundsAssumption, TypeOK, [Next]_vars, NoRequest
  PROVE  \A q \in Plans : plan'[q].owner = plan[q].owner
<1>0. plan \in [Plans -> PlanType]
  BY TypesUnfolded
<1>a. ASSUME NEW p, NEW s, plan' = [plan EXCEPT ![p].status = s]
      PROVE  \A q \in Plans : plan'[q].owner = plan[q].owner
  BY <1>0, <1>a DEF PlanType
<1>b. ASSUME NEW p, NEW s, plan' = [plan EXCEPT ![p].status = s, ![p].revision = @ + 1]
      PROVE  \A q \in Plans : plan'[q].owner = plan[q].owner
  BY <1>0, <1>b DEF PlanType
<1>c. ASSUME NEW ps, Drop(ps)
      PROVE  \A q \in Plans : plan'[q].owner = plan[q].owner
  BY <1>0, <1>c DEF PlanType, Drop
<1>1. ASSUME NEW c \in Connections, LoopStep(c)
      PROVE  \A q \in Plans : plan'[q].owner = plan[q].owner
  <2>1. CASE Close(c) \/ CleanupRaises(c)
    BY <1>c, <2>1 DEF Close, CleanupRaises
  <2>2. CASE PlanResponse(c) \/ Reject(c) \/ AnswerEnds(c)
    BY <1>a, <2>2 DEF PlanResponse, Reject, AnswerEnds
  <2>3. CASE ContinueEnds(c)
    BY <1>b, <2>3 DEF ContinueEnds
  <2>4. CASE Connect(c) \/ Leave(c) \/ StopListener(c) \/ StartListener(c) \/ SessionCreated(c)
             \/ Prompted(c) \/ PlanRequestFails(c) \/ (\E p \in Plans : SendConfirmation(c, p))
    <3>1. plan' = plan
      BY <2>4 DEF Connect, Leave, StopListener, StartListener, SessionCreated, Prompted, Prompt,
                  PlanRequestFails, SendConfirmation
    <3> QED BY <3>1
  <2>5. CASE Refuse(c) \/ Proceed(c) \/ Replied(c) \/ Continued(c) \/ ConfirmationFails(c)
    <3>1. plan' = plan
      BY <2>5 DEF Refuse, Proceed, Replied, Continued, Prompt, ConfirmationFails
    <3> QED BY <3>1
  <2> QED BY <1>1, <2>1, <2>2, <2>3, <2>4, <2>5 DEF LoopStep, NoRequest
<1>2. ASSUME NEW l \in Plans, ListenerStep(l)
      PROVE  \A q \in Plans : plan'[q].owner = plan[q].owner
  <2>1. CASE Subscribed(l) \/ Dies(l) \/ IdleEvent(l) \/ FetchFails(l)
    <3>1. plan' = plan
      BY <2>1 DEF Subscribed, Dies, IdleEvent, FetchFails
    <3> QED BY <3>1
  <2>2. CASE QuestionEvent(l)
    <3>1. plan' = plan \/ \E p : plan' = [plan EXCEPT ![p].status = "needs_confirmation",
                                                      ![p].revision = @ + 1]
      BY <2>2 DEF QuestionEvent
    <3> QED BY <1>b, <3>1
  <2>3. CASE Completed(l)
    <3>1. plan' = plan \/ \E p : plan' = [plan EXCEPT ![p].status = "completed"]
      BY <2>3 DEF Completed
    <3> QED BY <1>a, <3>1
  <2> QED BY <1>2, <2>1, <2>2, <2>3 DEF ListenerStep
<1>3. ASSUME NEW s \in Plans, OpenCodeStep(s)
      PROVE  plan' = plan
  BY <1>3 DEF OpenCodeStep, OpenCodeAsks, OpenCodeIdle
<1>4. CASE Crash
  BY <1>c, <1>4 DEF Crash
<1>5. CASE UNCHANGED vars
  BY <1>5 DEF vars
<1> QED BY <1>1, <1>2, <1>3, <1>4, <1>5 DEF Next

\* A plan does not come back.
LEMMA DroppedStays ==
  ASSUME BoundsAssumption, IInv, [Next]_vars, NoRequest, NEW q \in Plans,
         plan[q].status = "dropped"
  PROVE  plan'[q].status = "dropped"
<1>0. /\ plan \in [Plans -> PlanType] /\ ~ InManager(q)
      /\ \A c \in Connections : job[c].plan # q /\ mail[c].plan # q
  <2>1. ~ InManager(q)
    BY DEF InManager
  <2> QED BY <2>1, TypesUnfolded DEF IInv, Jobs
<1>a. ASSUME NEW p, p # q, NEW s, plan' = [plan EXCEPT ![p].status = s]
      PROVE  plan'[q].status = "dropped"
  BY <1>0, <1>a DEF PlanType
<1>b. ASSUME NEW p, p # q, NEW s, plan' = [plan EXCEPT ![p].status = s, ![p].revision = @ + 1]
      PROVE  plan'[q].status = "dropped"
  BY <1>0, <1>b DEF PlanType
<1>c. ASSUME NEW ps, Drop(ps)
      PROVE  plan'[q].status = "dropped"
  BY <1>0, <1>c DEF PlanType, Drop
<1>1. ASSUME NEW c \in Connections, LoopStep(c)
      PROVE  plan'[q].status = "dropped"
  <2>1. CASE Close(c) \/ CleanupRaises(c)
    BY <1>c, <2>1 DEF Close, CleanupRaises
  <2>2. CASE PlanResponse(c) \/ Reject(c) \/ AnswerEnds(c)
    BY <1>0, <1>a, <2>2 DEF PlanResponse, Reject, AnswerEnds
  <2>3. CASE ContinueEnds(c)
    BY <1>0, <1>b, <2>3 DEF ContinueEnds
  <2>4. CASE Connect(c) \/ Leave(c) \/ StopListener(c) \/ StartListener(c) \/ SessionCreated(c)
             \/ Prompted(c) \/ PlanRequestFails(c) \/ (\E p \in Plans : SendConfirmation(c, p))
    <3>1. plan' = plan
      BY <2>4 DEF Connect, Leave, StopListener, StartListener, SessionCreated, Prompted, Prompt,
                  PlanRequestFails, SendConfirmation
    <3> QED BY <3>1
  <2>5. CASE Refuse(c) \/ Proceed(c) \/ Replied(c) \/ Continued(c) \/ ConfirmationFails(c)
    <3>1. plan' = plan
      BY <2>5 DEF Refuse, Proceed, Replied, Continued, Prompt, ConfirmationFails
    <3> QED BY <3>1
  <2> QED BY <1>1, <2>1, <2>2, <2>3, <2>4, <2>5 DEF LoopStep, NoRequest
<1>2. ASSUME NEW l \in Plans, ListenerStep(l)
      PROVE  plan'[q].status = "dropped"
  <2>1. CASE Subscribed(l) \/ Dies(l) \/ IdleEvent(l) \/ FetchFails(l)
    <3>1. plan' = plan
      BY <2>1 DEF Subscribed, Dies, IdleEvent, FetchFails
    <3> QED BY <3>1
  <2>2. CASE QuestionEvent(l)
    <3> DEFINE p == Earliest(ActiveBeside(l))
    <3>1. plan' = plan \/ (ActiveBeside(l) # {}
                            /\ plan' = [plan EXCEPT ![p].status = "needs_confirmation",
                                                    ![p].revision = @ + 1])
      BY <2>2 DEF QuestionEvent
    <3>2. ActiveBeside(l) # {} => p # q
      BY <1>0, ActiveIsInManager
    <3> HIDE DEF p
    <3> QED BY <1>b, <3>1, <3>2
  <2>3. CASE Completed(l)
    <3> DEFINE p == listener[l].fetching
    <3>1. \/ plan' = plan
          \/ plan[p].status # "dropped" /\ plan' = [plan EXCEPT ![p].status = "completed"]
      BY <2>3 DEF Completed
    <3> HIDE DEF p
    <3> QED BY <1>a, <3>1
  <2> QED BY <1>2, <2>1, <2>2, <2>3 DEF ListenerStep
<1>3. ASSUME NEW s \in Plans, OpenCodeStep(s)
      PROVE  plan' = plan
  BY <1>3 DEF OpenCodeStep, OpenCodeAsks, OpenCodeIdle
<1>4. CASE Crash
  BY <1>c, <1>4 DEF Crash
<1>5. CASE UNCHANGED vars
  BY <1>5 DEF vars
<1> QED BY <1>1, <1>2, <1>3, <1>4, <1>5 DEF Next

\* A failed request stays failed.
LEMMA FailedStays ==
  ASSUME [Next]_vars
  PROVE  failed \subseteq failed'
<1>1. ASSUME NEW c \in Connections, LoopStep(c)
      PROVE  failed \subseteq failed'
  <2>1. CASE Connect(c) \/ Leave(c) \/ StopListener(c) \/ Close(c) \/ CleanupRaises(c)
             \/ (\E p \in NewPlan : PlanRequest(c, p)) \/ StartListener(c) \/ SessionCreated(c)
    BY <2>1 DEF Connect, Leave, StopListener, Close, CleanupRaises, PlanRequest, StartListener, SessionCreated
  <2>2. CASE Prompted(c) \/ PlanResponse(c) \/ PlanRequestFails(c)
             \/ (\E p \in Plans : SendConfirmation(c, p))
    BY <2>2 DEF Prompted, Prompt, PlanResponse, PlanRequestFails, SendConfirmation
  <2>3. CASE Refuse(c) \/ Reject(c) \/ Proceed(c) \/ Replied(c) \/ AnswerEnds(c)
    BY <2>3 DEF Refuse, Reject, Proceed, Receive, Replied, AnswerEnds
  <2>4. CASE Continued(c) \/ ContinueEnds(c) \/ ConfirmationFails(c)
    BY <2>4 DEF Continued, Prompt, ContinueEnds, ConfirmationFails
  <2> QED BY <1>1, <2>1, <2>2, <2>3, <2>4 DEF LoopStep
<1>2. ASSUME NEW l \in Plans, ListenerStep(l)
      PROVE  failed' = failed
  BY <1>2 DEF ListenerStep, Subscribed, Dies, QuestionEvent, IdleEvent, Completed, FetchFails
<1>3. ASSUME NEW s \in Plans, OpenCodeStep(s)
      PROVE  failed' = failed
  BY <1>3 DEF OpenCodeStep, OpenCodeAsks, OpenCodeIdle
<1>4. CASE Crash
  BY <1>4 DEF Crash
<1>5. CASE UNCHANGED vars
  BY <1>5 DEF vars
<1> QED BY <1>1, <1>2, <1>3, <1>4, <1>5 DEF Next

\* A request makes one plan; nothing else makes or unmakes one.
LEMMA RequestMakes ==
  ASSUME BoundsAssumption, TypeOK, NEW c \in Connections, NEW p \in NewPlan, PlanRequest(c, p)
  PROVE  p \in Plans /\ p \notin Requested /\ Requested' = Requested \cup {p}
<1>1. plan \in [Plans -> PlanType] /\ p \in Plans /\ p \notin Requested
  BY TypesUnfolded DEF NewPlan
<1>2. \A q \in Plans : plan'[q] = IF q = p THEN NewDraft(c) ELSE plan[q]
  BY <1>1 DEF PlanRequest
<1>3. NewDraft(c) # NoPlan
  BY DEF NewDraft, NoPlan
<1> QED BY <1>1, <1>2, <1>3 DEF Requested

LEMMA MadeStay ==
  ASSUME BoundsAssumption, IInv, IInv', [Next]_vars, NoRequest
  PROVE  Requested' = Requested
<1>1. \A q \in Plans : plan'[q].owner = plan[q].owner
  BY OwnersStay DEF IInv
<1>2. \A q \in Plans : plan[q].owner = None <=> plan[q] = NoPlan
  BY DEF IInv, Requests
<1>3. \A q \in Plans : plan'[q].owner = None <=> plan'[q] = NoPlan
  BY DEF IInv, Requests
<1> QED BY <1>1, <1>2, <1>3 DEF Requested

\* Nothing happens to a plan that is not made.
LEMMA UntouchedStays ==
  ASSUME BoundsAssumption, Basis, [Next]_vars, NEW q \in Plans, plan[q] = NoPlan
  PROVE  opencode'[q] = "idle" /\ told'[q] = Unheard /\ \A x \in asking' : x[1] # q
<1>0. /\ opencode[q] = "idle" /\ told[q] = Unheard /\ \A x \in asking : x[1] # q
      /\ told \in [Plans -> ToldType] /\ opencode \in [Plans -> {"idle", "busy"}]
      /\ plan[q].owner = None /\ plan[q].status = "none"
      /\ TypeOK /\ Jobs /\ Fetches
  <2>1. told \in [Plans -> ToldType] /\ opencode \in [Plans -> {"idle", "busy"}]
    BY TypesByVariable DEF Basis, IInv, ToldTyped, OpenCodeTyped
  <2> QED BY <2>1 DEF Basis, Untouched, IInv, NoPlan
<1>a. session.id # q
  BY <1>0 DEF Basis, Owned, None, Plans, BoundsAssumption
<1>b. ~ InManager(q)
  BY <1>0 DEF InManager
<1>c. ASSUME NEW c \in Connections
      PROVE  job[c].plan # q /\ mail[c].plan # q
  BY <1>0, <1>b DEF Jobs
<1>d. ASSUME told' = told, opencode' = opencode, asking' \subseteq asking
      PROVE  opencode'[q] = "idle" /\ told'[q] = Unheard /\ \A x \in asking' : x[1] # q
  BY <1>0, <1>d
<1>e. ASSUME NEW p, p # q, NEW r, told' = [told EXCEPT ![p] = r]
      PROVE  told'[q] = Unheard
  BY <1>0, <1>e
<1>f. ASSUME NEW ps, Drop(ps)
      PROVE  told'[q] = Unheard
  BY <1>0, <1>f DEF Drop
<1>1. ASSUME NEW c \in Connections, LoopStep(c)
      PROVE  opencode'[q] = "idle" /\ told'[q] = Unheard /\ \A x \in asking' : x[1] # q
  <2>1. CASE Connect(c) \/ Leave(c) \/ StopListener(c) \/ (\E p \in NewPlan : PlanRequest(c, p))
             \/ StartListener(c) \/ SessionCreated(c)
    BY <1>d, <2>1 DEF Connect, Leave, StopListener, PlanRequest, StartListener, SessionCreated,
                      opencodeVars
  <2>2. CASE PlanRequestFails(c) \/ (\E p \in Plans : SendConfirmation(c, p))
             \/ Refuse(c) \/ Proceed(c) \/ Replied(c) \/ ConfirmationFails(c)
    BY <1>d, <2>2 DEF PlanRequestFails, SendConfirmation, Refuse, Proceed, Receive, Replied,
                      ConfirmationFails, opencodeVars
  <2>3. CASE Close(c) \/ CleanupRaises(c)
    <3>1. told'[q] = Unheard
      BY <1>f, <2>3 DEF Close, CleanupRaises
    <3> QED BY <1>0, <2>3, <3>1 DEF Close, CleanupRaises, opencodeVars
  <2>4. CASE Prompted(c) \/ Continued(c)
    <3>1. /\ told' = told /\ asking' = asking
          /\ opencode' = [opencode EXCEPT ![session.id] = "busy"]
      BY <2>4 DEF Prompted, Continued, Prompt
    <3> QED BY <1>0, <1>a, <3>1
  <2>5. CASE PlanResponse(c) \/ AnswerEnds(c) \/ ContinueEnds(c)
    <3>1. \E r : told' = [told EXCEPT ![job[c].plan] = r]
      BY <2>5, Zenon DEF PlanResponse, AnswerEnds, ContinueEnds, Tell, Show
    <3>2. told'[q] = Unheard
      BY <1>c, <1>e, <3>1
    <3>3. UNCHANGED opencodeVars
      BY <2>5, Zenon DEF PlanResponse, AnswerEnds, ContinueEnds
    <3> QED BY <1>0, <3>2, <3>3 DEF opencodeVars
  <2>6. CASE Reject(c)
    <3>1. told' = [told EXCEPT ![mail[c].plan] = Unheard] /\ UNCHANGED opencodeVars
      BY <2>6 DEF Reject, Receive
    <3>2. told'[q] = Unheard
      BY <1>c, <1>e, <3>1
    <3> QED BY <1>0, <3>1, <3>2 DEF opencodeVars
  <2> QED BY <1>1, <2>1, <2>2, <2>3, <2>4, <2>5, <2>6 DEF LoopStep
<1>2. ASSUME NEW l \in Plans, ListenerStep(l)
      PROVE  opencode'[q] = "idle" /\ told'[q] = Unheard /\ \A x \in asking' : x[1] # q
  <2>0. UNCHANGED opencodeVars
    BY <1>2 DEF ListenerStep, Subscribed, Dies, QuestionEvent, IdleEvent, Completed, FetchFails
  <2>1. told'[q] = Unheard
    <3>1. CASE Subscribed(l) \/ Dies(l) \/ IdleEvent(l) \/ FetchFails(l)
      BY <1>0, <3>1 DEF Subscribed, Dies, IdleEvent, FetchFails
    <3>2. CASE QuestionEvent(l)
      <4> DEFINE p == Earliest(ActiveBeside(l))
      <4>1. CASE ActiveBeside(l) = {}
        BY <1>0, <3>2, <4>1 DEF QuestionEvent
      <4>2. CASE ActiveBeside(l) # {}
        <5>1. \E r : told' = [told EXCEPT ![p] = r]
          BY <3>2, <4>2 DEF QuestionEvent, Show
        <5>2. p # q
          BY <1>b, <4>2, ActiveIsInManager DEF Basis
        <5> HIDE DEF p
        <5> QED BY <1>e, <5>1, <5>2
      <4> QED BY <4>1, <4>2
    <3>3. CASE Completed(l)
      <4> DEFINE p == listener[l].fetching
      <4>1. listener[l].stage = "fetching" /\ (told' = told \/ \E r : told' = [told EXCEPT ![p] = r])
        BY <3>3 DEF Completed, FetchReturns, Tell, Show
      <4>2. p # q
        BY <1>0, <4>1 DEF TypeOK, Fetches
      <4> HIDE DEF p
      <4> QED BY <1>0, <1>e, <4>1, <4>2
    <3> QED BY <1>2, <3>1, <3>2, <3>3 DEF ListenerStep
  <2> QED BY <1>0, <2>0, <2>1 DEF opencodeVars
<1>3. ASSUME NEW s \in Plans, OpenCodeStep(s)
      PROVE  opencode'[q] = "idle" /\ told'[q] = Unheard /\ \A x \in asking' : x[1] # q
  <2>1. opencode[s] = "busy" /\ told' = told
    BY <1>3 DEF OpenCodeStep, OpenCodeAsks, OpenCodeIdle
  <2>2. s # q
    BY <1>0, <2>1
  <2>3. CASE OpenCodeAsks(s)
    BY <1>0, <2>1, <2>2, <2>3 DEF OpenCodeAsks
  <2>4. CASE OpenCodeIdle(s)
    BY <1>0, <2>1, <2>2, <2>4 DEF OpenCodeIdle
  <2> QED BY <1>3, <2>3, <2>4 DEF OpenCodeStep
<1>4. CASE Crash
  BY <1>0, <1>4, <1>f DEF Crash
<1>5. CASE UNCHANGED vars
  BY <1>d, <1>5 DEF vars, opencodeVars
<1> QED BY <1>1, <1>2, <1>3, <1>4, <1>5 DEF Next

LEMMA PlansOnlyMade ==
  ASSUME BoundsAssumption, Basis, IInv', [Next]_vars
  PROVE  \A q \in Plans : plan'[q] = NoPlan => plan[q] = NoPlan
<1>1. Requested \subseteq Requested'
  <2>1. CASE NoRequest
    BY <2>1, MadeStay DEF Basis
  <2>2. CASE ~ NoRequest
    BY <2>2, RequestMakes DEF NoRequest, Basis, IInv
  <2> QED BY <2>1, <2>2
<1> QED BY <1>1 DEF Requested

LEMMA UntouchedKept ==
  ASSUME BoundsAssumption, Basis, IInv', [Next]_vars
  PROVE  Untouched'
BY PlansOnlyMade, UntouchedStays DEF Untouched

LEMMA AddressedKept ==
  ASSUME BoundsAssumption, OneConnection, Basis, [Next]_vars
  PROVE  Addressed'
<1>0. /\ loop \in [Connections -> Stages]
      /\ job \in [Connections -> JobType] /\ mail \in [Connections -> JobType]
      /\ \A c, d \in Connections : d = c
  BY TypesUnfolded, OneOwner DEF Basis, IInv
<1>a. ASSUME NEW c \in Connections,
             mail'[c] \in {mail[c], NoJob} \/ mail'[c].plan \in Plans,
             \/ loop'[c] \notin Handling
             \/ loop[c] \in Handling /\ job'[c] = job[c]
             \/ job'[c].plan \in Plans
      PROVE  Addressed'
  BY <1>0, <1>a DEF Basis, Addressed
<1>1. ASSUME NEW c \in Connections, LoopStep(c)
      PROVE  Addressed'
  <2>1. CASE Connect(c) \/ Leave(c) \/ StopListener(c) \/ Close(c) \/ CleanupRaises(c)
    <3>1. /\ mail'[c] \in {mail[c], NoJob}
          /\ loop'[c] \in {"recv", "left", "stopping", "closed"}
      BY <1>0, <2>1 DEF Connect, Leave, StopListener, Close, CleanupRaises
    <3> QED BY <1>a, <3>1 DEF Handling
  <2>2. CASE (\E p \in NewPlan : PlanRequest(c, p)) \/ StartListener(c) \/ SessionCreated(c)
             \/ Prompted(c)
    <3>1. mail' = mail /\ loop'[c] \in {"client", "create", "prompt", "prompted"}
      BY <1>0, <2>2 DEF PlanRequest, StartListener, SessionCreated, Prompted, Prompt
    <3> QED BY <1>a, <3>1 DEF Handling
  <2>3. CASE PlanResponse(c) \/ PlanRequestFails(c) \/ AnswerEnds(c) \/ ContinueEnds(c)
             \/ ConfirmationFails(c)
    <3>1. Respond(c)
      BY <2>3 DEF PlanResponse, PlanRequestFails, AnswerEnds, ContinueEnds, ConfirmationFails
    <3>2. mail' = mail /\ loop'[c] = "recv"
      BY <1>0, <3>1 DEF Respond
    <3> QED BY <1>a, <3>2 DEF Handling
  <2>4. ASSUME NEW p \in Plans, SendConfirmation(c, p)
        PROVE  Addressed'
    <3>1. mail'[c].plan = p /\ loop' = loop /\ job' = job
      BY <1>0, <2>4 DEF SendConfirmation
    <3> QED BY <1>a, <3>1
  <2>5. CASE Refuse(c) \/ Reject(c)
    <3>1. mail'[c] = NoJob /\ loop' = loop /\ job' = job
      BY <1>0, <2>5 DEF Refuse, Reject, Receive
    <3> QED BY <1>a, <3>1
  <2>6. CASE Proceed(c)
    <3>1. mail[c] # NoJob /\ mail'[c] = NoJob /\ job'[c].plan = mail[c].plan
      BY <1>0, <2>6 DEF Proceed, Receive, JobType
    <3> QED BY <1>a, <3>1 DEF Basis, Addressed
  <2>7. CASE Replied(c) \/ Continued(c)
    <3>1. mail' = mail /\ job' = job /\ loop[c] \in Handling
      BY <2>7 DEF Replied, Continued, Prompt, Handling
    <3> QED BY <1>a, <3>1
  <2> QED BY <1>1, <2>1, <2>2, <2>3, <2>4, <2>5, <2>6, <2>7 DEF LoopStep
<1>b. ASSUME UNCHANGED loopVars
      PROVE  Addressed'
  BY <1>b DEF loopVars, Basis, Addressed
<1>2. ASSUME NEW l \in Plans, ListenerStep(l)
      PROVE  UNCHANGED loopVars
  BY <1>2 DEF ListenerStep, Subscribed, Dies, QuestionEvent, IdleEvent, Completed, FetchFails
<1>3. ASSUME NEW s \in Plans, OpenCodeStep(s)
      PROVE  UNCHANGED loopVars
  BY <1>3 DEF OpenCodeStep, OpenCodeAsks, OpenCodeIdle
<1>4. CASE Crash
  BY <1>4 DEF Crash, Addressed, Handling
<1>5. CASE UNCHANGED vars
  BY <1>5, <1>b DEF vars
<1> QED BY <1>1, <1>2, <1>3, <1>4, <1>5, <1>b DEF Next

\* How a step sets a listener: it is made anew, or hears or handles an event.
Renewed(l) ==
  \E stage : /\ listener'[l] = Listener(stage)
             /\ stage \in Running => \E c \in Connections : StartListener(c) /\ job[c].plan = l
Heard(l) == /\ listener[l].stage \in Running /\ listener'[l].stage \in Running
            /\ listener'[l].queue = listener[l].queue
Handled(l) == /\ listener[l].stage \in Running /\ listener'[l].stage \in Running
              /\ listener[l].queue # << >> /\ listener'[l].queue = Tail(listener[l].queue)
Notified(l, s) ==
  \E event \in EventType :
    /\ listener[l].stage \in Running /\ listener'[l].stage \in Running
    /\ listener'[l].queue = Append(listener[l].queue, event)
    /\ event.question = NoQuestion \/ event.question = <<s, asked'>>

LEMMA ListenerSteps ==
  ASSUME BoundsAssumption, TypeOK, [Next]_vars, NEW l \in Plans
  PROVE  \/ listener'[l] = listener[l]
         \/ Renewed(l) \/ Heard(l) \/ Handled(l)
         \/ \E s \in Plans : Notified(l, s)
<1>0. listener \in [Plans -> ListenerType]
  BY TypesUnfolded
<1>a. ASSUME NEW k, listener' = Stopped(k)
      PROVE  listener'[l] = listener[l] \/ Renewed(l)
  BY <1>0, <1>a DEF Stopped, Renewed, Running
<1>b. ASSUME NEW k, NEW stage, stage \notin Running,
             listener' = [listener EXCEPT ![k] = Listener(stage)]
      PROVE  listener'[l] = listener[l] \/ Renewed(l)
  BY <1>0, <1>b DEF Renewed
<1>1. ASSUME NEW c \in Connections, LoopStep(c)
      PROVE  listener'[l] = listener[l] \/ Renewed(l)
  <2>1. CASE StopListener(c) \/ \E p \in NewPlan : PlanRequest(c, p)
    BY <1>a, <2>1 DEF StopListener, PlanRequest
  <2>2. CASE StartListener(c)
    BY <1>0, <2>2 DEF StartListener, Renewed
  <2>3. CASE Connect(c) \/ Leave(c) \/ Close(c) \/ CleanupRaises(c) \/ SessionCreated(c)
             \/ Prompted(c) \/ PlanResponse(c) \/ PlanRequestFails(c)
             \/ (\E p \in Plans : SendConfirmation(c, p))
    <3>1. listener' = listener
      BY <2>3 DEF Connect, Leave, Close, CleanupRaises, SessionCreated, Prompted, Prompt, PlanResponse,
                  PlanRequestFails, SendConfirmation
    <3> QED BY <3>1
  <2>4. CASE Refuse(c) \/ Reject(c) \/ Proceed(c) \/ Replied(c) \/ AnswerEnds(c)
             \/ Continued(c) \/ ContinueEnds(c) \/ ConfirmationFails(c)
    <3>1. listener' = listener
      BY <2>4 DEF Refuse, Reject, Proceed, Receive, Replied, AnswerEnds, Continued, Prompt,
                  ContinueEnds, ConfirmationFails
    <3> QED BY <3>1
  <2> QED BY <1>1, <2>1, <2>2, <2>3, <2>4 DEF LoopStep
<1>2. ASSUME NEW k \in Plans, ListenerStep(k)
      PROVE  listener'[l] = listener[l] \/ Renewed(l) \/ Heard(l) \/ Handled(l)
  <2>1. CASE Dies(k)
    BY <1>b, <2>1 DEF Dies, Running
  <2>2. CASE Subscribed(k)
    BY <1>0, <2>2 DEF Subscribed, Heard, ListenerType, Running
  <2>3. CASE Completed(k) \/ FetchFails(k)
    <3>1. FetchReturns(k)
      BY <2>3 DEF Completed, FetchFails
    <3> QED BY <1>0, <3>1 DEF FetchReturns, Heard, ListenerType, Running
  <2>4. CASE QuestionEvent(k)
    BY <1>0, <2>4 DEF QuestionEvent, NextEvent, Handled, ListenerType, Running
  <2>5. CASE IdleEvent(k)
    BY <1>0, <2>5 DEF IdleEvent, NextEvent, Handled, ListenerType, Running
  <2> QED BY <1>2, <2>1, <2>2, <2>3, <2>4, <2>5 DEF ListenerStep
<1>3. ASSUME NEW s \in Plans, OpenCodeStep(s)
      PROVE  listener'[l] = listener[l] \/ Notified(l, s)
  <2>1. PICK event \in EventType : Publish(event)
                                    /\ (event.question = NoQuestion \/ event.question = <<s, asked'>>)
    <3>1. CASE OpenCodeAsks(s)
      <4> DEFINE asks == [type |-> "question", session |-> s, question |-> <<s, asked'>>]
      <4>1. Publish(asks) /\ asks.question = <<s, asked'>>
        BY <3>1 DEF OpenCodeAsks
      <4>2. asks \in EventType
        <5>1. asked' \in 1 .. MaxAsked
          BY <3>1, TypesByVariable DEF OpenCodeAsks, OpenCodeTyped, BoundsAssumption
        <5> QED BY <5>1 DEF EventType, Questions
      <4> QED BY <4>1, <4>2
    <3>2. CASE OpenCodeIdle(s)
      <4> DEFINE idles == [type |-> "idle", session |-> s, question |-> NoQuestion]
      <4>1. Publish(idles) /\ idles.question = NoQuestion /\ idles \in EventType
        BY <3>2 DEF OpenCodeIdle, EventType
      <4> QED BY <4>1
    <3> QED BY <1>3, <3>1, <3>2 DEF OpenCodeStep
  <2> QED BY <1>0, <2>1 DEF Publish, Notified, ListenerType, Running
<1>4. CASE Crash
  BY <1>4 DEF Crash, Renewed, Running
<1>5. CASE UNCHANGED vars
  BY <1>5 DEF vars
<1> QED BY <1>1, <1>2, <1>3, <1>4, <1>5 DEF Next

LEMMA EmptiedKept ==
  ASSUME BoundsAssumption, Basis, [Next]_vars
  PROVE  Emptied'
<1> SUFFICES ASSUME NEW l \in Plans, listener'[l].stage \notin Running
             PROVE  listener'[l].queue = << >>
  BY DEF Emptied
<1>1. CASE listener'[l] = listener[l]
  BY <1>1 DEF Basis, Emptied
<1>2. CASE Renewed(l)
  BY <1>2 DEF Renewed, Listener
<1> QED BY <1>1, <1>2, ListenerSteps DEF Heard, Handled, Notified, Basis, IInv

\* Only a listener that runs goes on, and one is started for the job of a request.
LEMMA StartedKept ==
  ASSUME BoundsAssumption, Basis, IInv', [Next]_vars
  PROVE  Started'
<1> SUFFICES ASSUME NEW l \in Plans, plan'[l] = NoPlan
             PROVE  listener'[l].stage \notin Running
  BY DEF Started
<1>1. plan[l] = NoPlan /\ ~ InManager(l)
  <2>1. plan[l] = NoPlan
    BY PlansOnlyMade
  <2> QED BY <2>1 DEF InManager, NoPlan
<1>2. listener[l].stage \notin Running
  BY <1>1 DEF Basis, Started
<1>3. CASE Renewed(l)
  <2>1. PICK stage : /\ listener'[l] = Listener(stage)
                     /\ stage \in Running =>
                          \E c \in Connections : StartListener(c) /\ job[c].plan = l
    BY <1>3 DEF Renewed
  <2>2. ASSUME NEW c \in Connections
        PROVE  job[c].plan # l
    BY <1>1 DEF Basis, IInv, Jobs
  <2> QED BY <2>1, <2>2 DEF Listener
<1> QED BY <1>2, <1>3, ListenerSteps DEF Heard, Handled, Notified, Basis, IInv

\* What can become pending, and what can be the target of an answer.
LEMMA PendingSteps ==
  ASSUME BoundsAssumption, TypeOK, [Next]_vars
  PROVE  \/ session'.pending \in {session.pending, NoQuestion} \cup asking
         \/ \E l \in Plans : \E i \in DOMAIN listener[l].queue :
              session'.pending = listener[l].queue[i].question
<1>0. session \in SessionType /\ listener \in [Plans -> ListenerType]
  BY TypesUnfolded
<1>a. ASSUME NEW q, session' = SetPending(q)
      PROVE  session'.pending \in {session.pending, q}
  BY <1>0, <1>a DEF SetPending, SessionType
<1>b. ASSUME NEW l, session' = UpdateListener(l)
      PROVE  session'.pending = session.pending
  BY <1>0, <1>b DEF UpdateListener, SessionType
<1>d. ASSUME session' = AbandonListener
      PROVE  session'.pending = session.pending
  BY <1>0, <1>d DEF AbandonListener, SessionType
<1>1. ASSUME NEW c \in Connections, LoopStep(c)
      PROVE  session'.pending \in {session.pending, NoQuestion} \cup asking
  <2>1. CASE Connect(c)
    <3>1. PICK q \in asking \cup {session.pending} : session' = SetPending(q)
      BY <2>1 DEF Connect
    <3> QED BY <1>a, <3>1
  <2>2. CASE Close(c) \/ CleanupRaises(c) \/ PlanResponse(c)
    BY <1>b, <1>d, <2>2 DEF Close, CleanupRaises, PlanResponse
  <2>3. CASE AnswerEnds(c)
    <3>1. session' = SetPending(NoQuestion)
      BY <2>3 DEF AnswerEnds
    <3> QED BY <1>a, <3>1
  <2>4. CASE SessionCreated(c)
    BY <2>4 DEF SessionCreated, NewSession, NoSession
  <2>5. CASE Leave(c) \/ StopListener(c) \/ (\E p \in NewPlan : PlanRequest(c, p))
             \/ StartListener(c) \/ Prompted(c) \/ PlanRequestFails(c)
    <3>1. session' = session
      BY <2>5 DEF Leave, StopListener, PlanRequest, StartListener, Prompted, Prompt,
                  PlanRequestFails
    <3> QED BY <3>1
  <2>6. CASE (\E p \in Plans : SendConfirmation(c, p)) \/ Refuse(c) \/ Reject(c) \/ Proceed(c)
    <3>1. session' = session
      BY <2>6 DEF SendConfirmation, Refuse, Reject, Proceed, Receive
    <3> QED BY <3>1
  <2>7. CASE Replied(c) \/ Continued(c) \/ ContinueEnds(c) \/ ConfirmationFails(c)
    <3>1. session' = session
      BY <2>7 DEF Replied, Continued, Prompt, ContinueEnds, ConfirmationFails
    <3> QED BY <3>1
  <2> QED BY <1>1, <2>1, <2>2, <2>3, <2>4, <2>5, <2>6, <2>7 DEF LoopStep
<1>2. ASSUME NEW l \in Plans, ListenerStep(l)
      PROVE  \/ session'.pending = session.pending
             \/ \E i \in DOMAIN listener[l].queue :
                  session'.pending = listener[l].queue[i].question
  <2>1. CASE QuestionEvent(l)
    <3>1. /\ session' = SetPending(Head(listener[l].queue).question)
          /\ listener[l].queue # << >> /\ listener[l].queue \in Seq(EventType)
      BY <1>0, <2>1 DEF QuestionEvent, NextEvent, ListenerType
    <3>2. 1 \in DOMAIN listener[l].queue /\ Head(listener[l].queue) = listener[l].queue[1]
      BY <3>1
    <3> QED BY <1>a, <3>1, <3>2
  <2>2. CASE ~ QuestionEvent(l)
    BY <1>2, <2>2 DEF ListenerStep, Subscribed, Dies, IdleEvent, Completed, FetchFails
  <2> QED BY <2>1, <2>2
<1>3. ASSUME NEW s \in Plans, OpenCodeStep(s)
      PROVE  session' = session
  BY <1>3 DEF OpenCodeStep, OpenCodeAsks, OpenCodeIdle
<1>4. CASE Crash
  BY <1>4 DEF Crash, NoSession
<1>5. CASE UNCHANGED vars
  BY <1>5 DEF vars
<1> QED BY <1>1, <1>2, <1>3, <1>4, <1>5 DEF Next

LEMMA TargetSteps ==
  ASSUME BoundsAssumption, TypeOK, [Next]_vars, NEW d \in Connections
  PROVE  job'[d].target \in {job[d].target, NoQuestion, session.pending}
<1>0. job \in [Connections -> JobType] /\ mail \in [Connections -> JobType]
      /\ NoJob.target = NoQuestion
  BY TypesUnfolded DEF NoJob
<1>1. ASSUME NEW c \in Connections, LoopStep(c)
      PROVE  job'[d].target \in {job[d].target, NoQuestion, session.pending}
  <2>1. ASSUME NEW p \in NewPlan, PlanRequest(c, p)
        PROVE  job'[d].target \in {job[d].target, NoQuestion}
    BY <1>0, <2>1 DEF PlanRequest, NoJob
  <2>2. CASE Proceed(c)
    BY <1>0, <2>2 DEF Proceed, JobType
  <2>3. CASE PlanResponse(c) \/ PlanRequestFails(c) \/ AnswerEnds(c) \/ ContinueEnds(c)
             \/ ConfirmationFails(c)
    <3>1. job' = [job EXCEPT ![c] = NoJob]
      BY <2>3 DEF PlanResponse, PlanRequestFails, AnswerEnds, ContinueEnds, ConfirmationFails,
                  Respond
    <3> QED BY <1>0, <3>1
  <2>4. CASE Connect(c) \/ Leave(c) \/ StopListener(c) \/ Close(c) \/ CleanupRaises(c) \/ StartListener(c)
             \/ SessionCreated(c) \/ Prompted(c)
    <3>1. job' = job
      BY <2>4 DEF Connect, Leave, StopListener, Close, CleanupRaises, StartListener, SessionCreated, Prompted,
                  Prompt
    <3> QED BY <3>1
  <2>5. CASE (\E p \in Plans : SendConfirmation(c, p)) \/ Refuse(c) \/ Reject(c)
             \/ Replied(c) \/ Continued(c)
    <3>1. job' = job
      BY <2>5 DEF SendConfirmation, Refuse, Reject, Replied, Continued, Prompt
    <3> QED BY <3>1
  <2> QED BY <1>1, <2>1, <2>2, <2>3, <2>4, <2>5 DEF LoopStep
<1>2. ASSUME NEW l \in Plans, ListenerStep(l)
      PROVE  job' = job
  BY <1>2 DEF ListenerStep, Subscribed, Dies, QuestionEvent, IdleEvent, Completed, FetchFails,
              loopVars
<1>3. ASSUME NEW s \in Plans, OpenCodeStep(s)
      PROVE  job' = job
  BY <1>3 DEF OpenCodeStep, OpenCodeAsks, OpenCodeIdle, loopVars
<1>4. CASE Crash
  BY <1>0, <1>4 DEF Crash
<1>5. CASE UNCHANGED vars
  BY <1>5 DEF vars, loopVars
<1> QED BY <1>1, <1>2, <1>3, <1>4, <1>5 DEF Next

LEMMA AskedSteps ==
  ASSUME BoundsAssumption, TypeOK, [Next]_vars
  PROVE  \/ asked' = asked /\ asking' \subseteq asking
         \/ asked' = asked + 1 /\ \E s \in Plans : asking' = asking \cup {<<s, asked'>>}
<1>1. ASSUME NEW c \in Connections, LoopStep(c)
      PROVE  asked' = asked /\ asking' \subseteq asking
  <2>1. CASE Connect(c) \/ Leave(c) \/ StopListener(c) \/ Close(c) \/ CleanupRaises(c)
             \/ (\E p \in NewPlan : PlanRequest(c, p)) \/ StartListener(c) \/ SessionCreated(c)
    BY <2>1 DEF Connect, Leave, StopListener, Close, CleanupRaises, PlanRequest, StartListener,
                SessionCreated, opencodeVars
  <2>2. CASE Prompted(c) \/ PlanResponse(c) \/ PlanRequestFails(c)
             \/ (\E p \in Plans : SendConfirmation(c, p))
    BY <2>2 DEF Prompted, Prompt, PlanResponse, PlanRequestFails, SendConfirmation,
                opencodeVars
  <2>3. CASE Refuse(c) \/ Reject(c) \/ Proceed(c) \/ Replied(c) \/ AnswerEnds(c)
    BY <2>3 DEF Refuse, Reject, Proceed, Receive, Replied, AnswerEnds, opencodeVars
  <2>4. CASE Continued(c) \/ ContinueEnds(c) \/ ConfirmationFails(c)
    BY <2>4 DEF Continued, Prompt, ContinueEnds, ConfirmationFails, opencodeVars
  <2> QED BY <1>1, <2>1, <2>2, <2>3, <2>4 DEF LoopStep
<1>2. ASSUME NEW l \in Plans, ListenerStep(l)
      PROVE  UNCHANGED <<asked, asking>>
  BY <1>2 DEF ListenerStep, Subscribed, Dies, QuestionEvent, IdleEvent, Completed, FetchFails,
              opencodeVars
<1>3. ASSUME NEW s \in Plans, OpenCodeStep(s)
      PROVE  \/ UNCHANGED <<asked, asking>>
             \/ asked' = asked + 1 /\ asking' = asking \cup {<<s, asked'>>}
  BY <1>3 DEF OpenCodeStep, OpenCodeAsks, OpenCodeIdle
<1>4. CASE Crash
  BY <1>4 DEF Crash
<1>5. CASE UNCHANGED vars
  BY <1>5 DEF vars, opencodeVars
<1> QED BY <1>1, <1>2, <1>3, <1>4, <1>5 DEF Next

LEMMA CountedKept ==
  ASSUME BoundsAssumption, Basis, [Next]_vars
  PROVE  Counted'
<1>0. /\ TypeOK /\ listener \in [Plans -> ListenerType] /\ session \in SessionType
      /\ asked \in Nat /\ asking \subseteq Questions /\ NoQuestion[2] = 0
      /\ job \in [Connections -> JobType]
      /\ \A q \in Questions \cup {NoQuestion} : q[2] \in Nat
  BY TypesUnfolded, TypesByVariable
     DEF Basis, IInv, OpenCodeTyped, BoundsAssumption, NoQuestion, Questions
<1>a. /\ session.pending[2] <= asked /\ \A q \in asking : q[2] <= asked
      /\ \A c \in Connections : job[c].target[2] <= asked
      /\ \A l \in Plans : \A i \in DOMAIN listener[l].queue :
           listener[l].queue[i].question[2] <= asked
  BY DEF Basis, Counted
<1>b. /\ asked' \in Nat /\ asked <= asked'
      /\ \A n \in Nat : n <= asked => n <= asked'
  BY <1>0, AskedSteps
<1>c. /\ session.pending[2] \in Nat /\ \A c \in Connections : job[c].target[2] \in Nat
      /\ \A l \in Plans : \A i \in DOMAIN listener[l].queue :
           listener[l].queue[i].question[2] \in Nat
  <2>1. \A l \in Plans : listener[l].queue \in Seq(EventType)
    BY <1>0 DEF ListenerType
  <2>2. \A l \in Plans : \A i \in DOMAIN listener[l].queue :
           listener[l].queue[i].question \in Questions \cup {NoQuestion}
    BY <2>1 DEF EventType
  <2>3. /\ session.pending \in Questions \cup {NoQuestion}
        /\ \A c \in Connections : job[c].target \in Questions \cup {NoQuestion}
    BY <1>0 DEF SessionType, JobType
  <2> QED BY <1>0, <2>2, <2>3
<1>1. \A q \in asking' : q[2] <= asked'
  BY <1>0, <1>a, <1>b, AskedSteps
<1>2. session'.pending[2] <= asked'
  <2>1. CASE session'.pending \in {session.pending, NoQuestion} \cup asking
    BY <1>0, <1>a, <1>b, <1>c, <2>1
  <2>2. CASE \E l \in Plans : \E i \in DOMAIN listener[l].queue :
               session'.pending = listener[l].queue[i].question
    BY <1>a, <1>b, <1>c, <2>2
  <2> QED BY <1>0, <2>1, <2>2, PendingSteps
<1>3. \A c \in Connections : job'[c].target[2] <= asked'
  BY <1>0, <1>a, <1>b, <1>c, TargetSteps
<1>4. ASSUME NEW l \in Plans, NEW i \in DOMAIN listener'[l].queue
      PROVE  listener'[l].queue[i].question[2] <= asked'
  <2> DEFINE queue == listener[l].queue
  <2>0. queue \in Seq(EventType) /\ \A j \in DOMAIN queue : queue[j].question[2] <= asked'
    BY <1>0, <1>a, <1>b, <1>c DEF ListenerType
  <2>1. CASE listener'[l] = listener[l] \/ Heard(l)
    BY <2>0, <2>1 DEF Heard
  <2>2. CASE Renewed(l)
    BY <2>2 DEF Renewed, Listener
  <2>3. CASE Handled(l)
    <3>1. listener'[l].queue = Tail(queue) /\ queue # << >>
      BY <2>3 DEF Handled
    <3> HIDE DEF queue
    <3>2. i + 1 \in DOMAIN queue /\ Tail(queue)[i] = queue[i + 1]
      BY <1>4, <2>0, <3>1
    <3> QED BY <2>0, <3>1, <3>2
  <2>4. ASSUME NEW s \in Plans, Notified(l, s)
        PROVE  listener'[l].queue[i].question[2] <= asked'
    <3>1. PICK event \in EventType :
            /\ listener'[l].queue = Append(queue, event)
            /\ event.question = NoQuestion \/ event.question = <<s, asked'>>
      BY <2>4 DEF Notified
    <3>2. event.question[2] <= asked'
      BY <1>0, <1>b, <3>1
    <3>3. \/ i \in DOMAIN queue /\ Append(queue, event)[i] = queue[i]
          \/ Append(queue, event)[i] = event
      BY <1>4, <2>0, <3>1, AppendAt
    <3> HIDE DEF queue
    <3> QED BY <2>0, <3>1, <3>2, <3>3
  <2> QED BY <1>0, <2>1, <2>2, <2>3, <2>4, ListenerSteps
<1> QED BY <1>1, <1>2, <1>3, <1>4 DEF Counted

-----------------------------------------------------------------------------
(* The invariant. *)

LEMMA BasisKept ==
  ASSUME BoundsAssumption, OneConnection, Basis, AtWork, IInv', [Next]_vars
  PROVE  Basis'
<1>1. Owned'
  BY OwnedKept DEF Basis, IInv
<1>2. Untouched' /\ Started' /\ Counted' /\ Addressed' /\ Emptied'
  BY UntouchedKept, StartedKept, CountedKept, AddressedKept, EmptiedKept
<1> QED BY <1>1, <1>2 DEF Basis

\* The only plan, from its request on.
LEMMA LocalKept ==
  ASSUME BoundsAssumption, NEW p, NEW c, Scene(p, c), [Next]_vars, NoRequest, failed' = {}
  PROVE  Local(p, c)'
<1>0. p \in Plans /\ c \in Connections /\ TypeOK /\ Local(p, c)
  BY SceneFacts
<1>a. QuietStep(p, c) => Local(p, c)'
  BY <1>0, QuietStays
<1>1. ASSUME NEW d \in Connections, LoopStep(d)
      PROVE  Local(p, c)'
  <2>1. d = c
    BY <1>0, OneOwner DEF Scene
  <2>2. CASE Leave(c) \/ Refuse(c) \/ Reject(c) \/ StopListener(c) \/ Close(c)
             \/ CleanupRaises(c) \/ PlanResponse(c) \/ AnswerEnds(c) \/ ContinueEnds(c) \/ ConfirmationFails(c)
    BY <1>a, <2>2, LeaveIsQuiet, EndIsQuiet, ResponseIsQuiet
  <2>3. CASE Connect(c) \/ StartListener(c) \/ SessionCreated(c) \/ Prompted(c)
    BY <2>3, NoneConnects, RequestStepIsBlank
  <2>4. CASE Continued(c) \/ Proceed(c) \/ Replied(c)
             \/ (\E q \in Plans : SendConfirmation(c, q))
    BY <2>4, ContinuedKeeps, ProceedKeeps, RepliedKeeps, SendConfirmationKeeps
  <2>5. CASE PlanRequestFails(c)
    <3>1. job[c].plan \in failed'
      BY <2>5 DEF PlanRequestFails
    <3> QED BY <3>1
  <2> QED BY <1>0, <1>1, <2>1, <2>2, <2>3, <2>4, <2>5, Zenon DEF LoopStep, NoRequest
<1>2. ASSUME NEW l \in Plans, ListenerStep(l)
      PROVE  Local(p, c)'
  BY <1>2, <1>a, ListenerIsQuiet, QuestionEventKeeps, IdleEventKeeps DEF ListenerStep
<1>3. ASSUME NEW s \in Plans, OpenCodeStep(s)
      PROVE  Local(p, c)'
  BY <1>3, AsksKeeps, IdleKeeps DEF OpenCodeStep
<1>4. CASE Crash
  BY <1>4, CrashIsBlank
<1>5. CASE UNCHANGED vars
  <2>1. QuietStep(p, c)
    BY <1>5 DEF vars, loopVars, opencodeVars, QuietStep
  <2> QED BY <1>a, <2>1
<1> QED BY <1>1, <1>2, <1>3, <1>4, <1>5 DEF Next

\* The only plan, when it is requested.
LEMMA LocalBegins ==
  ASSUME BoundsAssumption, OneConnection, Basis, NEW c \in Connections, NEW p \in NewPlan,
         PlanRequest(c, p), Requested = {}, failed = {}
  PROVE  Local(p, c)'
<1>0. /\ TypeOK /\ Jobs /\ Started /\ p \in Plans
      /\ loop \in [Connections -> Stages] /\ listener \in [Plans -> ListenerType]
      /\ asking \subseteq Questions
      /\ \A q \in Plans : plan[q] = NoPlan /\ ~ InManager(q)
  <2>1. asking \subseteq Questions
    BY TypesByVariable DEF Basis, IInv, OpenCodeTyped
  <2> QED BY <2>1, TypesUnfolded DEF Basis, IInv, Requested, NewPlan, InManager, NoPlan
<1>1. /\ loop'[c] = "client" /\ mail' = mail /\ told' = told /\ opencode' = opencode
      /\ asking' = asking /\ listener' = Stopped(session.listener)
  BY <1>0 DEF PlanRequest, opencodeVars
<1>2. /\ opencode[p] = "idle" /\ told[p].question = NoQuestion
  BY <1>0 DEF Basis, Untouched, Unheard
<1>3. asking = {}
  <2>1. ASSUME NEW q \in asking
        PROVE  FALSE
    <3>1. q[1] \in Plans
      BY <1>0 DEF Questions
    <3> QED BY <1>0, <3>1 DEF Basis, Untouched
  <2> QED BY <2>1
<1>4. mail[c].shown.question = NoQuestion
  <2>1. mail[c].plan \notin Plans
    BY <1>0 DEF Jobs
  <2> QED BY <2>1 DEF Basis, Addressed, NoJob, Unheard
<1>5. listener'[p].queue = << >> /\ listener'[p].stage \notin Running
  <2>1. listener[p].stage \notin Running
    BY <1>0 DEF Started
  <2>2. listener[p].queue = << >>
    BY <1>0, <2>1 DEF Basis, Emptied
  <2>3. listener'[p] = listener[p] \/ listener'[p] = Listener("stopped")
    BY <1>0, <1>1 DEF Stopped
  <2> QED BY <2>1, <2>2, <2>3 DEF Listener, Running
<1>6. Queued(p, c)'
  BY <1>5 DEF Queued, InOrder, After
<1>7. Waiting(p)' /\ Preparing(p, c)'
  BY <1>1, <1>2, <1>3, <1>4, <1>5 DEF Waiting, Preparing
<1> QED BY <1>1, <1>2, <1>4, <1>6, <1>7, BlankStays

LEMMA AInvKept ==
  ASSUME BoundsAssumption, OneConnection, AInv, AtWork, IInv', [Next]_vars
  PROVE  AInv'
<1>1. Basis'
  BY BasisKept DEF AInv
<1>2. ASSUME NEW p \in Plans, NEW c \in Connections, Alone(p)'
      PROVE  Local(p, c)'
  <2>0. Requested' = {p} /\ failed' = {} /\ failed = {}
    BY <1>2, FailedStays DEF Alone
  <2>1. CASE NoRequest
    <3>1. Alone(p)
      BY <1>2, <2>0, <2>1, MadeStay, DroppedStays DEF Alone, AInv, Basis
    <3>2. Scene(p, c)
      BY <3>1 DEF Scene, AInv
    <3> QED BY <2>0, <2>1, <3>2, LocalKept
  <2>2. ASSUME NEW d \in Connections, NEW q \in NewPlan, PlanRequest(d, q)
        PROVE  Local(p, c)'
    <3>1. q \notin Requested /\ Requested' = Requested \cup {q}
      BY <2>2, RequestMakes DEF AInv, Basis, IInv
    <3>2. q = p /\ Requested = {}
      BY <2>0, <3>1
    <3>3. d = c
      BY OneOwner DEF AInv, Basis, IInv
    <3> QED BY <2>0, <2>2, <3>2, <3>3, LocalBegins DEF AInv
  <2> QED BY <2>1, <2>2 DEF NoRequest
<1> QED BY <1>1, <1>2 DEF AInv

LEMMA InitAInv ==
  ASSUME BoundsAssumption, Init, IInv
  PROVE  AInv
<1>0. session.id = None /\ session.pending = NoQuestion
  BY DEF Init, NoSession
<1>1. Owned
  BY <1>0 DEF Init, Owned, Working
<1>2. Untouched
  BY DEF Init, Untouched
<1>3. Counted
  <2>1. NoQuestion[2] = 0
    BY DEF NoQuestion
  <2> QED BY <1>0, <2>1 DEF Init, Counted, NoJob, Listener
<1>4. Addressed /\ Emptied /\ Started
  BY DEF Init, Addressed, Emptied, Started, Handling, Listener, Running
<1>5. \A p \in Plans : ~ Alone(p)
  BY DEF Init, Alone, Requested
<1> QED BY <1>1, <1>2, <1>3, <1>4, <1>5 DEF AInv, Basis

\* With one connection at a time: whatever OpenCode asks, whenever the listener
\* hears of it, dies or is replaced, and however the client's confirmations cross
\* the questions, the reply that handle_plan_confirmation posts for the pending
\* question is the client's answer to that question, if it was shown one at all.
THEOREM ShownIsAnswered == OneConnection => (Spec => []ShownQuestionIsAnswered)
<1> SUFFICES ASSUME OneConnection PROVE Spec => []ShownQuestionIsAnswered
  OBVIOUS
<1> USE BoundsAssumption
<1>1. Init => AtWork
  BY DEF Init, AtWork
<1>2. Init /\ IInv => AInv
  BY InitAInv
<1>3. TypeOK /\ AtWork /\ [Next]_vars => AtWork'
  BY AtWorkKept
<1>4. AInv /\ AtWork /\ IInv' /\ [Next]_vars => AInv'
  BY AInvKept
<1>5. AInv => ShownQuestionIsAnswered
  <2> SUFFICES ASSUME AInv, NEW c \in Connections, loop[c] = "answer",
                      Only(job[c].plan), failed = {}
               PROVE  job[c].shown.question \in {job[c].target, NoQuestion}
    BY DEF ShownQuestionIsAnswered
  <2>1. job[c].plan \in Plans /\ job[c].plan \in Requested
    BY DEF Only, Requested
  <2>3. Alone(job[c].plan)
    BY <2>1 DEF Only, Alone, AInv, Basis, IInv, Jobs, InManager
  <2>2. Local(job[c].plan, c)
    BY <2>1, <2>3 DEF AInv
  <2> QED BY <2>2 DEF Local, Answered
<1> QED BY <1>1, <1>2, <1>3, <1>4, <1>5, TypeCorrect, Invariant, PTL DEF Spec
=============================================================================
