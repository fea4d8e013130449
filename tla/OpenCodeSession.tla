--------------------------- MODULE OpenCodeSession ---------------------------
(***************************************************************************)
(* OpenCodeSession of opencode_session.py, as an unattended caller uses    *)
(* it: a listener task is started, a prompt is submitted, and the caller   *)
(* waits for the completion event or for its timeout.                      *)
(*                                                                         *)
(* The listener subscribes while the prompt is under way, and events are   *)
(* told apart by a session id that is None until prompt() has returned.    *)
(* Whatever shares the project directory shares the session of OpenCode:   *)
(* a prompt continues the session that was active last.  OpenCode itself   *)
(* is external: it works on its prompts, tells the end of all of them by   *)
(* an idle event and a failure by an error event.  A question is answered  *)
(* by nobody here, so it is an agent that goes on for ever.                *)
(***************************************************************************)
EXTENDS Sequences

CONSTANT
  Jobs           \* names of the prompts that may be submitted to the session

VARIABLES
  listener,      \* _listen_task: "off", "connecting", "streaming", "ended"
  sid,           \* session_id is set
  completed,     \* completion_event is set
  error,         \* error is set
  wire,          \* events in the stream that the listener has not handled
  jobs           \* prompts that OpenCode has accepted and works on

sessionVars == <<listener, sid, completed, error, wire>>
Events == {"idle", "error"}

\* OpenCode publishes an event: to those who have subscribed, and only them.
Publish(events) ==
  wire' = IF listener = "streaming" THEN wire \o events ELSE wire

\* A new object, and start() by __aenter__.
StartSession ==
  /\ listener' = "connecting" /\ wire' = <<>>
  /\ sid' = FALSE /\ completed' = FALSE /\ error' = FALSE

\* stop() by __aexit__ cancels the listener and awaits its end.
\* (Faulty variant: it tells the listener and does not wait.)
StopNotAwaiting ==
  /\ listener' = "stopping" /\ wire' = <<>>
  /\ UNCHANGED <<sid, completed, error>>
StopSession ==
  /\ listener' = "off" /\ wire' = <<>>
  /\ UNCHANGED <<sid, completed, error>>

\* subscribe_events has its response, ...
StreamOpens ==
  /\ listener = "connecting" /\ listener' = "streaming"
  /\ UNCHANGED <<sid, completed, error, wire, jobs>>

\* ... has a bad status or an exception, or the stream ends (after 30 seconds
\* without a meaningful event, also): the listener ends, and tells nobody.
StreamEnds ==
  /\ listener \in {"connecting", "streaming"} /\ listener' = "ended" /\ wire' = <<>>
  /\ UNCHANGED <<sid, completed, error, jobs>>

\* _handle_idle and _handle_error: an event of another session is ignored, and
\* every event is one while session_id is None.
HandleEvent ==
  /\ listener = "streaming" /\ wire # <<>>
  /\ wire' = Tail(wire)
  /\ completed' = (completed \/ sid)
  /\ error' = (error \/ (sid /\ Head(wire) = "error"))
  /\ UNCHANGED <<listener, sid, jobs>>

\* prompt_async: OpenCode accepts the prompt, and later the call returns.
PromptAccepted(job) == jobs' = jobs \cup {job} /\ UNCHANGED sessionVars
PromptReturned == sid' = TRUE /\ UNCHANGED <<listener, completed, error, wire, jobs>>

-----------------------------------------------------------------------------
(* OpenCode. *)

\* A prompt has been worked off; with the last one the session is idle.
AgentEnds(job) ==
  /\ job \in jobs
  /\ jobs' = jobs \ {job}
  /\ IF jobs' = {} THEN Publish(<<"idle">>) ELSE UNCHANGED wire
  /\ UNCHANGED <<listener, sid, completed, error>>

\* The session fails and becomes idle, as it does when it is aborted.
AgentFails ==
  /\ jobs # {} /\ jobs' = {}
  /\ Publish(<<"error", "idle">>)
  /\ UNCHANGED <<listener, sid, completed, error>>

SessionInit ==
  /\ listener = "off" /\ sid = FALSE /\ completed = FALSE /\ error = FALSE
  /\ wire = <<>> /\ jobs = {}

SessionTypeOK ==
  /\ listener \in {"off", "connecting", "streaming", "ended"}
  /\ sid \in BOOLEAN /\ completed \in BOOLEAN /\ error \in BOOLEAN
  /\ wire \in Seq(Events) /\ jobs \in SUBSET Jobs
=============================================================================
