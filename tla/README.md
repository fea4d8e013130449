# A TLA+ development for pf-server

pf-server sits between an editor plug-in and the agents that annotate a user's
code. It is a FastAPI program on one asyncio event loop. For every user there is a
Docker container with the agents (`pf` and an OpenCode server); for every project a
git repository and, beside it, a *shadow* worktree in which agents write `pf:`
annotations. The annotations leave the worktree as patches, which the client reviews.

All state is touched from the event loop, so a stretch of code without an `await` is
atomic, and everything difficult happens *between* awaits: tasks that are cancelled
there, two tasks that share a worktree, objects that keep copies of a file, events of
another server that arrive in between, and the death of the process. The models
therefore have **one action per stretch of code between two awaits**.

1. [Inventory](#1-inventory)
2. [Modules](#2-modules)
3. [Runs](#3-runs)
4. [What the violations show](#4-what-the-violations-show)
5. [Fairness](#5-fairness)
6. [Proofs](#6-proofs)
7. [Not modelled](#7-not-modelled)
8. [Plan](#8-plan)

To repeat everything: `tlc -config <run>.cfg <module>` for each line of section 3 and
`tlapm <module>_proofs.tla` for each module of section 6.

## 1. Inventory

Paths are relative to `src/pf_server/`, unless they say otherwise.

| Component | State | Operations | Works with |
|---|---|---|---|
| Tag store, `repo_manager/tag_state.py` | `tag_state.json`; a copy of it per store object | upsert_tag, get_unseen_tags, mark_sent, set_status, get_status | RepoMgr (one store per connection), feedback and MCP (a new store each time) |
| Shadow repository, `repo_manager/manager.py` | shadow worktree, `shadow/.patches/`, commits | context, get_patch_contents, filter_unseen_spec_patches, apply_changes, commit, worktree_context, do_init | git in threads; tag store; diff parser |
| Diff parser, `repo_manager/diff_parser.py` | none | parse a diff, split hunks into one patch per annotation | RepoMgr |
| Debounced analysis, `guess.py` | AnalysisState: generation, pending_task, has_unseen_hint; the feedback file | trigger_analysis, run_debounced_analysis, run_analysis, run_isolated_analysis, run_initial_analysis | event loop, RepoMgr, analysis configurations |
| Analysis configurations, `guess_configs.py` | the running process or OpenCode session | run, cancel | containers, OpenCode |
| WebSocket event loop, `ws_proxy.py` | loop position; the connection's AnalysisState and PlanManager | receive with poll timeout; sync, question, analysis, plan_request, plan_confirmation; reconnect push; cleanup | everything |
| Plan flow, `plan_manager.py`, `plan_generator.py`, `sse_listener.py` | PlanSession: status, revision, content; listener task | create/update session, generate, continue, question.asked, session.idle | OpenCode, SessionManager |
| Session manager, `session_manager.py` | one SessionInfo per user and project: session, listener, pending question, initial analysis, accumulated changes | get, set, update_listener, set_pending_question, get_or_create, mark_initial_complete, accumulate, drain | plan flow, guess.py, main.py |
| OpenCode session and client, `opencode_session.py`, `opencode_client.py` | session id, completion event, active sessions | prompt, wait_for_completion, abort, questions | OpenCode over HTTP and SSE |
| OpenCode manager and containers, `opencode_manager.py`, `containers.py` | port pool, known servers; containers in Docker | allocate a port, start a server, get or create a container | Docker |
| HTTP front end, `main.py`, `user_context.py`, `auth.py` | tokens are stateless; project directories | login, sync_tar, websocket endpoint | all of the above |
| MCP server, `src/pf_mcp/` | none | ask_question_lite and read-only tools | RepoMgr, tag store |
| tar_utils, config, logging, CLI | none | extraction, settings, formatting | |

What is hard in each component, and what makes it correct:

* **Tag store.** A store reads the file once. Its correctness is the life of a tag:
  UNSEEN when its content is new, SENT once, then ACCEPTED or REJECTED, a decision
  that stays until the content changes. The hazards are copies that are stale, saves
  that raise after the copy has changed, several stores for one file, and a tag that has
  two patches, of which each resets what the other registered.
* **Shadow repository.** Inside `context()` the only copy of every annotation moves
  from patch files to the tree and back. It is correct if no cancellation, failing git
  command or crash, at any await, loses it. Nothing keeps two tasks out of it.
* **Debounced analysis and event loop.** `trigger_analysis` cancels the pending task and
  awaits it. It is correct if there is one analysis at a time, results arrive in order,
  the handshake always ends, and every saved patch reaches the client in the end.
* **Plan flow.** Four parties write to one SessionInfo and one plan: the loop, the
  listener of this plan, listeners of older plans, and OpenCode. It is correct if only
  the newest listener sends, it can always be stopped, and an answer belongs to the
  question that its author saw.
* **Initial analysis.** It cannot be cancelled, runs beside connections, and shares with
  them the shadow worktree, the OpenCode session and a SessionInfo that a plan request may
  replace. It is correct if every change that a sync leaves for it reaches the agent, and
  if it takes nobody else's success, tree or events for its own.
* **OpenCode session.** Events are told apart by an id that is not known before the prompt
  returns, and arrive over a subscription that may open later or end. It is correct if its
  waiter ends, and believes in a success only if there was one.
* **Containers and ports.** The event loop and the threads of MCP questions get or create
  containers at the same time; containers stop, installations fail, the server restarts.
  It is correct if a port has one use, none is lost, and a client reaches its own user's server.
* **Diff splitting.** A diff becomes one patch per annotation, each building on those before.
  It is correct if they apply again, one after another, and leave the annotations, once and
  where the agent had put them.

`PROJECT.json` lists the single hazards at their lines, with the properties that
cover them.

## 2. Modules

| Module | Models | Proofs |
|---|---|---|
| `TagStateStore` | the operations of a tag store as functions, and how a store's copy and the file change | |
| `TagReview` | extends `TagStateStore`: everything that uses the stores; a tag's way from the first save to the decision | `TagReview_proofs` |
| `ShadowContext` | the inside of `RepoMgr.context`, one step per git command | `ShadowContext_proofs` |
| `AnalysisLoop` | a connection: `ws_event_loop`, `trigger_analysis`, the analysis tasks | `AnalysisLoop_proofs` |
| `PlanFlow` | plan requests, confirmations, listeners, SessionInfo, OpenCode's questions | `PlanFlow_proofs`, `PlanAnswers_proofs` |
| `OpenCodeSession` | the session of an unattended caller: listener, prompt, events, completion | |
| `InitialAnalysis` | extends `OpenCodeSession`: `sync_tar`, `run_initial_analysis`, and the syncs that accumulate changes for it | `InitialAnalysis_proofs` |
| `LatestWins` | abstract: one worker, started for the newest request only; answers in the order of the requests | |
| `ChangeBox` | abstract: changes are put into a box while it is open, and all of them are taken when it is closed | |
| `Containers` | `get_or_create_container` by several callers, the port pool, `start_server` | `Containers_proofs` |
| `DiffSplit` | splitting the diff of a file into patches, and applying them in the next context | `DiffSplit_proofs` |

The `MC*` modules extend these for TLC. Faulty variants of an operation (named in their
comments) stand before the operation; they are not part of any specification and only
serve to show that each property depends on the code being as it is.

**TagStateStore and TagReview.** `disk` is `tag_state.json`, `mem[c]` the copy of the
store that connection `c`'s RepoMgr has (`Unloaded` before its first use). An entry is a
status and a content hash. The patches of a save (`PatchSets`) are a set of contents for every
tag, with the one that is registered last. A tag may have more than one: the parser makes a patch
of a deleted annotation too (`diff_parser.py:369-375`; `Removals`), so that rewording an annotation of HEAD
gives two, and one tag may be used in two files. `upsert_tag` compares with the hash of the entry only: with two
contents one of them differs, whichever it is, and the tag becomes UNSEEN. `patches` has the files by tag;
those that delete an annotation have none there, since `_extract_tag_from_patch` looks at added lines. A store method is synchronous; so are the operations that
combine several of them (`get_patch_contents`, `filter_unseen_spec_patches`, the save on
leaving a context, feedback, the MCP question). Each is one action, with a second
action for the case that one of its saves raises. Ghosts: `news` are the tags of which a store
has just registered content that it did not have, `handed` counts how often a tag went to a response
since it was in `news`, `decided` is the last recorded decision, until other content of the tag is registered.

**ShadowContext.** A task is `out`, or awaits `git diff`, `git rebase`, one `git apply`
after the other, the agent (`run`), the saving diff, or `git restore`. Annotations are
in `tree`, in `patches` (the files), or in both. Cancelling ends the await and not the
command, so the command's effect may or may not happen. The agent is a process in the
container and survives the task. `Faults` says what the environment may do. One of them, "header",
is a patch file whose line number is negative: `parse_diff` raises in the middle of applying. Ghosts:
`owed` (what must not be lost), `late` (written by an agent that outlived its context)
and `mishaps` (an overlap or a failing save has happened, which the properties except).

**AnalysisLoop.** `loop` is the await at which the event loop is, `task[g]` that of the
analysis of generation `g`, `signal[g]` the exception on its way to it; `unseen`, `sent` and
`files` are what `TagReview` models in detail, seen here without stale copies. The inside of
a context is one step per phase here and one step per git command in `ShadowContext`.
The initial analysis of the upload is seen from outside too: it may enter its context, write patch
files (`byInitial`) with UNSEEN tags, and until it is over syncs accumulate. It belongs to no connection, so
that nobody's `has_unseen_hint` is set. `backend` is what the server is configured with: a cancelled task of
OpenCode awaits an abort request before it ends. The abstract `LatestWins` is implemented with the
generations as its requests and the pending task as its worker.

**PlanFlow.** A plan, the OpenCode session made for it and its listener have one number.
`loop` and `job` are the event loop's position and what it works on, `mail` a
confirmation in flight, `told[p]` what the client knows of plan `p`: the revision and the
question in the last message about it. The contents of plans are left out, and so are answers.
`stop()` of a listener is one step. The clean-up of a connection first awaits the pending analysis,
which `AnalysisLoop` has; here it succeeds, or it raises and the rest is skipped (`CleanupRaises`). The ghost
`session.abandoned` is the listener that was left running. A client does not confirm a plan that it has rejected.

**OpenCodeSession and InitialAnalysis.** `pc` is the await at which `run_initial_analysis` is,
`captured` the SessionInfo it was given, `current` the one that the manager has, `kept[i]` the
`accumulated_changes` of SessionInfo `i`; `change[c]` is how far a synced change has come.
`listener`, `sid`, `completed`, `error` are the fields of the OpenCodeSession, `wire` its events
that are not handled yet. OpenCode has one session per project directory: `jobs` are the prompts it
works on, of the initial analysis, of its follow-up, or of a connection's analysis, and it is idle
when all have ended. As long as it works it may edit the tree (`dirty`). The `finally` block is one
action, since nothing in it yields until the follow-up prompt. Contexts and debounced analyses
appear as they do from outside: `ShadowContext` and `AnalysisLoop` have their inside. The abstract
`ChangeBox` is implemented by what this module does with accumulated changes; the
refinement mapping calls the box open while the task is before its `finally`.

**Containers.** `pc[k]` is how far caller `k`, the event loop or a thread, is in
`get_or_create_container`; each call of Docker is a step, since a thread may be there at the same
time. While the loop is in it, nothing else of the loop moves. `handle[k]` is the
container that the caller holds, by its number, so that "not found" is the answer for one that was
replaced. `exists`, `up`, `port`, `ready`, `serving` are Docker's side; `available`, `tracked` and
`server` the manager's three tables. `start[u]` is the step of `start_server`, under its lock.
The ghost `mishaps` names what the properties except.

**DiffSplit.** `script` is the file in the shadow tree as its diff against HEAD, a
sequence of lines with marks. `Split` translates `filter_and_split_pf_hunks`; a patch is the
two line numbers of its header and its lines. The parser's `splitlines` and `"\n".join` are `Stripped`: a line
that ends in CRLF, or the last one without a line end, is *odd* and becomes another. A patch with a negative
line number does not parse (`ParseFails`): the entry ends, the files stay, and so `failed` is the last stage. git is external: what a diff shows (`Shown`, `Hunk`) and where
`git apply` puts a patch (`Matches`, `Place`). Without odd lines these operators were compared with the parser and
with git itself on some 240 random files and 265 patches: hunks, headers, patches, acceptance and result agree.
`saved` is the tree at the last save, to compare with.

## 3. Runs

State counts are for TLC with two workers.

| Run | cfg | Properties | States |
|---|---|---|---|
| `tag_review` | `MCTagReview.cfg` | TypeOK, HandedOutOnce, DecisionLostOnlyByStaleCopy, CopyStepsLegal | 55,747 |
| `shadow_context` | `MCShadowContext.cfg` | TypeOK, SavedNeverLost, AppliedOnEntry, RestoreDropsOnlyLateEdits, CancelledEnds | 45,265 |
| `analysis_loop` | `MCAnalysisLoop.cfg` | TypeOK, AtMostOneTask, OnlyNewestUncancelled, NoTaskOutlivesConnection, LeftOverHasCause, ResultsInOrder, LatestWinsSpec, CancelHandshakeEnds | 377,260 |
| `plan_flow` | `MCPlanFlow.cfg` | TypeOK, RunningListenerIsCurrent, NewestPlanIsListenedTo, ShownQuestionIsAnswered, QuestionForgottenOnlyWhenOvertaken | 1,785,342 |
| `initial_analysis` | `MCInitialAnalysis.cfg` | TypeOK, NoChangeStranded, OverlapHasCause, SuccessIsOfThisPrompt, CleanAfterSuccess, KeptChangeIsHandled, ChangeBoxSpec | 152,996 |
| `containers` | `MCContainers.cfg` | TypeOK, PortHasOneUse, NoPortLost, ClientReachesOwnServer, HalfSetUpHasCause | 3,307,301 |
| `diff_split` | `MCDiffSplit.cfg` | TypeOK, RefusedHasCause, RoundTrip, NewAnnotationsReturn | 676,420 (up to symmetry) |
| `lost_decision` | `MCTagReview_lost_decision.cfg` | NoLostDecision, violated | |
| `shadow_clean_on_exit` | `MCShadowContext_clean.cfg` | ShadowCleanOnExit, violated | |
| `sent_was_delivered` | `MCAnalysisLoop_sent.cfg` | SentWasDelivered, violated | |
| `opencode_results` | `MCAnalysisLoop_opencode.cfg` | ResultsSent, violated | |
| `plan_stale_answer` | `MCPlanFlow_stale.cfg` | AnsweredQuestionWasShown, violated | |

`initial_analysis` and `diff_split` may end, when all changes or contexts are used up, and do
not check for deadlock; all others do.

What the passing runs show:

* `tag_review`: with one connection after another, a tag is handed to the client at
  most once until a store registers content of it that the store does not have, across polls, results,
  answers, reconnects, feedback and saves that raise. A recorded decision disappears from the file only when
  other content is registered, the client decides again (which `set_status` allows, although
  `tag_state.py:31` lists no move from ACCEPTED to REJECTED), or a connection's store writes its stale copy.
  A store's own copy makes only the moves of the tag's life. *A tag with two patches* is what these promises
  do not protect: each of its saves registers other content than the entry has, although nothing has changed, so
  a decision about it lasts until the next save, and it is handed out after each. One of the two tags of
  the run has two patches; without that exception the properties are violated in a few steps.
* `shadow_context`: as long as contexts do not overlap and no save raised, a saved
  annotation is always in the tree or has a file, wherever tasks are cancelled and
  whenever the server dies. Whoever gets into the body finds all of them applied. What an exit
  throws away is saved, or an outliving agent's. A cancelled task ends without its agent.
* `analysis_loop`: one analysis at a time, also during the handshake; one that is not
  being ended is the newest; none survives its connection; results arrive in order; a loop that waits
  for a cancelled task does not wait for ever; and when the loop is idle, deliverable
  patches are left only after an analysis that failed, or if the initial analysis wrote them. (It is only
  after a failure that `has_unseen_hint` matters: all others deliver what they save. For the initial
  analysis nobody sets it: what it saves after the loop's last look waits for the next analysis or connection.)
  All of this for both backends.
* `plan_flow`: the listener that runs is the newest plan's, and the SessionInfo knows it,
  across requests, failures, disconnects and reconnects. Two kinds of listeners are excepted: that of a request which
  failed, and that of a connection whose clean-up raised (`ws_proxy.py:1180` swallows only CancelledError). The latter goes on
  after its connection, but the SessionInfo still has it, and the next request or clean-up stops it. And
  an answer to the question that
  the client was shown last is posted as the answer to that one; and an open question
  is forgotten only if the reply to an earlier one returns late.
* `initial_analysis`: a change that was accumulated is in the SessionInfo that the task will
  drain, also when a plan request has put another into the manager, and in the end it
  is sent to the agent or dropped, because OpenCode refuses the prompt or because the container has no port, so that there is no
  client to send it with (`guess.py:195-197`, `:294`). The task's success is
  that of its own prompt, and its context is alone on the tree, unless the SessionInfo was
  replaced or a sync came before the task was created: these two are real, and the counterexamples TLC
  gives without the exceptions are short. After a success without a follow-up and without another
  analysis the tree is clean. (After a timeout it need not be: nobody aborts the prompt.)
* `containers`: no port is offered twice, or in the pool while a container maps it; ports are lost only
  where two callers create the same container, or one that maps a port is removed; a
  remembered client leads to its own user's container or to none, also after the container has
  stopped. A container is handed out half set up only after a failed installation, a restart or
  beside the caller that sets it up.
* `diff_split`: a patch that git refuses was accepted by the user meanwhile, or its hunk leaves a
  line of the file out (a deletion of code, or of an annotation by a later patch), or it shows an odd line
  (CRLF, no line end) as the parser left it, or it builds on one that was refused. A patch whose line
  number has become negative is not refused: it fails the entry, and every later one. If none is refused beyond the
  accepted ones, every annotation is back at its place, once (an added one as the parser left it), and every edit of code is gone. These two are
  about files without equal lines. If the agent only added annotations, in hunks without odd lines, the other lines may be equal: no entry
  fails and, unless one was accepted meanwhile, all patches apply again and make the file that the agent left. With an odd
  line in the hunk an annotation is refused and dropped although nothing else changed.

**Bounds.** Two tags are the least for which a tag keeps its content while another's changes. One has two
contents, of which a save has the one, the other or both, in either order; and the connection may be opened any
number of times, so that copies of all ages occur; `MaxHanded` = 2 is enough to see "more than once". Two tasks and two
annotations give one apply that succeeds beside one that fails, and every overlap of two
contexts. Three generations give a pending, a cancelled and a finished analysis at a
time; a new connection starts again at zero. Two plans give a listener
that must be stopped and its successor, two questions one that overtakes the other, and
`MaxRevision` = 2 lets the client use the revision that a continuation tells it. One event
waits at most in front of each listener (`MaxQueue`): the handlers take them one by one
in any case, so a second event waits in OpenCode instead. Two changes give one that
is kept and one that comes after the drain, two SessionInfos the captured one and its successor. Two users
with two ports empty the pool; two callers are the least that race; a container is stopped and replaced once. Files of up to
three lines, and of four if all or none of them are equal, with one line of context instead of three give hunks that are
separate, adjoining and joined, and those of up to three have an odd line beside the line that it becomes, if they have one; two edits and two contexts give two patches in a hunk and an edit of what came back.

**One connection.** `MaxOpen` and `MaxConnections` are 1 in the runs: connections follow one
another. With two open at a time the code promises less: `HandedOutOnce` fails, since both
stores read UNSEEN from copies of their own, and the cleanup of an old
connection stops the listener of the new one, so that both listener properties fail. The server does
nothing to keep a client from opening two, so `OnceOnly`, `OneListenerRuns`, `NewestListenerIsKept` and the runs are about clients that do not.

**Exceptions in properties.** Some properties name the circumstances in which they fail; each was found by
TLC. `restart` in `Containers`: the pool is full again although containers map its ports, so a
second container is created with a bound port, does not start, and is found half set up later.
`Distinct` in `DiffSplit`: the parser leaves edits of code out of the line numbers of later patches and counts
those of earlier annotations of the hunk twice, so among equal lines git takes the wrong ones; only for new annotations
(`OnlyNew`) is the place sure nevertheless. `current # captured` in `InitialAnalysis`:
`SessionManager.set` replaces the SessionInfo that knows of the running task.

## 4. What the violations show

* **`lost_decision`.** The client decides about a tag through a new store
  (`ws_proxy.py:73`). The connection's own store has read the file before and, at its
  next save, writes its copy over it: the tag is SENT or UNSEEN again. `tag_state.py:57`
  promises that memory and disk agree.
* **`shadow_clean_on_exit`.** A newer sync cancels an analysis that is saving its patches.
  `CancelledError` is not an `Exception`, so the exit of the context (`manager.py:120`)
  skips `_restore`; the documentation of `context` (`manager.py:104`) says that the tree is always
  restored. Every later `git rebase` refuses the dirty tree.
* **`sent_was_delivered`.** SENT is set when patches are handed to the code that will build
  a message (`manager.py:242`, `:302`), and not when they are sent. If the message cannot
  be built or sent, nobody sends them again. `tag_state.py:33` defines SENT as "has been sent".
* **`opencode_results`.** With the OpenCode backend the response type is one that the
  model of the response does not know (`guess.py:791`, `models.py:159`): each analysis
  marks its patches SENT and then fails.
* **`plan_stale_answer`.** After a continuation the client is told a revision one higher
  than the server's (`ws_proxy.py:830`, `:839` increment twice). The next question raises
  the server's revision to just that number, so a confirmation written before the
  question was shown passes the check "to prevent stale updates" (`ws_proxy.py:700`) and
  answers it.

Three facts the models rest on that a reader may look for. A question with the `pf` backend
always fails, because `question` is passed to the configuration twice (`guess.py:436` and `:442`).
`PFAnalysisConfig.cancel` never kills the agent, because `run` has cleared the marker
that it looks at (`guess_configs.py:216`). And the default command of the `pf` lite analysis (`config.py:81`)
contains `{feedback_file}`, which `PFAnalysisConfig.run` does not pass, so that formatting it raises: unless the
command is configured otherwise, every such analysis fails in its body, which is one outcome of `RunEnds`.

## 5. Fairness

* `ShadowContext`: weak fairness of each task's git steps. They run in threads and
  return; a task that may resume does so. None for the agent, for which the code has no time limit
  that survives a cancellation.
* `AnalysisLoop`: weak fairness of a task that was told to stop (`Unwind`) and of the loop that
  awaits one (`Resume`). Such a task needs the event loop, git, and, for
  OpenCode, an abort request, which has the client's HTTP timeout and whose failure is
  ignored. None for the client, for agents that were not told to stop, and for the debounce.
* `InitialAnalysis`: weak fairness of the task of the initial analysis (`TaskStep`). Its HTTP calls
  and its waits for completion have timeouts, and its git commands end. None for the
  client and for connections' analyses.
* `TagReview`, `PlanFlow`, `Containers` and `DiffSplit` state no liveness: nothing obliges the
  client to decide or OpenCode to go on, and the requests of users and splits of
  diffs are taken as they come.

## 6. Proofs

For every value of the constants that satisfies the `ASSUME`s, checked by TLAPS:

| Theorem | Property |
|---|---|
| `TagReview_proofs!TypeCorrect`, `OnceOnly`, `CopiesMoveLegally`, `DecisionsAreLostByStaleCopies` | TypeOK, HandedOutOnce (if `MaxOpen = 1`), CopyStepsLegal, DecisionLostOnlyByStaleCopy |
| `ShadowContext_proofs!TypeCorrect`, `SavedIsNeverLost`, `EntryApplies`, `ExitDropsOnlyLateEdits` | TypeOK, SavedNeverLost, AppliedOnEntry, RestoreDropsOnlyLateEdits |
| `AnalysisLoop_proofs!TypeCorrect`, `SinglePending`, `NewestOnly`, `TasksEndWithConnection`, `EverythingElseCollected`, `OrderedResults`, `ImplementsLatestWins` | TypeOK, AtMostOneTask, OnlyNewestUncancelled, NoTaskOutlivesConnection, LeftOverHasCause, ResultsInOrder, LatestWinsSpec |
| `PlanFlow_proofs!TypeCorrect`, `OneListenerRuns`, `NewestListenerIsKept`, `QuestionsAreKept` | TypeOK, RunningListenerIsCurrent and NewestPlanIsListenedTo (if `MaxConnections = 1`), QuestionForgottenOnlyWhenOvertaken |
| `PlanAnswers_proofs!ShownIsAnswered` | ShownQuestionIsAnswered (if `MaxConnections = 1`) |
| `InitialAnalysis_proofs!TypeCorrect`, `NothingStranded`, `OverlapExplained`, `SuccessIsOwn`, `SuccessIsClean`, `ImplementsChangeBox` | TypeOK, NoChangeStranded, OverlapHasCause, SuccessIsOfThisPrompt, CleanAfterSuccess, ChangeBoxSpec |
| `Containers_proofs!TypeCorrect`, `PortsAreNotShared`, `PortsAreAccounted`, `ClientsAreApart`, `HalfSetUpExplained` | TypeOK, PortHasOneUse, NoPortLost, ClientReachesOwnServer, HalfSetUpHasCause |
| `DiffSplit_proofs!TypeCorrect`, `AnnotationsReturn`, `RoundTripHolds`, `RefusalsExplained` | TypeOK, NewAnnotationsReturn, RoundTrip, RefusedHasCause |

The inductive invariants:

* **TagReview.** `handed[t] <= 1` is not inductive: a tag that was handed out might be
  UNSEEN in the file or in a copy. `IInv` adds that at most one store has a copy
  (`OneOpen`, `OnlyOpenLoaded`), and that a tag that was handed out since it was last in `news` is neither absent nor
  UNSEEN in the file and in that copy (`HandedSeen`). The copy may be stale in every other
  respect. The lemma `CopyReplaced` reduces each operation to this one fact. The two
  theorems about steps need only types: `Moves` says that every step replaces one store's
  copy by legal moves of its tags, and writes to the file only what such a copy holds.
* **ShadowContext.** `SavedNeverLost` says that annotations are *somewhere*; a step
  that empties the tree or the directory needs to know *where*. `Places` says it for
  each stage: while patches are applied, what is not in the tree yet still has its file; in
  the body and while saving everything is in the tree; while restoring everything has a file. That
  needs `Exclusive`: without an overlap at most one task is inside.
* **AnalysisLoop.** `Order` relates the three numbers answered, pending and generation at each
  stage of the loop; `Told` says which tasks have been told to stop, and that only a loop that waits for
  them did so; `Collected` says what can be left over when no task runs. `Room`
  carries the bound `MaxGen` from the receipt of a sync to its trigger. `ImplementsLatestWins` also
  needs `CaughtUp`: outside the handshake the pending task is that of the newest generation, so that a
  trigger that finds no task running does not skip a request.
* **PlanFlow.** What `NewestPlanIsListenedTo` says at `recv` must survive the awaits of a
  request, where it is false: `Quiet` says that none but failed listeners run once the
  SessionInfo's is stopped, `Begun` that a request whose session exists has its listener
  started, `Held` that from the response to the next request the SessionInfo has the newest plan's
  listener. They rest on `Jobs` (the loop works on plans of its own PlanManager, and a request is for
  the newest) and `Requests` (plans are made in order). `SideStep` is
  the lemma for all other steps, among them those of listeners and OpenCode.
  `QuestionsAreKept` needs only that a reply that was taken is for a question
  OpenCode no longer waits for (`Numbered`) and that a new session has a new id (`Owned`); it
  holds for any number of connections.
* **PlanFlow, the answers** (`PlanAnswers_proofs`). `ShownQuestionIsAnswered` compares the question that
  is pending when a confirmation is handled with the one in the client's last message; in between are
  two copies of a revision, of which the client's may run ahead by one. `AInv` says of a plan
  that is the only one that was ever requested and whose request did not fail (`Alone`) what holds at each stage (`Local`): its
  pending question is its own or none, and so is what it told and what is in the mail (`ToldIsPending`,
  `MailIsPending`); a view that is not out of date has a plan that is still active
  (`OpenIsActive`) and, while OpenCode can ask, the question that OpenCode waits for (`OpenIsAsked`). `Basis` holds
  of all plans: whose question is pending is decided by the session id (`Owned`, `Addressed`), OpenCode asks each question
  once and a session has one at most (`Counted`), and what nobody has made is untouched (`Untouched`, `Emptied`). Most
  steps are either *quiet* for a plan (`QuietStays`) or leave it *blank* (`BlankStays`). With two
  connections the property is false, as section 3 says: a cleanup, a listener or a request of one works on the other's plan.
* **InitialAnalysis.** `IInv` is `TypeOK`, `Infos_OK` (which SessionInfo the task has and which one
  the manager has), `Boxed` (where each accumulated change is), `Apart` (when a debounced
  analysis can run beside the initial one), `Alone` (what holds of the session and the tree while
  none has) and `SuccessIsOfThisPrompt`. `ImplementsChangeBox` maps each step to one of the abstract
  `ChangeBox` or a stutter.
* **Containers.** `IInv` adds to the types the `Uses` of each port, `PortHasOneUse`,
  `NoPortLost`, the `Records` of the container manager, what is `Held` by a request, and
  `HalfSetUpHasCause`. Every action is first reduced to one `PortStep`: it allocates, maps,
  loses or unmaps one port, or leaves the ports alone.
* **DiffSplit.** Its operators number the lines of a file by counting, so that most of the proof is about
  counting: `InOrder` lists a set of positions in order and is the only list that does (`InOrderIsList`,
  `OnlyInOrder`). `Shown`, a recursive function on numbers, is handled by an induction over a set of
  numbers (`ByInduction`, `ShownOK`), and it leaves alone what git would show anyway (`ShownSame`). `TypeOK` needs
  `Stored`: the patches were split from a diff, so that every body has one changed line and a hunk of context.
  `NewAnnotationsReturn` first forgets the parser (`SplitParsed`: without odd lines in the hunks, the patches are those of the
  diff itself, and no line number is negative); then it is the case n = number of patches of `Fresh`: the patches are those of `saved`; outside the
  tree has HEAD's file; and after n patches it has just the lines of HEAD and the first n annotations
  (`PutBack`). A step of that (`NextBack`) rests on `PutsBack`: patch n + 1 finds its lines where the
  annotation was (`MatchesThere`), and there is no nearer one: the first annotation
  of a hunk has just that line number in its header (`HeaderOf`), and a later one shows an earlier one, which is
  there only once (`OnlyThere`). It is used that the context has at least one line:
  without it a hunk at the end of the file could be taken for one at its start.
* **DiffSplit, any changes.** `RoundTrip` speaks of the end and `RefusedHasCause` of what failed; neither says
  what the file is in between. `Returned` does, for a file without equal lines: it has the lines that
  `saved` keeps, those added by the patches that are done and those whose deletion is not (`After`), and with every patch
  that the user accepted the earlier ones of its hunk are done (`HunksDone`). A patch shows its
  hunk with the earlier annotations made and the others not (`PatchShows`). As lines are distinct,
  it can only match where its lines are (`AlignedIn`, `AlignedBetween`), so that a match proves that the earlier
  annotations of its hunk are done and nothing is in between (`MatchGives`), and applying it does just its own change
  (`AddedPart`, `DeletedPart`, `StepDone`), whatever its header says. Conversely a patch whose hunk
  is as it shows it does match (`MatchesSo`): so the causes of
  `RefusedHasCause` are all there are (`RefusedBecause`). That is
  where `HunksDone` is needed, since otherwise the user could have accepted a later annotation of the hunk before an
  earlier one; so is `HunkBack`, since the hunks of two changes are not symmetric by definition.

Only model-checked:

* `CancelledEnds`, `CancelHandshakeEnds` and `KeptChangeIsHandled`: liveness under fairness is out of the prover's
  reach, as is `ENABLED`.

Every invariant, action property and refinement of a passing run is stated by a theorem.

## 7. Not modelled

* The inside of agents, prompts and the contents of plans and answers.
* `do_init` and `worktree_context` of RepoMgr: sequences of git commands in a directory
  that nothing else uses while they run. (`run_isolated_analysis` takes a worktree of its own for
  each question.)
* The session feedback file: append, rename to `.processing`, consume, remove.
* The log streaming of commands in containers, and the progress events that
  `OpenCodeAnalysisConfig.run` forwards to the client.
* In `DiffSplit`: characters other than line ends at which `splitlines` cuts a line in two (form feeds, for example), bytes
  that are not UTF-8 and are replaced on decoding, and diffs of several files, whose patches do not meet.
* Login, tokens, unique project names, archive extraction, configuration, logging, the command line: straight-line
  code without state of its own.
* Code that only tests call, or nothing: `remove_tag`, `clear`, `close_session`, `reject_question`,
  `cleanup_old_sessions`, `cleanup_idle_servers`, `stop_server`, `shutdown_all`, `queue_changes_to_session`,
  `PlanExecutor.prompt`.
* In `PlanFlow`: what becomes of a plan's listener when its request fails. The code leaves it
  running and nobody can stop it; the ghost `failed` excepts such plans from the properties.
  With two active plans, questions and idle events go to the older one, whichever
  session they are from; this is modelled, and the properties about answers are about one plan.

## 8. Plan

Done, in this order: `TagStateStore`, `TagReview`, `ShadowContext`, `AnalysisLoop`,
`PlanFlow`; then `OpenCodeSession` with `InitialAnalysis` and the refinement to `ChangeBox`,
`Containers` and `DiffSplit`; proofs about all of them; and the refinement of
`AnalysisLoop` to `LatestWins`.

To come:

1. `FeedbackFile`: append, rename to `.processing`, consume, remove on disconnect, within
   `AnalysisLoop`, whose analyses it belongs to; a cancelled analysis loses the feedback that it had taken.
2. An abstract specification of the life of one tag that `TagReview` implements, as a PROPERTY of
   a run and then as a theorem about steps.
