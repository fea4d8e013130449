---------------------------- MODULE ShadowContext ----------------------------
(***************************************************************************)
(* RepoMgr.context of repo_manager/manager.py: analyses borrow the shadow  *)
(* worktree.  On entry the saved annotations are applied to the clean      *)
(* tree, an agent in the container edits the tree, on exit the edits are   *)
(* saved as patch files and the tree is restored.                          *)
(*                                                                         *)
(* Every git command runs in a thread while the task awaits it, so every   *)
(* one is a step, and a task can be cancelled at every one.  Cancelling    *)
(* ends the await and not the command: the command may still take effect.  *)
(* The agent is a process of the container; it is not part of the task.    *)
(***************************************************************************)
CONSTANTS
  Tasks,         \* analysis tasks that use the shadow tree
  Notes,         \* annotations; each becomes one patch file
  Backend,       \* "pf" or "opencode": the kind of agent
  Faults         \* what the environment does: see AllFaults

\* A task is cancelled; the server dies; saving raises; a git command fails; a
\* patch file's header has a negative line number (DiffSplit has how that comes
\* about); two tasks are in a context at a time (nothing in RepoMgr prevents it:
\* the initial analysis and a connection's analysis, or those of two connections).
AllFaults == {"cancel", "crash", "save", "git", "header", "overlap"}

ASSUME BackendAssumption == Backend \in {"pf", "opencode"}
ASSUME FaultsAssumption == Faults \subseteq AllFaults

VARIABLES
  pc,            \* where every task is; "out" is outside the context
  todo,          \* the patch files a task that enters has yet to apply
  hit,           \* the tasks that have been cancelled and have not ended
  agent,         \* the tasks whose agent process runs
  tree,          \* annotations in the shadow tree that HEAD does not have
  patches,       \* annotations with a file in shadow/.patches
  owed,          \* ghost: annotations that were saved, that no agent removed
                 \*        and whose patch did not fail to apply
  late,          \* ghost: annotations written by an agent that outlived the
                 \*        body of its task's context
  mishaps        \* ghost: which of "overlap" and "save" have happened

vars == <<pc, todo, hit, agent, tree, patches, owed, late, mishaps>>

Stages == {"out", "diff", "rebase", "apply", "run", "save", "restore"}
Inside == {t \in Tasks : pc[t] # "out"}
Goto(t, stage) == pc' = [pc EXCEPT ![t] = stage]

\* The end of the task's context, normal or by an exception.
\* (Faulty variant: the task is left in a stage of its own.)
LeaveForGood(t) ==
  /\ Goto(t, "done")
  /\ hit' = hit \ {t}
  /\ todo' = [todo EXCEPT ![t] = {}]
Leave(t) ==
  /\ Goto(t, "out")
  /\ hit' = hit \ {t}
  /\ todo' = [todo EXCEPT ![t] = {}]

-----------------------------------------------------------------------------
\* A task calls context() and awaits _diff_against_main.
Enter(t) ==
  /\ pc[t] = "out" /\ t \notin agent
  /\ \/ Inside = {} /\ UNCHANGED mishaps
     \/ Inside # {} /\ "overlap" \in Faults /\ mishaps' = mishaps \cup {"overlap"}
  /\ Goto(t, "diff")
  /\ UNCHANGED <<todo, hit, agent, tree, patches, owed, late>>

DiffAgainstMain(t) ==
  /\ pc[t] = "diff"
  /\ Goto(t, "rebase")
  /\ UNCHANGED <<todo, hit, agent, tree, patches, owed, late, mishaps>>

\* _cleanup_patches_dir, and the body starts the agent.
StartBody(t) ==
  /\ Goto(t, "run")
  /\ patches' = {}
  /\ agent' = agent \cup {t}

\* git rebase refuses a tree with changes: the exception ends the entry.
\* Otherwise _apply_patches lists the files.
Rebase(t) ==
  /\ pc[t] = "rebase" /\ tree = {}
  /\ todo' = [todo EXCEPT ![t] = patches]
  /\ IF patches = {} THEN StartBody(t) ELSE Goto(t, "apply") /\ UNCHANGED <<agent, patches>>
  /\ UNCHANGED <<hit, tree, owed, late, mishaps>>

RebaseRefused(t) ==
  /\ pc[t] = "rebase" /\ tree # {}
  /\ Leave(t)
  /\ UNCHANGED <<agent, tree, patches, owed, late, mishaps>>

\* git diff or git rebase fails for another reason, with the same effect; or
\* parse_diff raises at the header of a patch file: the patches before it are in
\* the tree, and all the files stay.
EntryRaises(t) ==
  /\ \/ "git" \in Faults /\ pc[t] \in {"diff", "rebase"}
     \/ "header" \in Faults /\ pc[t] = "apply"
  /\ Leave(t)
  /\ UNCHANGED <<agent, tree, patches, owed, late, mishaps>>

\* One git apply returns: it applied, or it failed and the hunk is recorded
\* in failed_hunks. After the last one the patches directory is removed.
\* (Faulty variants: the directory is removed when the first patch is done; a
\* patch that fails ends the loop over the patches.)
Applied(t, n) ==
  \/ tree' = tree \cup {n} /\ UNCHANGED owed
  \/ owed' = owed \ {n} /\ UNCHANGED tree
ApplyCleaningEarly(t, n) ==
  /\ pc[t] = "apply" /\ n \in todo[t]
  /\ Applied(t, n)
  /\ todo' = [todo EXCEPT ![t] = @ \ {n}]
  /\ IF todo'[t] = {} THEN StartBody(t) ELSE patches' = {} /\ UNCHANGED <<pc, agent>>
  /\ UNCHANGED <<hit, late, mishaps>>
ApplyStoppingAtFailure(t, n) ==
  /\ pc[t] = "apply" /\ n \in todo[t] /\ n \in patches
  /\ Applied(t, n)
  /\ todo' = [todo EXCEPT ![t] = IF tree' = tree THEN {} ELSE @ \ {n}]
  /\ IF todo'[t] = {} THEN StartBody(t) ELSE UNCHANGED <<pc, agent, patches>>
  /\ UNCHANGED <<hit, late, mishaps>>
ApplyPatch(t, n) ==
  /\ pc[t] = "apply" /\ n \in todo[t] /\ n \in patches
  /\ Applied(t, n)
  /\ todo' = [todo EXCEPT ![t] = @ \ {n}]
  /\ IF todo'[t] = {} THEN StartBody(t) ELSE UNCHANGED <<pc, agent, patches>>
  /\ UNCHANGED <<hit, late, mishaps>>

\* Another task that entered removed the file: reading it raises.
PatchFileGone(t) ==
  /\ pc[t] = "apply" /\ ~ (todo[t] \subseteq patches)
  /\ Leave(t)
  /\ UNCHANGED <<agent, tree, patches, owed, late, mishaps>>

\* The agent adds or removes an annotation; nothing ties it to the task.
AgentAdds(t, n) ==
  /\ t \in agent /\ n \notin tree
  /\ tree' = tree \cup {n}
  /\ late' = IF pc[t] = "run" THEN late ELSE late \cup {n}
  /\ UNCHANGED <<pc, todo, hit, agent, patches, owed, mishaps>>

AgentRemoves(t, n) ==
  /\ t \in agent /\ n \in tree
  /\ tree' = tree \ {n}
  /\ owed' = owed \ {n}
  /\ late' = late \ {n}
  /\ UNCHANGED <<pc, todo, hit, agent, patches, mishaps>>

\* The agent ends; if its task is in the body, the body ends with it.
AgentEnds(t) ==
  /\ t \in agent
  /\ agent' = agent \ {t}
  /\ IF pc[t] = "run" THEN Goto(t, "save") ELSE UNCHANGED pc
  /\ UNCHANGED <<todo, hit, tree, patches, owed, late, mishaps>>

\* git diff HEAD returns and _save_hunks writes the files: 0001_, 0002_, ...,
\* so files that another task has left may be overwritten.
SavePatches(t) ==
  /\ pc[t] = "save"
  /\ \E kept \in SUBSET patches :
       patches' = IF tree = {} THEN patches ELSE kept \cup tree
  /\ owed' = owed \cup tree
  /\ late' = late \ tree
  /\ Goto(t, "restore")
  /\ UNCHANGED <<todo, hit, agent, tree, mishaps>>

\* Saving raises after some of the files (the tag store's file cannot be
\* written): logged, and the tree is restored all the same.
SavePatchesRaises(t) ==
  /\ "save" \in Faults /\ pc[t] = "save" /\ tree # {}
  /\ \E S \in SUBSET tree : S # tree /\ patches' = patches \cup S
  /\ mishaps' = mishaps \cup {"save"}
  /\ Goto(t, "restore")
  /\ UNCHANGED <<todo, hit, agent, tree, owed, late>>

\* git restore . ends, and with it the context.
Restore(t) ==
  /\ pc[t] = "restore"
  /\ tree' = {}
  /\ late' = late \ tree
  /\ Leave(t)
  /\ UNCHANGED <<agent, patches, owed, mishaps>>

\* git restore fails: logged, and the context ends with the tree as it is.
RestoreRaises(t) ==
  /\ "git" \in Faults /\ pc[t] = "restore"
  /\ Leave(t)
  /\ UNCHANGED <<agent, tree, patches, owed, late, mishaps>>

-----------------------------------------------------------------------------
\* The task is cancelled at an await: trigger_analysis for a newer sync, or
\* the end of the connection. It happens once: both then await the task.
Cancellable(t) == "cancel" \in Faults /\ t \notin hit

\* During entry nothing is cleaned up: the try has not begun.
CancelEntry(t) ==
  /\ Cancellable(t) /\ pc[t] \in {"diff", "rebase", "apply"}
  /\ tree' = tree \/ \E n \in todo[t] \cap patches : tree' = tree \cup {n}
  /\ Leave(t)
  /\ UNCHANGED <<agent, patches, owed, late, mishaps>>

\* In the body: PFAnalysisConfig.run clears its marker before cancel() looks
\* at it, so the process is never killed; OpenCode is asked to abort, which
\* may fail. The exit of the context follows.
\* (Faulty variant: the body goes on until the agent has ended.)
CancelBodyAwaitingAgent(t) ==
  /\ Cancellable(t) /\ pc[t] = "run"
  /\ hit' = hit \cup {t}
  /\ UNCHANGED <<pc, todo, agent, tree, patches, owed, late, mishaps>>
CancelBody(t) ==
  /\ Cancellable(t) /\ pc[t] = "run"
  /\ Goto(t, "save")
  /\ hit' = hit \cup {t}
  /\ \/ UNCHANGED agent
     \/ Backend = "opencode" /\ agent' = agent \ {t}
  /\ UNCHANGED <<todo, tree, patches, owed, late, mishaps>>

\* During exit: CancelledError is no Exception, so _restore is skipped when
\* _save_patches is cancelled.
\* (Faulty variant: the cancelled save restores the tree.)
CancelSaveRestoring(t) ==
  /\ Cancellable(t) /\ pc[t] = "save"
  /\ Leave(t)
  /\ tree' = {}
  /\ UNCHANGED <<agent, patches, owed, late, mishaps>>
CancelSave(t) ==
  /\ Cancellable(t) /\ pc[t] = "save"
  /\ Leave(t)
  /\ UNCHANGED <<agent, tree, patches, owed, late, mishaps>>

CancelRestore(t) ==
  /\ Cancellable(t) /\ pc[t] = "restore"
  /\ \/ tree' = {} /\ late' = late \ tree
     \/ UNCHANGED <<tree, late>>
  /\ Leave(t)
  /\ UNCHANGED <<agent, patches, owed, mishaps>>

Cancel(t) == CancelEntry(t) \/ CancelBody(t) \/ CancelSave(t) \/ CancelRestore(t)

\* The server dies and restarts: the tasks are gone, the container, the tree
\* and the files stay, some of the files of a save in progress included.
Crash ==
  /\ "crash" \in Faults /\ Inside # {}
  /\ pc' = [t \in Tasks |-> "out"]
  /\ todo' = [t \in Tasks |-> {}]
  /\ hit' = {}
  /\ \E S \in SUBSET (IF \E t \in Tasks : pc[t] = "save" THEN tree ELSE {}) :
       patches' = patches \cup S
  /\ UNCHANGED <<agent, tree, owed, late, mishaps>>

-----------------------------------------------------------------------------
Init ==
  /\ pc = [t \in Tasks |-> "out"]
  /\ todo = [t \in Tasks |-> {}]
  /\ hit = {} /\ agent = {}
  /\ tree = {} /\ patches = {}
  /\ owed = {} /\ late = {} /\ mishaps = {}

\* The steps of the task itself, which need nothing but git to return.
GitStep(t) ==
  \/ DiffAgainstMain(t) \/ Rebase(t) \/ RebaseRefused(t) \/ EntryRaises(t)
  \/ PatchFileGone(t) \/ \E n \in Notes : ApplyPatch(t, n)
  \/ SavePatches(t) \/ SavePatchesRaises(t) \/ Restore(t) \/ RestoreRaises(t)

AgentStep(t) ==
  \/ AgentEnds(t)
  \/ \E n \in Notes : AgentAdds(t, n) \/ AgentRemoves(t, n)

Next ==
  \/ \E t \in Tasks : Enter(t) \/ GitStep(t) \/ AgentStep(t) \/ Cancel(t)
  \/ Crash

\* git commands return.  The agent may run for ever: nothing limits it.
Fairness == \A t \in Tasks : WF_vars(GitStep(t))

Spec == Init /\ [][Next]_vars /\ Fairness

-----------------------------------------------------------------------------
TypeOK ==
  /\ pc \in [Tasks -> Stages]
  /\ todo \in [Tasks -> SUBSET Notes]
  /\ hit \in SUBSET Tasks /\ agent \in SUBSET Tasks
  /\ tree \in SUBSET Notes /\ patches \in SUBSET Notes
  /\ owed \in SUBSET Notes /\ late \in SUBSET Notes
  /\ mishaps \in SUBSET {"overlap", "save"}

\* As long as contexts do not overlap and no save raised, a saved annotation
\* is in the tree or in the patches directory, wherever tasks are cancelled
\* and whenever the server dies: emptying the directory on entry and the tree
\* on exit never lose the only copy.
SavedNeverLost == mishaps = {} => owed \subseteq tree \cup patches

\* Whoever gets into the body of a context that does not overlap with another
\* finds every saved annotation in the tree and leaves no patch file behind
\* (patches_applied_on_entry, manager.py:103).
AppliedOnEntry ==
  [][\A t \in Tasks : mishaps = {} /\ pc[t] # "run" /\ pc'[t] = "run" =>
       owed' \subseteq tree' /\ patches' = {}]_vars

\* What the exit of a context throws away is saved, or was written by an agent
\* that outlived its cancelled task.
RestoreDropsOnlyLateEdits ==
  [][mishaps = {} /\ pc' # pc => tree \ tree' \subseteq patches' \cup late]_vars

\* A cancelled task ends without help of the agent: trigger_analysis and the
\* connection's cleanup, which await it, go on.
CancelledEnds == \A t \in Tasks : t \in hit ~> t \notin hit

\* shadow_clean_on_exit (manager.py:104): a context that was entered leaves
\* the tree clean.
ShadowCleanOnExit ==
  [][\A t \in Tasks : pc[t] \in {"run", "save", "restore"} /\ pc'[t] = "out" =>
       tree' = {}]_vars
=============================================================================
