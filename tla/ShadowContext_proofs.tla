------------------------ MODULE ShadowContext_proofs ------------------------
(***************************************************************************)
(* Proofs about ShadowContext, for every set of tasks and of annotations   *)
(* and every set of faults.  The argument is where, at each stage of a     *)
(* context, the only copies of the saved annotations are.                  *)
(***************************************************************************)
EXTENDS ShadowContext, TLAPS

\* Without an overlap, at most one task is in a context.
Exclusive ==
  "overlap" \notin mishaps =>
    \A s, t \in Tasks : pc[s] # "out" /\ pc[t] # "out" => s = t

\* Where the saved annotations are while t is in a context.
SavedAt(t) ==
  /\ pc[t] = "apply" => todo[t] \subseteq patches /\ owed \subseteq tree \cup todo[t]
  /\ pc[t] \in {"run", "save"} => owed \subseteq tree
  /\ pc[t] = "restore" => owed \subseteq patches /\ tree \subseteq patches \cup late

Places == mishaps = {} => \A t \in Tasks : SavedAt(t)

IInv == TypeOK /\ Exclusive /\ SavedNeverLost /\ Places

USE DEF Stages, Goto, Inside, Leave, StartBody, Applied, Cancellable

-----------------------------------------------------------------------------
LEMMA InitIInv == Init => IInv
  BY DEF Init, IInv, TypeOK, Exclusive, SavedNeverLost, Places, SavedAt

\* Every step keeps the types.
LEMMA TypeStep == TypeOK /\ [Next]_vars => TypeOK'
<1> SUFFICES ASSUME TypeOK, [Next]_vars PROVE TypeOK'
  OBVIOUS
<1> USE DEF TypeOK
<1>1. ASSUME NEW t \in Tasks, Enter(t) PROVE TypeOK'
  BY <1>1 DEF Enter
<1>2. ASSUME NEW t \in Tasks, DiffAgainstMain(t) PROVE TypeOK'
  BY <1>2 DEF DiffAgainstMain
<1>3. ASSUME NEW t \in Tasks, Rebase(t) PROVE TypeOK'
  BY <1>3 DEF Rebase
<1>4. ASSUME NEW t \in Tasks, RebaseRefused(t) \/ EntryRaises(t) \/ PatchFileGone(t)
      PROVE TypeOK'
  BY <1>4 DEF RebaseRefused, EntryRaises, PatchFileGone
<1>5. ASSUME NEW t \in Tasks, NEW n \in Notes, ApplyPatch(t, n) PROVE TypeOK'
  BY <1>5 DEF ApplyPatch
<1>6. ASSUME NEW t \in Tasks, NEW n \in Notes, AgentAdds(t, n) \/ AgentRemoves(t, n)
      PROVE TypeOK'
  BY <1>6 DEF AgentAdds, AgentRemoves
<1>7. ASSUME NEW t \in Tasks, AgentEnds(t) PROVE TypeOK'
  BY <1>7 DEF AgentEnds
<1>8. ASSUME NEW t \in Tasks, SavePatches(t) \/ SavePatchesRaises(t) PROVE TypeOK'
  BY <1>8 DEF SavePatches, SavePatchesRaises
<1>9. ASSUME NEW t \in Tasks, Restore(t) \/ RestoreRaises(t) PROVE TypeOK'
  BY <1>9 DEF Restore, RestoreRaises
<1>10. ASSUME NEW t \in Tasks, Cancel(t) PROVE TypeOK'
  BY <1>10 DEF Cancel, CancelEntry, CancelBody, CancelSave, CancelRestore
<1>11. ASSUME Crash PROVE TypeOK'
  BY <1>11 DEF Crash
<1>12. CASE UNCHANGED vars
  BY <1>12 DEF vars
<1> QED
  BY <1>1, <1>2, <1>3, <1>4, <1>5, <1>6, <1>7, <1>8, <1>9, <1>10, <1>11, <1>12
     DEF Next, GitStep, AgentStep

\* A task comes into a context only when nobody is inside or by an overlap.
LEMMA ExclusiveStep == TypeOK /\ Exclusive /\ [Next]_vars => Exclusive'
<1> SUFFICES ASSUME TypeOK, Exclusive, [Next]_vars PROVE Exclusive'
  OBVIOUS
<1> USE DEF TypeOK, Exclusive
<1>1. ASSUME NEW t \in Tasks, Enter(t) PROVE Exclusive'
  BY <1>1 DEF Enter
<1>2. ASSUME NEW t \in Tasks, GitStep(t) PROVE Exclusive'
  BY <1>2 DEF GitStep, DiffAgainstMain, Rebase, RebaseRefused, EntryRaises,
              PatchFileGone, ApplyPatch, SavePatches, SavePatchesRaises, Restore, RestoreRaises
<1>3. ASSUME NEW t \in Tasks, AgentStep(t) PROVE Exclusive'
  BY <1>3 DEF AgentStep, AgentAdds, AgentRemoves, AgentEnds
<1>4. ASSUME NEW t \in Tasks, Cancel(t) PROVE Exclusive'
  BY <1>4 DEF Cancel, CancelEntry, CancelBody, CancelSave, CancelRestore
<1>5. ASSUME Crash PROVE Exclusive'
  BY <1>5 DEF Crash
<1>6. CASE UNCHANGED vars
  BY <1>6 DEF vars
<1> QED
  BY <1>1, <1>2, <1>3, <1>4, <1>5, <1>6 DEF Next

\* Every step leaves the saved annotations where Places says.
LEMMA PlacesStep == IInv /\ [Next]_vars => SavedNeverLost' /\ Places'
<1> SUFFICES ASSUME IInv, [Next]_vars, mishaps' = {}
             PROVE owed' \subseteq tree' \cup patches' /\ \A t \in Tasks : SavedAt(t)'
  BY DEF SavedNeverLost, Places
<1> DEFINE Goal == owed' \subseteq tree' \cup patches' /\ \A t \in Tasks : SavedAt(t)'
<1>a. mishaps = {}
  BY DEF Next, Enter, GitStep, DiffAgainstMain, Rebase, RebaseRefused, EntryRaises,
         PatchFileGone, ApplyPatch, SavePatches, SavePatchesRaises, Restore, RestoreRaises,
         AgentStep, AgentAdds, AgentRemoves, AgentEnds,
         Cancel, CancelEntry, CancelBody, CancelSave, CancelRestore, Crash, vars
<1>b. \A s, t \in Tasks : pc[s] # "out" /\ pc[t] # "out" => s = t
  BY <1>a DEF IInv, Exclusive
<1>c. owed \subseteq tree \cup patches /\ \A t \in Tasks : SavedAt(t)
  BY <1>a DEF IInv, SavedNeverLost, Places
<1>d. TypeOK
  BY DEF IInv
<1> USE DEF TypeOK, SavedAt
<1> HIDE DEF Goal
<1>1. ASSUME NEW t \in Tasks, Enter(t) PROVE Goal
  BY <1>1, <1>b, <1>c, <1>d DEF Enter, Goal
<1>2. ASSUME NEW t \in Tasks, DiffAgainstMain(t) PROVE Goal
  BY <1>2, <1>b, <1>c, <1>d DEF DiffAgainstMain, Goal
<1>3. ASSUME NEW t \in Tasks, Rebase(t) PROVE Goal
  BY <1>3, <1>b, <1>c, <1>d DEF Rebase, Goal
<1>4. ASSUME NEW t \in Tasks, RebaseRefused(t) \/ EntryRaises(t) \/ PatchFileGone(t)
      PROVE Goal
  BY <1>4, <1>b, <1>c, <1>d DEF RebaseRefused, EntryRaises, PatchFileGone, Goal
<1>5. ASSUME NEW t \in Tasks, NEW n \in Notes, ApplyPatch(t, n) PROVE Goal
  BY <1>5, <1>b, <1>c, <1>d DEF ApplyPatch, Goal
<1>6. ASSUME NEW t \in Tasks, NEW n \in Notes, AgentAdds(t, n) PROVE Goal
  BY <1>6, <1>b, <1>c, <1>d DEF AgentAdds, Goal
<1>7. ASSUME NEW t \in Tasks, NEW n \in Notes, AgentRemoves(t, n) PROVE Goal
  BY <1>7, <1>b, <1>c, <1>d DEF AgentRemoves, Goal
<1>8. ASSUME NEW t \in Tasks, AgentEnds(t) PROVE Goal
  BY <1>8, <1>b, <1>c, <1>d DEF AgentEnds, Goal
<1>9. ASSUME NEW t \in Tasks, SavePatches(t) PROVE Goal
  BY <1>9, <1>b, <1>c, <1>d DEF SavePatches, Goal
<1>10. ASSUME NEW t \in Tasks, SavePatchesRaises(t) PROVE Goal
  BY <1>10 DEF SavePatchesRaises
<1>11. ASSUME NEW t \in Tasks, Restore(t) \/ RestoreRaises(t) PROVE Goal
  BY <1>11, <1>b, <1>c, <1>d DEF Restore, RestoreRaises, Goal
<1>12. ASSUME NEW t \in Tasks, CancelEntry(t) PROVE Goal
  BY <1>12, <1>b, <1>c, <1>d DEF CancelEntry, Goal
<1>13. ASSUME NEW t \in Tasks, CancelBody(t) PROVE Goal
  BY <1>13, <1>b, <1>c, <1>d DEF CancelBody, Goal
<1>14. ASSUME NEW t \in Tasks, CancelSave(t) \/ CancelRestore(t) PROVE Goal
  BY <1>14, <1>b, <1>c, <1>d DEF CancelSave, CancelRestore, Goal
<1>15. ASSUME Crash PROVE Goal
  BY <1>15, <1>b, <1>c, <1>d DEF Crash, Goal
<1>16. CASE UNCHANGED vars
  BY <1>16, <1>c, <1>d DEF vars, Goal
<1> QED
  BY <1>1, <1>2, <1>3, <1>4, <1>5, <1>6, <1>7, <1>8, <1>9, <1>10, <1>11, <1>12,
     <1>13, <1>14, <1>15, <1>16 DEF Next, GitStep, AgentStep, Cancel, Goal

\* The inductive invariant holds in every reachable state.
THEOREM Invariance == Spec => []IInv
<1>1. IInv /\ [Next]_vars => IInv'
  BY TypeStep, ExclusiveStep, PlacesStep DEF IInv
<1> QED
  BY InitIInv, <1>1, PTL DEF Spec

\* The model's variables keep their types.
THEOREM TypeCorrect == Spec => []TypeOK
<1>1. IInv => TypeOK
  BY DEF IInv
<1> QED
  BY Invariance, <1>1, PTL

\* RepoMgr.context: unless contexts overlap or a save raises, a saved
\* annotation is always in the tree or in the patches directory, wherever
\* tasks are cancelled, git fails or the server dies.
THEOREM SavedIsNeverLost == Spec => []SavedNeverLost
<1>1. IInv => SavedNeverLost
  BY DEF IInv
<1> QED
  BY Invariance, <1>1, PTL

-----------------------------------------------------------------------------
\* The step into a body: only Rebase and ApplyPatch make it.
LEMMA AppliedStep ==
  IInv /\ [Next]_vars =>
    \A t \in Tasks : mishaps = {} /\ pc[t] # "run" /\ pc'[t] = "run" =>
      owed' \subseteq tree' /\ patches' = {}
<1> SUFFICES ASSUME IInv, [Next]_vars, NEW t \in Tasks,
                    mishaps = {}, pc[t] # "run", pc'[t] = "run"
             PROVE owed' \subseteq tree' /\ patches' = {}
  OBVIOUS
<1>1. \/ Rebase(t)
      \/ \E n \in Notes : ApplyPatch(t, n)
  BY DEF Next, Enter, GitStep, DiffAgainstMain, Rebase, RebaseRefused, EntryRaises,
         PatchFileGone, ApplyPatch, SavePatches, SavePatchesRaises, Restore, RestoreRaises,
         AgentStep, AgentAdds, AgentRemoves, AgentEnds,
         Cancel, CancelEntry, CancelBody, CancelSave, CancelRestore, Crash, vars,
         IInv, TypeOK
<1>2. owed' \subseteq tree'
  <2>1. mishaps' = {} /\ Places'
    BY <1>1, PlacesStep DEF Rebase, ApplyPatch
  <2> QED
    BY <2>1 DEF Places, SavedAt
<1>3. patches' = {}
  BY <1>1 DEF Rebase, ApplyPatch, IInv, TypeOK
<1> QED
  BY <1>2, <1>3

\* context.patches_applied_on_entry (manager.py:103): whoever gets into a body
\* finds every saved annotation in the tree and leaves no patch file behind.
THEOREM EntryApplies == Spec => AppliedOnEntry
<1>1. IInv /\ [Next]_vars =>
        [\A t \in Tasks : mishaps = {} /\ pc[t] # "run" /\ pc'[t] = "run" =>
           owed' \subseteq tree' /\ patches' = {}]_vars
  BY AppliedStep
<1> QED
  BY Invariance, <1>1, PTL DEF Spec, AppliedOnEntry

\* A step that moves a task along and takes something out of the tree is the
\* restore of the one task inside, whose edits are saved or late.
LEMMA DropStep ==
  IInv /\ [Next]_vars =>
    (mishaps = {} /\ pc' # pc => tree \ tree' \subseteq patches' \cup late)
<1> SUFFICES ASSUME IInv, [Next]_vars, mishaps = {}, pc' # pc
             PROVE tree \ tree' \subseteq patches' \cup late
  OBVIOUS
<1>1. \/ tree \subseteq tree'
      \/ \E t \in Tasks : pc[t] = "restore" /\ patches' = patches
  BY DEF Next, Enter, GitStep, DiffAgainstMain, Rebase, RebaseRefused, EntryRaises,
         PatchFileGone, ApplyPatch, SavePatches, SavePatchesRaises, Restore, RestoreRaises,
         AgentStep, AgentAdds, AgentRemoves, AgentEnds,
         Cancel, CancelEntry, CancelBody, CancelSave, CancelRestore, Crash, vars
<1> QED
  BY <1>1 DEF IInv, Places, SavedAt

\* The exit of a context throws away only what is saved or what an agent wrote
\* that outlived its cancelled task.
THEOREM ExitDropsOnlyLateEdits == Spec => RestoreDropsOnlyLateEdits
<1>1. IInv /\ [Next]_vars =>
        [mishaps = {} /\ pc' # pc => tree \ tree' \subseteq patches' \cup late]_vars
  BY DropStep
<1> QED
  BY Invariance, <1>1, PTL DEF Spec, RestoreDropsOnlyLateEdits
=============================================================================
