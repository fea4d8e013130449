------------------------------ MODULE TagReview ------------------------------
(***************************************************************************)
(* The review life of annotation tags: patches are saved and registered,   *)
(* handed to the client once, and accepted or rejected by it.              *)
(*                                                                         *)
(* Composes the tag store (TagStateStore) with the operations that use it: *)
(* the exit of RepoMgr.context, get_patch_contents,                        *)
(* filter_unseen_spec_patches, the client's feedback, questions over MCP   *)
(* and the initial analysis after an upload.  Every one of them is a       *)
(* synchronous section of the server's event loop, hence one action; the   *)
(* sections of different tasks and connections interleave.  A save of the  *)
(* store may raise at any of the section's saves.                          *)
(***************************************************************************)
EXTENDS TagStateStore

CONSTANTS
  MaxOpen,       \* how many WebSocket connections may be open at a time
  MaxHanded      \* bound of the ghost counter handed

ASSUME MaxOpenAssumption == MaxOpen \in Nat \ {0}
ASSUME MaxHandedAssumption == MaxHanded \in Nat /\ MaxHanded >= 2

VARIABLES
  open,          \* the connections that are open
  patches,       \* shadow/.patches: the contents of every tag's patch files,
                 \*        without those that delete an annotation
  news,          \* ghost: the tags of which a store, in the last step, registered
                 \*        content that it did not have
  handed,        \* ghost: how often the tag was handed to a response since it
                 \*        was in news
  decided        \* ghost: the last decision the server recorded for the tag,
                 \*        until other content of the tag is registered

ghosts == <<handed, decided>>
vars == <<disk, mem, open, patches, news, ghosts>>

Decisions == {"accepted", "rejected"}
DecidedEntry == [status : Decisions, hash : Hashes]

Min2(n) == IF n < MaxHanded THEN n ELSE MaxHanded

\* The ghosts after the tags of ps are registered with a store whose view is
\* m, and the tags of T are then handed out.
Register(m, ps, T) ==
  /\ news' = ChangedTags(m, ps)
  /\ handed' = [t \in Tags |->
       LET n == IF t \in news' THEN 0 ELSE handed[t]
       IN  IF t \in T THEN Min2(n + 1) ELSE n]
  /\ decided' = [t \in Tags |->
       IF decided[t] # Absent /\ ps[t].all \ {decided[t].hash} # {}
       THEN Absent ELSE decided[t]]

NoNews == news' = {} /\ UNCHANGED ghosts

\* _cleanup_patches_dir removed the old files, _save_hunks writes those of ps;
\* _extract_tag_from_patch finds no tag in one that deletes an annotation.
PatchFiles(ps) == [t \in Tags |-> ps[t].all \ Removals]
Filed == {t \in Tags : patches[t] # {}}

\* filter_unseen_spec_patches skips the patches that delete an annotation.
AddingSets == {ps \in PatchSets : \A t \in Tags : ps[t].all \cap Removals = {}}

-----------------------------------------------------------------------------
\* A client connects: set_project_name makes a new RepoMgr with a new store.
Connect(c) ==
  /\ c \notin open
  /\ Cardinality(open) < MaxOpen
  /\ open' = open \cup {c}
  /\ NoNews /\ UNCHANGED <<disk, mem, patches>>

\* The connection ends, or the server restarts: the store object is gone.
Disconnect(c) ==
  /\ c \in open
  /\ open' = open \ {c}
  /\ mem' = [mem EXCEPT ![c] = Unloaded]
  /\ NoNews /\ UNCHANGED <<disk, patches>>

\* A debounced analysis of c leaves RepoMgr.context: _save_patches writes the
\* patch files and registers their tags.
SavePatches(c, ps) ==
  /\ c \in open
  /\ ps # NoPatches
  /\ Persist(c, Upserted(View(c), ps), ChangedTags(View(c), ps) # {})
  /\ patches' = PatchFiles(ps)
  /\ Register(View(c), ps, {})
  /\ UNCHANGED open

\* A context of c or of the initial analysis ends with no annotation left in
\* the shadow tree: the patch files are gone and no store is touched.
SaveNothing ==
  /\ patches' = PatchFiles(NoPatches)
  /\ NoNews /\ UNCHANGED <<disk, mem, open>>

\* SavePatches, but registering the content h of t raises after the patches of
\* ps: the files after it are not written.
SavePatchesRaises(c, ps, t, h) ==
  /\ c \in open /\ Then(ps, t, h) \in PatchSets
  /\ PersistRaises(c, Upserted(View(c), ps), Upserted(View(c), Then(ps, t, h)),
                   ChangedTags(View(c), ps) # {})
  /\ patches' = PatchFiles(Then(ps, t, h))
  /\ Register(View(c), Then(ps, t, h), {})
  /\ UNCHANGED open

\* get_patch_contents(mark_sent=True): the poll, a reconnect or the end of an
\* analysis takes the UNSEEN tags that have a patch file and marks them SENT.
Collect(c) ==
  LET m == View(c)
      T == UnseenOf(m, Filed)
  IN  /\ c \in open
      /\ Filed # {}
      /\ Persist(c, MarkedSent(m, T), T # {})
      /\ Register(m, NoPatches, T)
      /\ UNCHANGED <<open, patches>>

\* The same, but the save of mark_sent raises: nothing is handed out.
CollectRaises(c) ==
  LET m == View(c)
      T == UnseenOf(m, Filed)
  IN  /\ c \in open
      /\ PersistRaises(c, m, MarkedSent(m, T), FALSE)
      /\ NoNews /\ UNCHANGED <<open, patches>>

\* An analysis in a worktree ends (an analysis request or a question of the
\* client): filter_unseen_spec_patches registers the worktree's patches and
\* takes the UNSEEN ones.  They have no patch file.
FilterUnseen(c, ps) ==
  LET m == Upserted(View(c), ps)
      T == UnseenOf(m, TagsOf(ps))
  IN  /\ c \in open
      /\ ps # NoPatches
      /\ Persist(c, MarkedSent(m, T), ChangedTags(View(c), ps) \cup T # {})
      /\ Register(View(c), ps, T)
      /\ UNCHANGED <<open, patches>>

\* The same, but it raises: the save of the registration of h, the reading of
\* the patch after those of ps (its header may not parse), or the final mark.
FilterUnseenRaises(c, ps, t, h) ==
  /\ c \in open /\ Then(ps, t, h) \in PatchSets
  /\ PersistRaises(c, Upserted(View(c), ps), Upserted(View(c), Then(ps, t, h)),
                   ChangedTags(View(c), ps) # {})
  /\ Register(View(c), Then(ps, t, h), {})
  /\ UNCHANGED <<open, patches>>

FilterUnseenStops(c, ps) ==
  /\ c \in open
  /\ ps # NoPatches
  /\ Persist(c, Upserted(View(c), ps), ChangedTags(View(c), ps) # {})
  /\ Register(View(c), ps, {})
  /\ UNCHANGED <<open, patches>>

FilterUnseenMarkRaises(c, ps) ==
  LET m == Upserted(View(c), ps)
  IN  /\ c \in open
      /\ PersistRaises(c, m, MarkedSent(m, UnseenOf(m, TagsOf(ps))),
                       ChangedTags(View(c), ps) # {})
      /\ Register(View(c), ps, {})
      /\ UNCHANGED <<open, patches>>

\* Feedback for the tag t arrives (patch_review, annotations_deleted): a new
\* store reads the file, sets the status and saves it.  An unknown tag and a
\* save that raises change nothing: _append_feedback swallows the exception.
Feedback(c, t, d) ==
  /\ c \in open
  /\ disk[t] # Absent
  /\ disk' = StatusSet(disk, t, d)
  /\ decided' = [decided EXCEPT ![t] = [status |-> d, hash |-> disk[t].hash]]
  /\ news' = {}
  /\ UNCHANGED <<mem, open, patches, handed>>

\* ask_question_lite over MCP: a new RepoMgr registers the worktree's patches
\* (mark_sent=False) and drops them.
AskOverMcp(ps) ==
  /\ disk' = Upserted(disk, ps)
  /\ Register(disk, ps, {})
  /\ UNCHANGED <<mem, open, patches>>

\* run_initial_analysis leaves its context: a RepoMgr of its own, whose store
\* is first used here, writes the patch files and registers their tags.
InitialSavePatches(ps) ==
  /\ disk' = Upserted(disk, ps)
  /\ patches' = PatchFiles(ps)
  /\ Register(disk, ps, {})
  /\ UNCHANGED <<mem, open>>

-----------------------------------------------------------------------------
Init ==
  /\ StoreInit
  /\ open = {}
  /\ patches = [t \in Tags |-> {}]
  /\ news = {}
  /\ handed = [t \in Tags |-> 0]
  /\ decided = [t \in Tags |-> Absent]

ConnectionStep(c) ==
  \/ Connect(c) \/ Disconnect(c) \/ Collect(c) \/ CollectRaises(c)
  \/ \E t \in Tags, d \in Decisions : Feedback(c, t, d)
  \/ \E ps \in PatchSets :
       \/ SavePatches(c, ps)
       \/ \E t \in Tags : \E h \in Contents[t] : SavePatchesRaises(c, ps, t, h)
  \/ \E ps \in AddingSets :
       \/ FilterUnseen(c, ps) \/ FilterUnseenStops(c, ps) \/ FilterUnseenMarkRaises(c, ps)
       \/ \E t \in Tags : \E h \in Contents[t] \ Removals : FilterUnseenRaises(c, ps, t, h)

Next ==
  \/ SaveNothing
  \/ \E c \in Connections : ConnectionStep(c)
  \/ \E ps \in PatchSets : InitialSavePatches(ps)
  \/ \E ps \in AddingSets : AskOverMcp(ps)

Spec == Init /\ [][Next]_vars

-----------------------------------------------------------------------------
TypeOK ==
  /\ StoreTypeOK
  /\ open \in SUBSET Connections
  /\ patches \in [Tags -> SUBSET Hashes]
  /\ news \in SUBSET Tags
  /\ handed \in [Tags -> 0 .. MaxHanded]
  /\ decided \in [Tags -> DecidedEntry \cup {Absent}]

\* A tag is handed to the client at most once until a store registers content of
\* it that the store does not have: across polls, analysis results, answers to
\* questions, reconnects that reread the file, feedback and saves that raise.
\* (upsert_tag's unchanged_preserves and mark_sent, with get_patch_contents
\* and filter_unseen_spec_patches as the only readers.)  Of a tag with two
\* patches every save registers such content, although nothing has changed:
\* it is handed out after every save.
HandedOutOnce == \A t \in Tags : handed[t] <= 1

\* A decision the server recorded is still what the file says, as long as no
\* other content of the tag was registered.
NoLostDecision ==
  \A t \in Tags : decided[t] # Absent => disk[t] = decided[t]

\* A decision disappears from the file only in a step of a connection's store
\* from whose copy it was already missing.  The ghost decided has
\* the decisions about content beside which no other of the tag was registered,
\* which resets it (for a tag with two patches: every save), and the client may
\* decide again, though tag_state.py:31 lists no such transition.
DecisionLostOnlyByStaleCopy ==
  [][\A t \in Tags :
       decided[t] # Absent /\ disk[t] = decided[t]
         /\ decided'[t] = decided[t] /\ disk'[t] # disk[t] =>
           \E c \in open : View(c)[t] # disk[t] /\ ConnectionStep(c)]_vars

\* What one store's copy can do to a tag while the store lives: it appears as
\* UNSEEN or SENT, returns there only in a step that registers content which the
\* copy does not have (and maybe the old content after it), becomes SENT only
\* from UNSEEN, and a decision is never made in the copy.
LegalInCopy(t, old, new) ==
  \/ new = old
  \/ new # Absent /\ new.status \in {"unseen", "sent"} /\ t \in news'
  \/ new # Absent /\ old # Absent /\ old.status = "unseen" /\
       new = [old EXCEPT !.status = "sent"]

CopyStepsLegal ==
  [][\A c \in Connections, t \in Tags :
       mem[c] # Unloaded /\ mem'[c] # Unloaded =>
         LegalInCopy(t, mem[c][t], mem'[c][t])]_vars
=============================================================================
