---------------------------- MODULE TagStateStore ----------------------------
(***************************************************************************)
(* The annotation tag store of repo_manager/tag_state.py: a JSON file of   *)
(* tag |-> (status, hash of the patch), and store objects that read the    *)
(* file once and from then on only look at their own copy of it.           *)
(*                                                                         *)
(* Every method of a store is synchronous, so on the server's event loop   *)
(* it is one step.  A method changes the copy first and rewrites the whole *)
(* file from it afterwards; the rewrite (temp file and rename) is atomic,  *)
(* but it may raise, and then the copy has changed and the file has not.   *)
(*                                                                         *)
(* The stores that live longer than one step are those of the RepoMgr of a *)
(* WebSocket connection.  The stores that feedback, MCP questions and the  *)
(* initial analysis use are created, used in one step and dropped: they    *)
(* act on the file directly.  remove_tag and clear have no caller.         *)
(***************************************************************************)
EXTENDS Naturals, FiniteSets

CONSTANTS
  Tags,          \* annotation tags
  Hashes,        \* hashes of patch contents
  Contents,      \* for every tag, the hashes of the patches it may have
  Removals,      \* the hashes of patches that delete their annotation
  MaxPatches,    \* bound: how many patches a save has
  Connections,   \* WebSocket connections, each with a RepoMgr and its store
  Absent,        \* "no entry for this tag"
  Unloaded       \* the copy of a store that has not read the file yet

Status == {"unseen", "sent", "accepted", "rejected"}
Entry == [status : Status, hash : Hashes]
StateMap == [Tags -> Entry \cup {Absent}]

ASSUME AbsentAssumption == Absent \notin Entry /\ Absent \notin Hashes
ASSUME ContentsAssumption == Contents \in [Tags -> SUBSET Hashes]
ASSUME RemovalsAssumption == Removals \subseteq Hashes
ASSUME MaxPatchesAssumption == MaxPatches \in Nat \ {0}
ASSUME UnloadedAssumption == Unloaded \notin StateMap

VARIABLES
  disk,          \* tag_state.json
  mem            \* _state of every connection's store, or Unloaded

storeVars == <<disk, mem>>

\* What a method of c's store sees: _ensure_loaded reads the file only once.
View(c) == IF mem[c] = Unloaded THEN disk ELSE mem[c]

-----------------------------------------------------------------------------
(* The methods as functions from a state map to the state map they leave. *)

\* What the patches of one save or of a worktree are for every tag: their
\* contents, and the one that is registered last.  A tag has more than one when
\* an annotation of HEAD is reworded (one patch deletes the old line, another
\* adds the new one) or when it is used in two files.
NoPatch == [all |-> {}, last |-> Absent]
TagPatches == {p \in [all : SUBSET Hashes, last : Hashes] : p.last \in p.all}
PatchSets ==
  {ps \in [Tags -> TagPatches \cup {NoPatch}] :
     /\ \A t \in Tags : ps[t].all \subseteq Contents[t]
     /\ Cardinality({p \in Tags \X Hashes : p[2] \in ps[p[1]].all}) <= MaxPatches}

NoPatches == [t \in Tags |-> NoPatch]
Then(ps, t, h) == [ps EXCEPT ![t] = [all |-> @.all \cup {h}, last |-> h]]
TagsOf(ps) == {t \in Tags : ps[t].all # {}}

\* The tags whose registration creates or resets an entry of m: with two
\* contents, one of them is not the entry's, whichever it has.
ChangedTags(m, ps) ==
  {t \in TagsOf(ps) : m[t] = Absent \/ ps[t].all # {m[t].hash}}

\* upsert_tag of every patch of ps: new and changed tags become UNSEEN.
\* (The first two definitions are faulty variants of the third: one resets
\* tags whose content is unchanged, one forgets to record the hash.)
UpsertedAlwaysReset(m, ps) ==
  [t \in Tags |-> IF t \in TagsOf(ps)
                  THEN [status |-> "unseen", hash |-> ps[t].last] ELSE m[t]]
UpsertedWithoutHash(m, ps) ==
  [t \in Tags |-> IF t \in ChangedTags(m, ps)
                  THEN [status |-> "unseen"] ELSE m[t]]
Upserted(m, ps) ==
  [t \in Tags |-> IF t \in ChangedTags(m, ps)
                  THEN [status |-> "unseen", hash |-> ps[t].last] ELSE m[t]]

\* The tags of T that are UNSEEN in m. (Faulty variant: every known tag.)
KnownOf(m, T) == {t \in T : m[t] # Absent}
UnseenOf(m, T) == {t \in T : m[t] # Absent /\ m[t].status = "unseen"}

\* mark_sent: only UNSEEN tags change.
MarkedSent(m, T) ==
  [t \in Tags |-> IF t \in UnseenOf(m, T)
                  THEN [m[t] EXCEPT !.status = "sent"] ELSE m[t]]

\* set_status of a tag that m knows: whatever the tag's status was.
StatusSet(m, t, d) == [m EXCEPT ![t].status = d]

-----------------------------------------------------------------------------
\* c's store goes from its view to m; a method that changes something saves, and
\* _save writes the whole copy over the file.
Persist(c, m, saves) ==
  /\ mem' = [mem EXCEPT ![c] = m]
  /\ disk' = IF saves THEN m ELSE disk

\* c's store reaches m in memory, but the last save raises: the file holds
\* what the saves before it wrote, the map written.
PersistRaises(c, written, m, saves) ==
  /\ m # written
  /\ mem' = [mem EXCEPT ![c] = m]
  /\ disk' = IF saves THEN written ELSE disk

StoreTypeOK ==
  /\ disk \in StateMap
  /\ mem \in [Connections -> StateMap \cup {Unloaded}]

StoreInit ==
  /\ disk = [t \in Tags |-> Absent]
  /\ mem = [c \in Connections |-> Unloaded]
=============================================================================
