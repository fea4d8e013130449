----------------------------- MODULE DiffSplit -----------------------------
(***************************************************************************)
(* What diff_parser.py makes of an analysis' changes to a file, and what   *)
(* becomes of it when RepoMgr applies it again.                            *)
(*                                                                         *)
(* At the end of a context the diff of the shadow tree against HEAD is     *)
(* split into one patch per annotation ("# pf:" line) and the tree is      *)
(* restored; at the start of the next the patches are applied one by one,  *)
(* and what does not apply is dropped.  ShadowContext has the awaits of    *)
(* this; here is its data, for one file.                                   *)
(*                                                                         *)
(* The file in the tree is kept as its diff: a sequence of lines, each     *)
(* marked "both" (" " in a diff), "old" ("-", in HEAD only) or "new" ("+", *)
(* in the tree only).                                                      *)
(***************************************************************************)
EXTENDS Integers, FiniteSets, SequencesExt

CONSTANTS
  Annotations,   \* lines with "# pf:"
  Code,          \* other lines
  Stripped,      \* a line as splitlines and "\n".join leave it; one that they change is
                 \* odd: it ends in CRLF, or is the last and has no line end
  Heads,         \* the files HEAD may have at first
  Context,       \* how many lines of context git diff shows: 3
  MaxEdits,      \* bound: changes of the agent
  MaxContexts    \* bound: how often a context ends

Lines == Annotations \cup Code

ASSUME DiffAssumption ==
  /\ Annotations \cap Code = {}
  /\ Stripped \in [Lines -> Lines]
  /\ \A l \in Lines : /\ Stripped[Stripped[l]] = Stripped[l]
                      /\ Stripped[l] \in Annotations <=> l \in Annotations
  /\ Heads \subseteq Seq(Lines)
  /\ Context \in Nat \ {0} /\ MaxEdits \in Nat /\ MaxContexts \in Nat

VARIABLES
  script,   \* the file in the shadow tree, as its diff against HEAD
  stage,    \* "body" of a context, "entry" of one, "outside", or "failed" entries
  patches,  \* the patch files, in the order of their names
  saved,    \* ghost: the script of which they are the patches
  applied,  \* how many of them _apply_patches has tried
  refused,  \* ghost: those that git apply refused
  accepted, \* ghost: those that the user has applied to HEAD
  edits,    \* how many changes the agent has made
  contexts  \* how many contexts have ended

vars == <<script, stage, patches, saved, applied, refused, accepted, edits, contexts>>

-----------------------------------------------------------------------------
(* Scripts. *)

Mark(m, l) == [mark |-> m, line |-> l]
Unchanged(file) == [i \in DOMAIN file |-> Mark("both", file[i])]

\* The positions K, by their keys and by themselves.  (By counting, which can be
\* proved about, rather than by SortSeq, which is recursive.)
Arranged(K, key) ==
  [n \in 1 .. Cardinality(K) |->
     CHOOSE i \in K : Cardinality({j \in K : key[j] <= key[i]}) = n]
InOrder(K) == Arranged(K, [i \in K |-> i])

\* The lines of s at the positions K.
LinesAt(s, K) == [n \in 1 .. Cardinality(K) |-> s[InOrder(K)[n]].line]

OldLines(s) == {i \in DOMAIN s : s[i].mark # "new"}
NewLines(s) == {i \in DOMAIN s : s[i].mark # "old"}
Old(s) == LinesAt(s, OldLines(s))
New(s) == LinesAt(s, NewLines(s))

Changed(s) == {i \in DOMAIN s : s[i].mark # "both"}

\* i and j, i first, are in one block of changes.
Together(s, i, j) == i < j /\ i .. j \subseteq Changed(s)

\* git shows the deletions of a block before its additions, and does not
\* show a line that is in both as changed.
Pairs(s) == {p \in Changed(s) \X Changed(s) :
  /\ Together(s, p[1], p[2])
  /\ s[p[1]].mark = "old" /\ s[p[2]].mark = "new" /\ s[p[1]].line = s[p[2]].line}
Ordered(s) == \A i, j \in Changed(s) : Together(s, i, j) => ~ (s[i].mark = "new" /\ s[j].mark = "old")
Canonical(s) == Ordered(s) /\ Pairs(s) = {}

\* Deletions go to the front of their block, and a line that is deleted and
\* added there, if there is one, becomes an unchanged one.
Reordered(s) ==
  LET Rank(i) == 3 * Cardinality({k \in 1 .. i : s[k].mark = "both"})
                   + (CASE s[i].mark = "both" -> 0 [] s[i].mark = "old" -> 1 [] s[i].mark = "new" -> 2)
      order == Arranged(DOMAIN s, [i \in DOMAIN s |-> Rank(i) * Len(s) + i])
  IN  [n \in DOMAIN s |-> s[order[n]]]
Paired(s) ==
  LET p == CHOOSE p \in Pairs(s) : TRUE
      d == CHOOSE d \in p[1] .. p[2] : s[d].mark = "old" /\ s[d + 1].mark = "new"
  IN  SubSeq(s, 1, p[1] - 1) \o SubSeq(s, d + 1, p[2] - 1) \o <<Mark("both", s[p[1]].line)>>
        \o SubSeq(s, p[1] + 1, d) \o SubSeq(s, p[2] + 1, Len(s))
Shown(s) ==
  LET shown[n \in 0 .. Len(s)] ==
        IF n = 0 THEN Reordered(s)
        ELSE LET t == shown[n - 1] IN IF Pairs(t) = {} THEN t ELSE Paired(t)
  IN  shown[Len(s)]

\* The line l, added after t lines of the tree; line t of the tree, deleted.
Added(s, t, l) ==
  LET i == IF t = 0 THEN 0 ELSE InOrder(NewLines(s))[t]
  IN  Shown(InsertAt(s, i + 1, Mark("new", l)))
Deleted(s, t) ==
  LET i == InOrder(NewLines(s))[t]
  IN  Shown(IF s[i].mark = "new" THEN RemoveAt(s, i) ELSE [s EXCEPT ![i].mark = "old"])

-----------------------------------------------------------------------------
(* The parser: hunks, and their patches. *)

\* The diff as the parser has it, its lines stripped.
Parsed(s) == [i \in DOMAIN s |-> Mark(s[i].mark, Stripped[s[i].line])]

\* An annotation is a changed line with "# pf:".
\* (Faulty variant: only additions are.)
IsPfAdded(s, i) == s[i].mark = "new" /\ s[i].line \in Annotations
IsPf(s, i) == s[i].mark # "both" /\ s[i].line \in Annotations

\* git diff joins changes with at most 2 * Context unchanged lines between.
StartsHunk(s, c) == c \in Changed(s) /\ \A d \in Changed(s) : d < c => c - d > 2 * Context + 1

\* The hunk of a change, as the positions of its lines.
Hunk(s, k) ==
  {i \in DOMAIN s : \E c, d \in Changed(s) :
     /\ c - Context <= i /\ i <= d + Context
     /\ StartsHunk(s, c) /\ c <= k /\ c <= d
     /\ \A e \in Changed(s) : StartsHunk(s, e) => e <= c \/ (k < e /\ d < e)}

\* Where the header says that a hunk starts, in HEAD and in the tree: its
\* first line, or the line before it when it has none on that side.
Start(s, hunk, marks) ==
  LET before == {i \in DOMAIN s : s[i].mark \in marks /\ \A j \in hunk : i < j}
      inside == {i \in hunk : s[i].mark \in marks}
  IN  Cardinality(before) + IF inside = {} THEN 0 ELSE 1
OldStart(s, hunk) == Start(s, hunk, {"both", "old"})
NewStart(s, hunk) == Start(s, hunk, {"both", "new"})

\* The annotations of a hunk that come before k, by their mark.
Earlier(s, hunk, k, mark) ==
  {i \in hunk : IsPf(s, i) /\ i < k /\ s[i].mark = mark}

\* The lines of the patch for the annotation at k: the context, additions of
\* earlier annotations as if they had always been there, and the one itself.
\* (Faulty variant: earlier additions are left out.)
KeptUncumulative(s, k) == {i \in Hunk(s, k) : s[i].mark = "both" \/ i = k}
Kept(s, k) == {i \in Hunk(s, k) : \/ s[i].mark = "both"
                                  \/ i = k
                                  \/ IsPf(s, i) /\ i < k /\ s[i].mark = "new"}

PatchFor(s, k) ==
  LET hunk == Hunk(s, k)
      kept == InOrder(Kept(s, k))
  IN  [old  |-> OldStart(s, hunk),
       new  |-> NewStart(s, hunk) + Cardinality(Earlier(s, hunk, k, "new"))
                                  - Cardinality(Earlier(s, hunk, k, "old")),
       body |-> [n \in DOMAIN kept |->
                   IF kept[n] = k THEN s[k] ELSE Mark("both", s[kept[n]].line)]]

Split(s) ==
  LET pf == InOrder({i \in DOMAIN s : IsPf(s, i)})
  IN  [n \in DOMAIN pf |-> PatchFor(s, pf[n])]

-----------------------------------------------------------------------------
(* git apply, of one patch of one hunk. *)

\* After how many lines of the file the lines of the patch are found: a hunk
\* that starts at the first line must be there, one without context at its
\* end must be at the end of the file.
Matches(p, file) ==
  LET pre == Old(p.body) IN
  {n \in 0 .. Len(file) - Len(pre) :
     /\ SubSeq(file, n + 1, n + Len(pre)) = pre
     /\ p.old <= 1 => n = 0
     /\ p.body[Len(p.body)].mark # "both" => n = Len(file) - Len(pre)}

Applies(p, file) == Matches(p, file) # {}

Distance(m, n) == IF m < n THEN n - m ELSE m - n

\* The match nearest to where the header says; of two, the later one.
Place(p, file) ==
  LET there == IF p.new > 0 THEN p.new - 1 ELSE 0 IN
  CHOOSE n \in Matches(p, file) : \A m \in Matches(p, file) :
    \/ Distance(n, there) < Distance(m, there)
    \/ Distance(n, there) = Distance(m, there) /\ n >= m

AppliedTo(p, s) ==
  LET k == CHOOSE k \in Changed(p.body) : TRUE
      t == Place(p, New(s)) + k - 1
  IN  IF p.body[k].mark = "new" THEN Added(s, t, p.body[k].line) ELSE Deleted(s, t + 1)

-----------------------------------------------------------------------------
(* The file in the shadow tree. *)

Init ==
  /\ \E file \in Heads : script = Unchanged(file)
  /\ stage = "body" /\ patches = <<>> /\ saved = script
  /\ applied = 0 /\ refused = {} /\ accepted = {}
  /\ edits = 0 /\ contexts = 0

\* The agent adds or deletes a line.
AgentEdits ==
  /\ stage = "body" /\ edits < MaxEdits /\ edits' = edits + 1
  /\ \/ \E t \in 0 .. Len(New(script)), l \in Lines : script' = Added(script, t, l)
     \/ \E t \in DOMAIN New(script) : script' = Deleted(script, t)
  /\ UNCHANGED <<stage, patches, saved, applied, refused, accepted, contexts>>

\* _save_patches and _restore, at the end of the context.
Save ==
  /\ stage = "body" /\ contexts < MaxContexts
  /\ stage' = "outside" /\ contexts' = contexts + 1
  /\ patches' = Split(Parsed(script)) /\ saved' = script
  /\ script' = Unchanged(Old(script))
  /\ UNCHANGED <<applied, refused, accepted, edits>>

\* The user accepts a patch: the client applies it to the file and syncs it,
\* and the rebase of the next entry has it in HEAD.
UserAccepts ==
  /\ stage = "outside"
  /\ \E n \in DOMAIN patches \ accepted :
       /\ patches[n].new >= 0 /\ Applies(patches[n], New(script))
       /\ script' = Unchanged(New(AppliedTo(patches[n], script)))
       /\ accepted' = accepted \cup {n}
  /\ UNCHANGED <<stage, patches, saved, applied, refused, edits, contexts>>

\* The next context: diff and rebase, and then the patches.
Enter ==
  /\ stage = "outside" /\ stage' = "entry"
  /\ UNCHANGED <<script, patches, saved, applied, refused, accepted, edits, contexts>>

\* _apply_patches parses a patch before it applies it.  A negative line number does
\* not parse: ValueError leaves the entry, and the patch files stay as they are, so
\* that every later entry ends here too.
ParseFails ==
  /\ stage = "entry" /\ applied < Len(patches) /\ patches[applied + 1].new < 0
  /\ stage' = "failed"
  /\ UNCHANGED <<script, patches, saved, applied, refused, accepted, edits, contexts>>

\* _apply_single_patch, in the loop of _apply_patches.
Apply ==
  /\ stage = "entry" /\ applied < Len(patches) /\ patches[applied + 1].new >= 0
  /\ applied' = applied + 1
  /\ LET p == patches[applied'] IN
     IF Applies(p, New(script))
     THEN script' = AppliedTo(p, script) /\ UNCHANGED refused
     ELSE refused' = refused \cup {applied'} /\ UNCHANGED script
  /\ UNCHANGED <<stage, patches, saved, accepted, edits, contexts>>

\* All are tried: the files are removed and the body begins.
\* (Faulty variant: the files stay, to be applied a second time.)
BeginKeepingFiles ==
  /\ stage = "entry" /\ applied = Len(patches)
  /\ stage' = "body" /\ applied' = 0 /\ refused' = {} /\ accepted' = {}
  /\ UNCHANGED <<script, patches, saved, edits, contexts>>
Begin ==
  /\ stage = "entry" /\ applied = Len(patches)
  /\ stage' = "body" /\ patches' = <<>>
  /\ applied' = 0 /\ refused' = {} /\ accepted' = {}
  /\ UNCHANGED <<script, saved, edits, contexts>>

Next == AgentEdits \/ Save \/ UserAccepts \/ Enter \/ ParseFails \/ Apply \/ Begin

Spec == Init /\ [][Next]_vars

-----------------------------------------------------------------------------
(* Properties. *)

\* The variables keep their types, the tree's diff is one that git would show,
\* and there are no patch files while a body runs.
TypeOK ==
  /\ script \in Seq([mark : {"both", "old", "new"}, line : Lines]) /\ Canonical(script)
  /\ stage \in {"body", "entry", "outside", "failed"}
  /\ stage = "body" => patches = <<>>
  /\ applied \in 0 .. Len(patches)
  /\ refused \subseteq 1 .. applied /\ accepted \subseteq DOMAIN patches
  /\ edits \in 0 .. MaxEdits /\ contexts \in 0 .. MaxContexts

\* The position in the saved diff of the annotation of patch n.
Position(n) == InOrder({i \in DOMAIN saved : IsPf(saved, i)})[n]

\* Patch n shows its hunk without a line that is still in the file: one of
\* code that the agent deleted, or of an annotation that a later patch deletes.
LeavesLineOut(n) ==
  \E i \in Hunk(saved, Position(n)) :
    saved[i].mark = "old" /\ ~ (saved[i].line \in Annotations /\ i <= Position(n))

\* Patch n shows an odd line of the file, as another: one around, or the one it deletes.
Odd(l) == Stripped[l] # l
ShowsOddLine(n) ==
  \E i \in Hunk(saved, Position(n)) :
    /\ Odd(saved[i].line)
    /\ saved[i].mark = "both" \/ (saved[i].mark = "old" /\ i = Position(n))

\* No line of the file is there twice, before or after, as the parser has them.
\* Otherwise, if there are other changes than new annotations, no patch is sure to
\* find its place: line numbers count changes that are dropped, and twice those that
\* earlier patches of the hunk have made, and among equal lines git apply then takes
\* others.
Distinct ==
  \A i, j \in DOMAIN saved : Stripped[saved[i].line] = Stripped[saved[j].line] => i = j

\* _split_hunk_by_pf_lines: "Each patch is cumulative - it assumes previous
\* patches have been applied" (diff_parser.py:316).  git apply refuses a patch
\* only if the user has accepted it already, or its hunk leaves out a line of
\* the file or shows an odd one, or it builds on an earlier patch of its hunk that
\* was refused.  A refused patch never costs one of another hunk, an accepted one
\* costs no other.
RefusedHasCause ==
  stage = "entry" /\ Distinct => \A n \in refused :
    \/ n \in accepted \/ LeavesLineOut(n) \/ ShowsOddLine(n)
    \/ \E m \in refused \ accepted : m < n /\ Position(m) \in Hunk(saved, Position(n))

\* What should be left of the agent's changes: those of annotations, the added ones
\* stripped.
Back(s) == [i \in DOMAIN s |-> IF s[i].mark = "new" THEN Parsed(s)[i] ELSE s[i]]
Wanted(s) ==
  LinesAt(Back(s), {i \in DOMAIN s : IF s[i].line \in Annotations THEN s[i].mark # "old"
                                                                 ELSE s[i].mark # "new"})

\* If git apply refuses none but the accepted ones, then saving, restoring,
\* accepting and applying again puts every annotation where the agent had it,
\* once, and drops every change of code.
RoundTrip ==
  /\ stage = "entry" /\ applied = Len(patches) /\ refused \subseteq accepted
  /\ Distinct
  => New(script) = Wanted(saved)

\* The agent only added annotations, each one a new line and no line of its hunk
\* odd; the lines around them may be equal.
OnlyNew ==
  \A i \in Changed(saved) :
    /\ saved[i].mark = "new" /\ saved[i].line \in Annotations
    /\ \A j \in DOMAIN saved \ {i} : saved[j].line # saved[i].line
    /\ \A j \in Hunk(saved, i) : ~ Odd(saved[j].line)

\* The patches of new annotations never fail an entry and, unless the user has
\* accepted one meanwhile, all apply again and make the file that the agent left,
\* among whatever equal lines.
NewAnnotationsReturn ==
  OnlyNew =>
    /\ stage # "failed"
    /\ stage = "entry" /\ accepted = {} =>
         /\ refused = {}
         /\ applied = Len(patches) => New(script) = New(saved)
=============================================================================
