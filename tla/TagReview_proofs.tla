-------------------------- MODULE TagReview_proofs --------------------------
(***************************************************************************)
(* Proofs about TagReview, for every set of tags, of contents and of       *)
(* connections, and every number of patches in a save.  The lemmas about   *)
(* patch sets and about the methods of a store come first.                 *)
(***************************************************************************)
EXTENDS TagReview, FiniteSetTheorems, TLAPS

-----------------------------------------------------------------------------
(* The patch sets that operations take. *)

LEMMA PatchSetFacts ==
  ASSUME NEW ps \in PatchSets, NEW t \in Tags
  PROVE  /\ ps[t].all \in SUBSET Hashes
         /\ t \in TagsOf(ps) => ps[t].last \in ps[t].all /\ ps[t].last \in Hashes
<1>1. ps[t] \in TagPatches \cup {NoPatch}
  BY DEF PatchSets
<1> QED
  BY <1>1 DEF TagPatches, NoPatch, TagsOf

\* A tag whose entry is not the only content registered is new or changed.
LEMMA ChangedFacts ==
  ASSUME NEW m, NEW ps, NEW t \in ChangedTags(m, ps)
  PROVE  /\ t \in Tags /\ t \in TagsOf(ps)
         /\ m[t] # Absent => ps[t].all \ {m[t].hash} # {}
BY DEF ChangedTags, TagsOf

\* One patch more changes the same tags and maybe its own.
LEMMA ThenChanges ==
  ASSUME NEW m, NEW ps \in PatchSets, NEW t \in Tags, NEW h
  PROVE  ChangedTags(m, ps) \subseteq ChangedTags(m, Then(ps, t, h))
<1>1. ps \in [Tags -> TagPatches \cup {NoPatch}]
  BY DEF PatchSets
<1>3. Then(ps, t, h)[t].all = ps[t].all \cup {h}
  BY <1>1 DEF Then
<1>4. \A u \in Tags : u # t => Then(ps, t, h)[u] = ps[u]
  BY <1>1 DEF Then
<1> SUFFICES ASSUME NEW u \in ChangedTags(m, ps) PROVE u \in ChangedTags(m, Then(ps, t, h))
  OBVIOUS
<1>5. u \in Tags /\ ps[u].all # {} /\ (m[u] = Absent \/ ps[u].all # {m[u].hash})
  BY DEF ChangedTags, TagsOf
<1>6. CASE u # t
  BY <1>4, <1>5, <1>6 DEF ChangedTags, TagsOf
<1>7. CASE u = t
  BY <1>3, <1>5, <1>7 DEF ChangedTags, TagsOf
<1> QED
  BY <1>6, <1>7

LEMMA NoPatchesFacts ==
  ASSUME NEW m \in StateMap
  PROVE  TagsOf(NoPatches) = {} /\ ChangedTags(m, NoPatches) = {} /\ Upserted(m, NoPatches) = m
BY DEF NoPatches, NoPatch, TagsOf, ChangedTags, Upserted, StateMap

-----------------------------------------------------------------------------
(* The methods of a store. *)

\* upsert_tag touches new and changed tags only, and makes them UNSEEN.
LEMMA UpsertedFacts ==
  ASSUME NEW m \in StateMap, NEW ps \in PatchSets
  PROVE  /\ Upserted(m, ps) \in StateMap
         /\ \A t \in ChangedTags(m, ps) :
              Upserted(m, ps)[t] \in Entry /\ Upserted(m, ps)[t].status = "unseen"
         /\ \A t \in Tags : t \notin ChangedTags(m, ps) => Upserted(m, ps)[t] = m[t]
<1>1. ASSUME NEW t \in ChangedTags(m, ps) PROVE t \in Tags /\ ps[t].last \in Hashes
  <2>1. t \in Tags /\ t \in TagsOf(ps)
    BY DEF ChangedTags, TagsOf
  <2> QED
    BY <2>1, PatchSetFacts
<1>2. \A t \in ChangedTags(m, ps) :
        Upserted(m, ps)[t] = [status |-> "unseen", hash |-> ps[t].last]
  BY <1>1 DEF Upserted
<1>3. \A h \in Hashes : /\ [status |-> "unseen", hash |-> h] \in Entry
                       /\ [status |-> "unseen", hash |-> h].status = "unseen"
  BY DEF Entry, Status
<1>4. \A t \in ChangedTags(m, ps) :
        Upserted(m, ps)[t] \in Entry /\ Upserted(m, ps)[t].status = "unseen"
  BY <1>1, <1>2, <1>3, Zenon
<1>5. \A t \in Tags : t \notin ChangedTags(m, ps) => Upserted(m, ps)[t] = m[t]
  BY DEF Upserted
<1>6. Upserted(m, ps) \in StateMap
  BY <1>4, <1>5 DEF Upserted, StateMap
<1> QED
  BY <1>4, <1>5, <1>6

\* mark_sent touches UNSEEN tags only.
LEMMA MarkedSentFacts ==
  ASSUME NEW m \in StateMap, NEW T \in SUBSET Tags
  PROVE  /\ MarkedSent(m, T) \in StateMap
         /\ \A t \in Tags : t \in UnseenOf(m, T) =>
              /\ m[t] # Absent /\ m[t].status = "unseen"
              /\ MarkedSent(m, T)[t] = [m[t] EXCEPT !.status = "sent"]
              /\ MarkedSent(m, T)[t] \in Entry /\ MarkedSent(m, T)[t].status = "sent"
         /\ \A t \in Tags : t \notin UnseenOf(m, T) => MarkedSent(m, T)[t] = m[t]
<1>1. \A t \in UnseenOf(m, T) : m[t] \in Entry /\ m[t].status = "unseen" /\ t \in T
  BY DEF UnseenOf, StateMap
<1>2. \A e \in Entry : [e EXCEPT !.status = "sent"] \in Entry
                       /\ [e EXCEPT !.status = "sent"].status = "sent"
  BY DEF Entry, Status
<1>3. \A t \in Tags : MarkedSent(m, T)[t] \in Entry \cup {Absent}
  BY <1>1, <1>2 DEF MarkedSent, StateMap
<1> QED
  BY <1>1, <1>2, <1>3, AbsentAssumption DEF MarkedSent, StateMap

\* A store's view is a state map, whether it has read the file or not.
LEMMA ViewFacts ==
  ASSUME StoreTypeOK, NEW c \in Connections
  PROVE  View(c) \in StateMap
BY DEF StoreTypeOK, View

\* What an operation of c does to the store, whether or not it raises: c's copy
\* becomes m, and the file w if it has saved.
Writes(c, m, w, saves) ==
  /\ mem' = [mem EXCEPT ![c] = m]
  /\ disk' = IF saves THEN w ELSE disk

LEMMA WritesFacts ==
  ASSUME NEW c, NEW m, NEW w, NEW saves
  PROVE  /\ Persist(c, m, saves) => Writes(c, m, m, saves)
         /\ PersistRaises(c, w, m, saves) => Writes(c, m, w, saves)
BY DEF Persist, PersistRaises, Writes

LEMMA WritesType ==
  ASSUME StoreTypeOK, NEW c \in Connections, NEW m \in StateMap, NEW w \in StateMap,
         NEW saves, Writes(c, m, w, saves)
  PROVE  StoreTypeOK'
BY DEF StoreTypeOK, Writes

-----------------------------------------------------------------------------
(* The operations of a connection are of two kinds: those that register      *)
(* patches and hand nothing out, and those that mark tags SENT.              *)

\* Registers the patches of rs in memory, and has saved those of qs.
Registers(c, qs, rs) ==
  /\ c \in open
  /\ Writes(c, Upserted(View(c), rs), Upserted(View(c), qs), ChangedTags(View(c), qs) # {})
  /\ Register(View(c), rs, {})
  /\ qs \in PatchSets /\ rs \in PatchSets
  /\ ChangedTags(View(c), qs) \subseteq ChangedTags(View(c), rs)
  /\ patches' = patches \/ patches' = PatchFiles(rs)
  /\ open' = open

\* Registers the patches of ps and hands out what is then UNSEEN of the tags X.
HandsOut(c, ps, X) ==
  LET m == Upserted(View(c), ps)
      T == UnseenOf(m, X)
  IN  /\ c \in open /\ X \in SUBSET Tags /\ ps \in PatchSets
      /\ Writes(c, MarkedSent(m, T), MarkedSent(m, T), ChangedTags(View(c), ps) \cup T # {})
      /\ Register(View(c), ps, T)
      /\ UNCHANGED <<open, patches>>

\* Marks in memory what is UNSEEN of the tags X after ps was registered and saved.
MarksOnly(c, ps, X) ==
  LET m == Upserted(View(c), ps)
  IN  /\ c \in open /\ X \in SUBSET Tags /\ ps \in PatchSets
      /\ Writes(c, MarkedSent(m, UnseenOf(m, X)), m, ChangedTags(View(c), ps) # {})
      /\ Register(View(c), ps, {})
      /\ UNCHANGED <<open, patches>>

StoreStep(c) ==
  \/ \E qs, rs \in PatchSets : Registers(c, qs, rs)
  \/ \E ps \in PatchSets, X \in SUBSET Tags : HandsOut(c, ps, X) \/ MarksOnly(c, ps, X)

LEMMA NoPatchesIn == NoPatches \in PatchSets
<1>1. NoPatches \in [Tags -> TagPatches \cup {NoPatch}] /\ \A t \in Tags : NoPatches[t].all = {}
  BY DEF NoPatches, NoPatch
<1>2. {p \in Tags \X Hashes : p[2] \in NoPatches[p[1]].all} = {}
  BY <1>1
<1>3. Cardinality({p \in Tags \X Hashes : p[2] \in NoPatches[p[1]].all}) <= MaxPatches
  BY <1>2, FS_EmptySet, MaxPatchesAssumption
<1> QED
  BY <1>1, <1>3, ContentsAssumption DEF PatchSets

\* Nothing is registered by NoPatches.
LEMMA RegisterNothing ==
  ASSUME TypeOK, NEW m \in StateMap, NoNews
  PROVE  Register(m, NoPatches, {})
<1>1. ChangedTags(m, NoPatches) = {} /\ \A t \in Tags : NoPatches[t].all = {}
  BY NoPatchesFacts DEF NoPatches, NoPatch
<1>2. handed \in [Tags -> 0 .. MaxHanded] /\ decided \in [Tags -> DecidedEntry \cup {Absent}]
  BY DEF TypeOK
<1>3. handed' = handed /\ decided' = decided /\ news' = {}
  BY DEF NoNews, ghosts
<1> QED
  BY <1>1, <1>2, <1>3 DEF Register

LEMMA ConnectionSteps ==
  ASSUME TypeOK, NEW c \in Connections, ConnectionStep(c)
  PROVE  \/ Connect(c) \/ Disconnect(c)
         \/ \E t \in Tags, d \in Decisions : Feedback(c, t, d)
         \/ StoreStep(c)
<1>0. View(c) \in StateMap /\ AddingSets \subseteq PatchSets
  BY ViewFacts DEF TypeOK, AddingSets
<1>1. ASSUME NEW ps \in PatchSets, SavePatches(c, ps) \/ FilterUnseenStops(c, ps)
      PROVE StoreStep(c)
  <2>1. Registers(c, ps, ps)
    BY <1>1, WritesFacts DEF SavePatches, FilterUnseenStops, Registers
  <2> QED
    BY <2>1 DEF StoreStep
<1>2. ASSUME NEW ps \in PatchSets, NEW t \in Tags, NEW h,
             SavePatchesRaises(c, ps, t, h) \/ FilterUnseenRaises(c, ps, t, h)
      PROVE StoreStep(c)
  <2> DEFINE rs == Then(ps, t, h)
  <2>1. rs \in PatchSets /\ ChangedTags(View(c), ps) \subseteq ChangedTags(View(c), rs)
    BY <1>2, ThenChanges DEF SavePatchesRaises, FilterUnseenRaises
  <2>2. Registers(c, ps, rs)
    BY <1>2, <2>1, WritesFacts DEF SavePatchesRaises, FilterUnseenRaises, Registers
  <2> QED
    BY <2>1, <2>2 DEF StoreStep
<1>3. ASSUME NEW ps \in PatchSets, FilterUnseen(c, ps) \/ FilterUnseenMarkRaises(c, ps)
      PROVE StoreStep(c)
  <2>1. TagsOf(ps) \in SUBSET Tags
    BY DEF TagsOf
  <2>2. HandsOut(c, ps, TagsOf(ps)) \/ MarksOnly(c, ps, TagsOf(ps))
    BY <1>3, <2>1, WritesFacts DEF FilterUnseen, FilterUnseenMarkRaises, HandsOut, MarksOnly
  <2> QED
    BY <2>1, <2>2 DEF StoreStep
<1>4. ASSUME Collect(c) \/ CollectRaises(c) PROVE StoreStep(c)
  <2>1. /\ Upserted(View(c), NoPatches) = View(c) /\ ChangedTags(View(c), NoPatches) = {}
        /\ NoPatches \in PatchSets /\ Filed \in SUBSET Tags
    BY <1>0, NoPatchesFacts, NoPatchesIn DEF Filed
  <2>2. Collect(c) => HandsOut(c, NoPatches, Filed)
    BY <2>1, WritesFacts DEF Collect, HandsOut
  <2>3. CollectRaises(c) => MarksOnly(c, NoPatches, Filed)
    <3> SUFFICES ASSUME CollectRaises(c) PROVE MarksOnly(c, NoPatches, Filed)
      OBVIOUS
    <3>1. Register(View(c), NoPatches, {})
      BY <1>0, RegisterNothing DEF CollectRaises
    <3>2. Writes(c, MarkedSent(View(c), UnseenOf(View(c), Filed)), View(c), FALSE)
      BY WritesFacts DEF CollectRaises
    <3> QED
      BY <2>1, <3>1, <3>2 DEF CollectRaises, MarksOnly
  <2> QED
    BY <1>4, <2>1, <2>2, <2>3 DEF StoreStep
<1> QED
  BY <1>0, <1>1, <1>2, <1>3, <1>4 DEF ConnectionStep

-----------------------------------------------------------------------------
(* Types. *)

LEMMA RegisterType ==
  ASSUME TypeOK, NEW m, NEW ps, NEW T, Register(m, ps, T)
  PROVE  /\ news' \in SUBSET Tags
         /\ handed' \in [Tags -> 0 .. MaxHanded]
         /\ decided' \in [Tags -> DecidedEntry \cup {Absent}]
<1>1. news' \in SUBSET Tags
  BY DEF Register, ChangedTags, TagsOf
<1>2. handed' \in [Tags -> 0 .. MaxHanded]
  BY MaxHandedAssumption DEF TypeOK, Register, Min2
<1>3. decided' \in [Tags -> DecidedEntry \cup {Absent}]
  BY DEF TypeOK, Register
<1> QED
  BY <1>1, <1>2, <1>3

LEMMA PatchFilesType ==
  ASSUME NEW ps \in PatchSets
  PROVE  PatchFiles(ps) \in [Tags -> SUBSET Hashes]
BY PatchSetFacts DEF PatchFiles

LEMMA InitType == Init => TypeOK
BY MaxHandedAssumption DEF Init, TypeOK, StoreInit, StoreTypeOK, StateMap

LEMMA StoreStepType ==
  ASSUME TypeOK, NEW c \in Connections, StoreStep(c)
  PROVE  TypeOK'
<1>0. StoreTypeOK /\ View(c) \in StateMap
  BY ViewFacts DEF TypeOK
<1>1. ASSUME NEW qs \in PatchSets, NEW rs \in PatchSets, Registers(c, qs, rs) PROVE TypeOK'
  <2>1. Upserted(View(c), qs) \in StateMap /\ Upserted(View(c), rs) \in StateMap
    BY <1>0, UpsertedFacts
  <2>2. StoreTypeOK'
    BY <1>0, <1>1, <2>1, WritesType DEF Registers
  <2>3. patches' \in [Tags -> SUBSET Hashes]
    BY <1>1, PatchFilesType DEF TypeOK, Registers
  <2>4. open' \in SUBSET Connections
    BY <1>1 DEF TypeOK, Registers
  <2> QED
    BY <1>1, <2>2, <2>3, <2>4, RegisterType DEF TypeOK, Registers
<1>2. ASSUME NEW ps \in PatchSets, NEW X \in SUBSET Tags, HandsOut(c, ps, X) \/ MarksOnly(c, ps, X)
      PROVE TypeOK'
  <2> DEFINE m == Upserted(View(c), ps)
  <2>1. m \in StateMap /\ UnseenOf(m, X) \in SUBSET Tags
    BY <1>0, UpsertedFacts DEF UnseenOf
  <2>2. MarkedSent(m, UnseenOf(m, X)) \in StateMap
    BY <2>1, MarkedSentFacts
  <2>3. StoreTypeOK'
    BY <1>0, <1>2, <2>1, <2>2, WritesType DEF HandsOut, MarksOnly
  <2>4. open' \in SUBSET Connections /\ patches' \in [Tags -> SUBSET Hashes]
    BY <1>2 DEF TypeOK, HandsOut, MarksOnly
  <2> QED
    BY <1>2, <2>3, <2>4, RegisterType DEF TypeOK, HandsOut, MarksOnly
<1> QED
  BY <1>1, <1>2 DEF StoreStep

LEMMA FeedbackType ==
  ASSUME TypeOK, NEW c, NEW t \in Tags, NEW d \in Decisions, Feedback(c, t, d)
  PROVE  TypeOK'
<1>1. disk[t] \in Entry
  BY DEF Feedback, TypeOK, StoreTypeOK, StateMap
<1>2. [disk[t] EXCEPT !.status = d] \in Entry /\ disk[t].hash \in Hashes
  BY <1>1 DEF Entry, Status, Decisions
<1>3. disk' \in StateMap
  BY <1>2 DEF Feedback, StatusSet, TypeOK, StoreTypeOK, StateMap
<1>4. decided' \in [Tags -> DecidedEntry \cup {Absent}]
  BY <1>2 DEF Feedback, TypeOK, DecidedEntry
<1> QED
  BY <1>3, <1>4 DEF TypeOK, StoreTypeOK, Feedback

LEMMA TypeStep == TypeOK /\ [Next]_vars => TypeOK'
<1> SUFFICES ASSUME TypeOK, [Next]_vars PROVE TypeOK'
  OBVIOUS
<1>1. ASSUME NEW c \in Connections, Connect(c) \/ Disconnect(c) PROVE TypeOK'
  BY <1>1 DEF TypeOK, StoreTypeOK, Connect, Disconnect, NoNews, ghosts
<1>2. ASSUME NEW c \in Connections, ConnectionStep(c) PROVE TypeOK'
  BY <1>1, <1>2, ConnectionSteps, FeedbackType, StoreStepType
<1>3. ASSUME SaveNothing PROVE TypeOK'
  BY <1>3, PatchFilesType, NoPatchesIn DEF TypeOK, StoreTypeOK, SaveNothing, NoNews, ghosts
<1>4. ASSUME NEW ps \in PatchSets, AskOverMcp(ps) \/ InitialSavePatches(ps) PROVE TypeOK'
  <2>1. disk' \in StateMap
    BY <1>4, UpsertedFacts DEF AskOverMcp, InitialSavePatches, TypeOK, StoreTypeOK
  <2>2. patches' \in [Tags -> SUBSET Hashes] /\ mem' = mem /\ open' = open
    BY <1>4, PatchFilesType DEF TypeOK, AskOverMcp, InitialSavePatches
  <2>3. Register(disk, ps, {})
    BY <1>4 DEF AskOverMcp, InitialSavePatches
  <2> QED
    BY <2>1, <2>2, <2>3, RegisterType DEF TypeOK, StoreTypeOK
<1>5. CASE UNCHANGED vars
  BY <1>5 DEF TypeOK, StoreTypeOK, vars, ghosts
<1> QED
  BY <1>2, <1>3, <1>4, <1>5 DEF Next, AddingSets

\* The model's variables keep their types.
THEOREM TypeCorrect == Spec => []TypeOK
BY InitType, TypeStep, PTL DEF Spec

-----------------------------------------------------------------------------
(* Handing out once, while no two connections are open at a time. *)

Seen(m, t) == m[t] # Absent /\ m[t].status # "unseen"

\* One store at most has a copy, and the tags that were handed out are SENT or
\* decided in the file and in that copy.
OneOpen == IsFiniteSet(open) /\ \A c, d \in open : c = d
OnlyOpenLoaded == \A c \in Connections : c \notin open => mem[c] = Unloaded
HandedSeen ==
  \A t \in Tags :
    /\ handed[t] <= 1
    /\ handed[t] = 1 => /\ Seen(disk, t)
                        /\ \A c \in Connections : mem[c] # Unloaded => Seen(mem[c], t)

IInv == TypeOK /\ OneOpen /\ OnlyOpenLoaded /\ HandedSeen

LEMMA InitIInv == Init => IInv
<1> SUFFICES ASSUME Init PROVE IInv
  OBVIOUS
<1>1. OneOpen
  BY FS_EmptySet DEF Init, OneOpen
<1>2. OnlyOpenLoaded /\ HandedSeen
  BY DEF Init, StoreInit, OnlyOpenLoaded, HandedSeen
<1> QED
  BY <1>1, <1>2, InitType DEF IInv

\* The view of the open connection has what was handed out.
LEMMA ViewSeen ==
  ASSUME IInv, NEW c \in Connections, NEW t \in Tags, handed[t] = 1
  PROVE  Seen(View(c), t)
BY DEF IInv, HandedSeen, View

\* An operation of the open connection keeps HandedSeen if the copy and what it
\* has written have what is handed out after it.
LEMMA CopyReplaced ==
  ASSUME IInv, NEW c \in open, NEW m, NEW w, NEW saves, Writes(c, m, w, saves),
         \A t \in Tags : /\ handed'[t] <= 1
                         /\ handed'[t] = 1 => /\ Seen(m, t) /\ Seen(w, t)
                                              /\ Seen(disk, t) \/ saves
  PROVE  HandedSeen'
<1>1. \A d \in Connections : d # c => mem'[d] = Unloaded
  BY DEF IInv, TypeOK, StoreTypeOK, OneOpen, OnlyOpenLoaded, Writes
<1>2. c \in Connections /\ mem'[c] = m
  BY DEF IInv, TypeOK, StoreTypeOK, Writes
<1>3. \A t \in Tags : handed'[t] = 1 => Seen(disk', t)
  BY DEF Writes
<1> QED
  BY <1>1, <1>2, <1>3 DEF HandedSeen, Seen

\* Registering patches hands nothing out: what counts as handed out afterwards
\* did before and was not touched.
LEMMA RegisterKeeps ==
  ASSUME IInv, NEW c \in Connections, NEW ps \in PatchSets, Register(View(c), ps, {}),
         NEW t \in Tags
  PROVE  /\ handed'[t] <= 1
         /\ handed'[t] = 1 => /\ handed[t] = 1 /\ t \notin ChangedTags(View(c), ps)
                              /\ Seen(View(c), t) /\ Seen(disk, t)
<1>1. handed'[t] = IF t \in ChangedTags(View(c), ps) THEN 0 ELSE handed[t]
  BY DEF Register
<1> QED
  BY <1>1, ViewSeen DEF IInv, HandedSeen

LEMMA RegistersKeeps ==
  ASSUME IInv, NEW c \in Connections, NEW qs \in PatchSets, NEW rs \in PatchSets,
         Registers(c, qs, rs)
  PROVE  HandedSeen'
<1> DEFINE m == Upserted(View(c), rs)
           w == Upserted(View(c), qs)
<1>0. View(c) \in StateMap
  BY ViewFacts DEF IInv, TypeOK
<1>1. c \in open /\ Register(View(c), rs, {}) /\ Writes(c, m, w, ChangedTags(View(c), qs) # {})
      /\ ChangedTags(View(c), qs) \subseteq ChangedTags(View(c), rs)
  BY DEF Registers
<1>2. ASSUME NEW t \in Tags, t \notin ChangedTags(View(c), rs)
      PROVE m[t] = View(c)[t] /\ w[t] = View(c)[t]
  BY <1>0, <1>1, <1>2, UpsertedFacts
<1>3. \A t \in Tags : /\ handed'[t] <= 1
                      /\ handed'[t] = 1 => Seen(m, t) /\ Seen(w, t) /\ Seen(disk, t)
  BY <1>1, <1>2, RegisterKeeps DEF Seen
<1> QED
  BY <1>1, <1>3, CopyReplaced

\* What is marked is not UNSEEN afterwards, and nothing becomes UNSEEN.
LEMMA MarkedSeen ==
  ASSUME NEW m \in StateMap, NEW X \in SUBSET Tags, NEW t \in Tags
  PROVE  /\ t \in UnseenOf(m, X) => Seen(MarkedSent(m, UnseenOf(m, X)), t)
         /\ Seen(m, t) => Seen(MarkedSent(m, UnseenOf(m, X)), t)
<1> DEFINE T == UnseenOf(m, X)
<1>1. T \in SUBSET Tags /\ UnseenOf(m, T) = T
  BY DEF UnseenOf
<1>2. ASSUME t \in T
      PROVE  MarkedSent(m, T)[t] \in Entry /\ MarkedSent(m, T)[t].status = "sent"
  <2>1. t \in UnseenOf(m, T)
    BY <1>1, <1>2
  <2> HIDE DEF T
  <2> QED
    BY <1>1, <2>1, MarkedSentFacts
<1>3. t \notin T => MarkedSent(m, T)[t] = m[t]
  BY <1>1, MarkedSentFacts
<1>4. t \in T => Seen(MarkedSent(m, T), t)
  BY <1>2, AbsentAssumption DEF Seen
<1> QED
  BY <1>3, <1>4 DEF Seen

LEMMA MarksOnlyKeeps ==
  ASSUME IInv, NEW c \in Connections, NEW ps \in PatchSets, NEW X \in SUBSET Tags,
         MarksOnly(c, ps, X)
  PROVE  HandedSeen'
<1> DEFINE m == Upserted(View(c), ps)
           n == MarkedSent(m, UnseenOf(m, X))
<1>0. View(c) \in StateMap /\ m \in StateMap
  BY ViewFacts, UpsertedFacts DEF IInv, TypeOK
<1>1. c \in open /\ Register(View(c), ps, {}) /\ Writes(c, n, m, ChangedTags(View(c), ps) # {})
  BY DEF MarksOnly
<1>2. ASSUME NEW t \in Tags, t \notin ChangedTags(View(c), ps) PROVE m[t] = View(c)[t]
  BY <1>0, <1>2, UpsertedFacts
<1>3. \A t \in Tags : /\ handed'[t] <= 1
                      /\ handed'[t] = 1 => Seen(m, t) /\ Seen(disk, t)
  BY <1>1, <1>2, RegisterKeeps DEF Seen
<1>4. \A t \in Tags : handed'[t] = 1 => Seen(n, t)
  BY <1>0, <1>3, MarkedSeen
<1> QED
  BY <1>1, <1>3, <1>4, CopyReplaced

\* Exactly what is marked is handed out, and it was not handed out before
\* since its content was registered.
LEMMA HandsOutKeeps ==
  ASSUME IInv, NEW c \in Connections, NEW ps \in PatchSets, NEW X \in SUBSET Tags,
         HandsOut(c, ps, X)
  PROVE  HandedSeen'
<1> DEFINE m == Upserted(View(c), ps)
           T == UnseenOf(m, X)
           n == MarkedSent(m, T)
           saves == ChangedTags(View(c), ps) \cup T # {}
<1>0. View(c) \in StateMap /\ m \in StateMap
  BY ViewFacts, UpsertedFacts DEF IInv, TypeOK
<1>1. c \in open /\ Register(View(c), ps, T) /\ Writes(c, n, n, saves)
  BY DEF HandsOut
<1>2. ASSUME NEW t \in Tags
      PROVE  /\ handed'[t] <= 1
             /\ handed'[t] = 1 => Seen(n, t) /\ (Seen(disk, t) \/ saves)
  <2>1. t \notin ChangedTags(View(c), ps) => m[t] = View(c)[t]
    BY <1>0, UpsertedFacts
  <2>2. handed[t] \in {0, 1} /\ (handed[t] = 1 => Seen(View(c), t) /\ Seen(disk, t))
    BY ViewSeen DEF IInv, TypeOK, HandedSeen
  <2>3. CASE t \in T
    <3>1. m[t] # Absent /\ m[t].status = "unseen"
      BY <2>3 DEF UnseenOf
    <3>2. t \in ChangedTags(View(c), ps) \/ handed[t] = 0
      BY <2>1, <2>2, <3>1 DEF Seen
    <3>3. handed'[t] = Min2(1)
      BY <1>1, <2>3, <3>2 DEF Register
    <3>4. handed'[t] = 1
      BY <3>3, MaxHandedAssumption DEF Min2
    <3>5. Seen(n, t)
      BY <1>0, <2>3, MarkedSeen
    <3> QED
      BY <2>3, <3>4, <3>5
  <2>4. CASE t \notin T
    <3>1. handed'[t] = IF t \in ChangedTags(View(c), ps) THEN 0 ELSE handed[t]
      BY <1>1, <2>4 DEF Register
    <3>2. handed'[t] = 1 => handed[t] = 1 /\ m[t] = View(c)[t]
      BY <2>1, <3>1
    <3>3. handed'[t] = 1 => Seen(m, t) /\ Seen(disk, t)
      BY <2>2, <3>2 DEF Seen
    <3>4. Seen(m, t) => Seen(n, t)
      BY <1>0, MarkedSeen
    <3>5. handed'[t] <= 1
      BY <2>2, <3>1
    <3> QED
      BY <3>3, <3>4, <3>5
  <2> QED
    BY <2>3, <2>4
<1> HIDE DEF n, saves
<1> QED
  BY <1>1, <1>2, CopyReplaced

LEMMA HandedSeenStep == IInv /\ [Next]_vars => HandedSeen'
<1> SUFFICES ASSUME IInv, [Next]_vars PROVE HandedSeen'
  OBVIOUS
<1>0. TypeOK /\ StoreTypeOK /\ disk \in StateMap
  BY DEF IInv, TypeOK, StoreTypeOK
<1>1. ASSUME NEW c \in Connections, Connect(c) \/ Disconnect(c) PROVE HandedSeen'
  BY <1>0, <1>1 DEF IInv, StoreTypeOK, HandedSeen, Connect, Disconnect, NoNews, ghosts
<1>2. ASSUME NEW c \in Connections, StoreStep(c) PROVE HandedSeen'
  BY <1>2, RegistersKeeps, HandsOutKeeps, MarksOnlyKeeps DEF StoreStep
<1>3. ASSUME SaveNothing PROVE HandedSeen'
  BY <1>3 DEF IInv, HandedSeen, SaveNothing, NoNews, ghosts
<1>4. ASSUME NEW c \in Connections, NEW t \in Tags, NEW d \in Decisions, Feedback(c, t, d)
      PROVE HandedSeen'
  <2>1. disk[t] \in Entry
    BY <1>0, <1>4 DEF Feedback, StateMap
  <2>2. [disk[t] EXCEPT !.status = d] \in Entry /\ [disk[t] EXCEPT !.status = d].status # "unseen"
    BY <2>1 DEF Entry, Status, Decisions
  <2>3. \A u \in Tags : Seen(disk, u) => Seen(disk', u)
    BY <1>0, <1>4, <2>2, AbsentAssumption DEF Feedback, StatusSet, Seen, StateMap
  <2> QED
    BY <1>4, <2>3 DEF IInv, HandedSeen, Feedback
<1>5. ASSUME NEW ps \in PatchSets, AskOverMcp(ps) \/ InitialSavePatches(ps) PROVE HandedSeen'
  <2>1. disk' = Upserted(disk, ps) /\ Register(disk, ps, {}) /\ mem' = mem
    BY <1>5 DEF AskOverMcp, InitialSavePatches
  <2>2. \A t \in Tags : handed'[t] = IF t \in ChangedTags(disk, ps) THEN 0 ELSE handed[t]
    BY <2>1 DEF Register
  <2>3. \A t \in Tags : t \notin ChangedTags(disk, ps) => disk'[t] = disk[t]
    BY <1>0, <2>1, UpsertedFacts
  <2> QED
    BY <2>1, <2>2, <2>3 DEF IInv, HandedSeen, Seen
<1>6. CASE UNCHANGED vars
  BY <1>6 DEF IInv, HandedSeen, vars, ghosts
<1>7. ASSUME NEW c \in Connections, ConnectionStep(c) PROVE HandedSeen'
  BY <1>0, <1>1, <1>2, <1>4, <1>7, ConnectionSteps
<1> QED
  BY <1>3, <1>5, <1>6, <1>7 DEF Next, AddingSets

\* Connections follow one another, and a store is dropped with its connection.
LEMMA OpenStep ==
  MaxOpen = 1 /\ IInv /\ [Next]_vars => OneOpen' /\ OnlyOpenLoaded'
<1> SUFFICES ASSUME MaxOpen = 1, IInv, [Next]_vars PROVE OneOpen' /\ OnlyOpenLoaded'
  OBVIOUS
<1>0. TypeOK
  BY DEF IInv
<1> USE DEF IInv, TypeOK, StoreTypeOK, OneOpen, OnlyOpenLoaded
<1>1. ASSUME NEW c \in Connections, Connect(c) PROVE OneOpen' /\ OnlyOpenLoaded'
  <2>1. open = {}
    BY <1>1, FS_EmptySet, FS_CardinalityType DEF Connect
  <2>2. open' = {c} /\ mem' = mem /\ IsFiniteSet({c})
    BY <1>1, <2>1, FS_Singleton DEF Connect
  <2> QED
    BY <2>1, <2>2
<1>2. ASSUME NEW c \in Connections, Disconnect(c) PROVE OneOpen' /\ OnlyOpenLoaded'
  BY <1>2, FS_RemoveElement DEF Disconnect
<1>3. ASSUME open' = open,
             mem' = mem \/ \E c \in open : \E m : mem' = [mem EXCEPT ![c] = m]
      PROVE OneOpen' /\ OnlyOpenLoaded'
  BY <1>3
<1>4. ASSUME NEW c \in Connections, StoreStep(c) PROVE OneOpen' /\ OnlyOpenLoaded'
  BY <1>3, <1>4 DEF StoreStep, Registers, HandsOut, MarksOnly, Writes
<1>5. ASSUME \/ SaveNothing
             \/ \E c \in Connections, t \in Tags, d \in Decisions : Feedback(c, t, d)
             \/ \E ps \in PatchSets : AskOverMcp(ps) \/ InitialSavePatches(ps)
             \/ UNCHANGED vars
      PROVE OneOpen' /\ OnlyOpenLoaded'
  BY <1>3, <1>5 DEF SaveNothing, Feedback, AskOverMcp, InitialSavePatches, vars
<1>6. ASSUME NEW c \in Connections, ConnectionStep(c) PROVE OneOpen' /\ OnlyOpenLoaded'
  BY <1>0, <1>1, <1>2, <1>4, <1>5, <1>6, ConnectionSteps
<1> QED
  BY <1>5, <1>6 DEF Next, AddingSets

\* get_patch_contents and filter_unseen_spec_patches hand a tag out at most once
\* until a store registers content of it that the store does not have, if no
\* two connections of the user are open at a time.
THEOREM OnceOnly == MaxOpen = 1 => (Spec => []HandedOutOnce)
<1> SUFFICES ASSUME MaxOpen = 1 PROVE Spec => []HandedOutOnce
  OBVIOUS
<1>1. IInv /\ [Next]_vars => IInv'
  BY TypeStep, HandedSeenStep, OpenStep DEF IInv
<1>2. IInv => HandedOutOnce
  BY DEF IInv, HandedSeen, HandedOutOnce
<1> QED
  BY InitIInv, <1>1, <1>2, PTL DEF Spec

-----------------------------------------------------------------------------
(* What a step can do to a copy, and to a decision in the file. *)

\* The moves of a store from one state map to another, when the tags of N are
\* those that it has registered new content of.
LegalMoves(N, old, new) ==
  \A t \in Tags :
    \/ new[t] = old[t]
    \/ new[t] # Absent /\ new[t].status \in {"unseen", "sent"} /\ t \in N
    \/ new[t] # Absent /\ old[t] # Absent /\ old[t].status = "unseen" /\
         new[t] = [old[t] EXCEPT !.status = "sent"]

LEMMA UpsertedLegal ==
  ASSUME NEW m \in StateMap, NEW ps \in PatchSets
  PROVE  LegalMoves(ChangedTags(m, ps), m, Upserted(m, ps))
BY UpsertedFacts, AbsentAssumption DEF LegalMoves

\* Marking after registering is legal too: a new tag that is marked is SENT.
LEMMA MarkedLegal ==
  ASSUME NEW m \in StateMap, NEW ps \in PatchSets, NEW X \in SUBSET Tags
  PROVE  LegalMoves(ChangedTags(m, ps), m, MarkedSent(Upserted(m, ps), UnseenOf(Upserted(m, ps), X)))
<1> DEFINE u == Upserted(m, ps)
           T == UnseenOf(u, X)
           n == MarkedSent(u, T)
<1>0. u \in StateMap /\ T \in SUBSET Tags
  BY UpsertedFacts DEF UnseenOf
<1> SUFFICES ASSUME NEW t \in Tags
             PROVE  \/ n[t] = m[t]
                    \/ n[t] # Absent /\ n[t].status \in {"unseen", "sent"} /\ t \in ChangedTags(m, ps)
                    \/ n[t] # Absent /\ m[t] # Absent /\ m[t].status = "unseen" /\
                         n[t] = [m[t] EXCEPT !.status = "sent"]
  BY DEF LegalMoves
<1>1. CASE t \notin ChangedTags(m, ps)
  <2>1. u[t] = m[t]
    BY <1>1, UpsertedFacts
  <2>2. CASE t \notin UnseenOf(u, T)
    BY <1>0, <2>1, <2>2, MarkedSentFacts
  <2>3. CASE t \in UnseenOf(u, T)
    BY <1>0, <2>1, <2>3, MarkedSentFacts, AbsentAssumption
  <2> QED
    BY <2>2, <2>3
<1>2. CASE t \in ChangedTags(m, ps)
  <2>1. u[t] \in Entry /\ u[t].status = "unseen"
    BY <1>2, UpsertedFacts
  <2>2. CASE t \notin UnseenOf(u, T)
    <3>1. n[t] = u[t]
      BY <1>0, <2>2, MarkedSentFacts
    <3> QED
      BY <1>2, <2>1, <3>1, AbsentAssumption
  <2>3. CASE t \in UnseenOf(u, T)
    <3>1. n[t] \in Entry /\ n[t].status = "sent"
      BY <1>0, <2>3, MarkedSentFacts
    <3> QED
      BY <1>2, <3>1, AbsentAssumption
  <2> QED
    BY <2>2, <2>3
<1> QED
  BY <1>1, <1>2

\* An operation of a connection makes legal moves in its copy, ...
CopiesMove ==
  \A c \in Connections, t \in Tags :
    mem[c] # Unloaded /\ mem'[c] # Unloaded => LegalInCopy(t, mem[c][t], mem'[c][t])

LEMMA CopyMoves ==
  ASSUME TypeOK, NEW c \in Connections, NEW m, mem' = [mem EXCEPT ![c] = m],
         LegalMoves(news', View(c), m)
  PROVE  CopiesMove
<1> SUFFICES ASSUME NEW d \in Connections, NEW t \in Tags, mem[d] # Unloaded
             PROVE  LegalInCopy(t, mem[d][t], mem'[d][t])
  BY DEF CopiesMove
<1>1. CASE d = c
  <2>1. mem'[d] = m /\ View(c) = mem[d]
    BY <1>1 DEF TypeOK, StoreTypeOK, View
  <2> QED
    BY <2>1 DEF LegalMoves, LegalInCopy
<1>2. CASE d # c
  <2>1. mem'[d] = mem[d]
    BY <1>2 DEF TypeOK, StoreTypeOK
  <2> QED
    BY <2>1 DEF LegalInCopy
<1> QED
  BY <1>1, <1>2

\* ... and resets a decision that the store saw only if it registers other
\* content of the tag, which makes the ghost forget the decision.
Loses(t) ==
  /\ decided[t] # Absent /\ disk[t] = decided[t]
  /\ decided'[t] = decided[t] /\ disk'[t] # disk[t]

LEMMA ResetForgets ==
  ASSUME TypeOK, NEW m, NEW ps, NEW T, Register(m, ps, T),
         NEW t \in ChangedTags(m, ps), decided[t] # Absent, m[t] = decided[t]
  PROVE  decided'[t] = Absent
<1>1. t \in Tags /\ ps[t].all \ {decided[t].hash} # {}
  BY ChangedFacts
<1> QED
  BY <1>1 DEF Register

LEMMA DecisionKept ==
  ASSUME NEW m \in StateMap, NEW ps \in PatchSets, NEW X \in SUBSET Tags,
         NEW t \in Tags, t \notin ChangedTags(m, ps), m[t] \in DecidedEntry
  PROVE  /\ Upserted(m, ps)[t] = m[t]
         /\ MarkedSent(Upserted(m, ps), UnseenOf(Upserted(m, ps), X))[t] = m[t]
<1> DEFINE u == Upserted(m, ps)
           T == UnseenOf(u, X)
<1>1. u \in StateMap /\ T \in SUBSET Tags /\ u[t] = m[t]
  BY UpsertedFacts DEF UnseenOf
<1>2. u[t].status # "unseen"
  BY <1>1 DEF DecidedEntry, Decisions
<1>3. t \notin UnseenOf(u, T)
  BY <1>2 DEF UnseenOf
<1> QED
  BY <1>1, <1>3, MarkedSentFacts

LEMMA StoreStepMoves ==
  ASSUME TypeOK, NEW c \in Connections, StoreStep(c)
  PROVE  /\ CopiesMove
         /\ c \in open
         /\ \A t \in Tags : Loses(t) => View(c)[t] # disk[t]
<1>0. View(c) \in StateMap
  BY ViewFacts DEF TypeOK
<1>1. ASSUME NEW qs \in PatchSets, NEW rs \in PatchSets, Registers(c, qs, rs)
      PROVE  CopiesMove /\ c \in open /\ \A t \in Tags : Loses(t) => View(c)[t] # disk[t]
  <2>1. /\ c \in open /\ Register(View(c), rs, {})
        /\ ChangedTags(View(c), qs) \subseteq ChangedTags(View(c), rs)
        /\ mem' = [mem EXCEPT ![c] = Upserted(View(c), rs)]
        /\ disk' \in {disk, Upserted(View(c), qs)}
    BY <1>1 DEF Registers, Writes
  <2>2. news' = ChangedTags(View(c), rs)
    BY <2>1 DEF Register
  <2>3. CopiesMove
    BY <1>0, <2>1, <2>2, UpsertedLegal, CopyMoves
  <2>4. ASSUME NEW t \in Tags, Loses(t), View(c)[t] = disk[t] PROVE FALSE
    <3>1. View(c)[t] = decided[t] /\ decided[t] \in DecidedEntry
      BY <2>4 DEF Loses, TypeOK
    <3>2. t \notin ChangedTags(View(c), rs)
      BY <2>1, <2>4, <3>1, ResetForgets DEF Loses
    <3>3. Upserted(View(c), qs)[t] = View(c)[t]
      BY <1>0, <2>1, <3>2, UpsertedFacts
    <3> QED
      BY <2>1, <2>4, <3>3 DEF Loses
  <2> QED
    BY <2>1, <2>3, <2>4
<1>2. ASSUME NEW ps \in PatchSets, NEW X \in SUBSET Tags, HandsOut(c, ps, X) \/ MarksOnly(c, ps, X)
      PROVE  CopiesMove /\ c \in open /\ \A t \in Tags : Loses(t) => View(c)[t] # disk[t]
  <2> DEFINE m == Upserted(View(c), ps)
             n == MarkedSent(m, UnseenOf(m, X))
  <2>1. /\ c \in open /\ \E T : Register(View(c), ps, T)
        /\ mem' = [mem EXCEPT ![c] = n]
        /\ disk' \in {disk, m, n}
    BY <1>2 DEF HandsOut, MarksOnly, Writes
  <2>2. news' = ChangedTags(View(c), ps)
    BY <2>1 DEF Register
  <2>3. CopiesMove
    BY <1>0, <2>1, <2>2, MarkedLegal, CopyMoves
  <2>4. ASSUME NEW t \in Tags, Loses(t), View(c)[t] = disk[t] PROVE FALSE
    <3>1. View(c)[t] = decided[t] /\ decided[t] \in DecidedEntry
      BY <2>4 DEF Loses, TypeOK
    <3>2. t \notin ChangedTags(View(c), ps)
      BY <2>1, <2>4, <3>1, ResetForgets DEF Loses
    <3>3. m[t] = View(c)[t] /\ n[t] = View(c)[t]
      BY <1>0, <3>1, <3>2, DecisionKept
    <3> QED
      BY <2>1, <2>4, <3>3 DEF Loses
  <2> QED
    BY <2>1, <2>3, <2>4
<1> QED
  BY <1>1, <1>2 DEF StoreStep

\* Every step moves the copies legally, and loses a decision only so.
LosesByStaleCopy ==
  \A t \in Tags : Loses(t) => \E c \in open : View(c)[t] # disk[t] /\ ConnectionStep(c)

LEMMA MovesStep == TypeOK /\ [Next]_vars => CopiesMove /\ LosesByStaleCopy
<1> SUFFICES ASSUME TypeOK, [Next]_vars PROVE CopiesMove /\ LosesByStaleCopy
  OBVIOUS
<1>0. StoreTypeOK /\ disk \in StateMap
  BY DEF TypeOK, StoreTypeOK
<1>1. ASSUME NEW c \in Connections, Connect(c) \/ Disconnect(c)
      PROVE  CopiesMove /\ LosesByStaleCopy
  <2>1. disk' = disk /\ \A d \in Connections : mem'[d] = Unloaded \/ mem'[d] = mem[d]
    BY <1>0, <1>1 DEF Connect, Disconnect, StoreTypeOK
  <2> QED
    BY <2>1 DEF CopiesMove, LegalInCopy, LosesByStaleCopy, Loses
<1>2. ASSUME NEW c \in Connections, NEW u \in Tags, NEW d \in Decisions, Feedback(c, u, d)
      PROVE  CopiesMove /\ LosesByStaleCopy
  <2>1. disk[u] \in Entry
    BY <1>0, <1>2 DEF Feedback, StateMap
  <2>2. [disk[u] EXCEPT !.status = d] = [status |-> d, hash |-> disk[u].hash]
    BY <2>1 DEF Entry
  <2>3. disk'[u] = decided'[u] /\ mem' = mem /\ \A t \in Tags : t # u => disk'[t] = disk[t]
    BY <1>0, <1>2, <2>2 DEF Feedback, StatusSet, StateMap, TypeOK
  <2> QED
    BY <2>3 DEF CopiesMove, LegalInCopy, LosesByStaleCopy, Loses
<1>3. ASSUME NEW c \in Connections, ConnectionStep(c) PROVE CopiesMove /\ LosesByStaleCopy
  <2>1. CASE StoreStep(c)
    BY <1>3, <2>1, StoreStepMoves DEF LosesByStaleCopy
  <2> QED
    BY <1>1, <1>2, <1>3, <2>1, ConnectionSteps
<1>4. ASSUME SaveNothing \/ UNCHANGED vars PROVE CopiesMove /\ LosesByStaleCopy
  BY <1>4 DEF SaveNothing, vars, CopiesMove, LegalInCopy, LosesByStaleCopy, Loses
<1>5. ASSUME NEW ps \in PatchSets, AskOverMcp(ps) \/ InitialSavePatches(ps)
      PROVE  CopiesMove /\ LosesByStaleCopy
  <2>1. mem' = mem /\ disk' = Upserted(disk, ps) /\ Register(disk, ps, {})
    BY <1>5 DEF AskOverMcp, InitialSavePatches
  <2>2. ASSUME NEW t \in Tags, Loses(t) PROVE FALSE
    <3>1. t \notin ChangedTags(disk, ps)
      BY <2>1, <2>2, ResetForgets DEF Loses
    <3> QED
      BY <1>0, <2>1, <2>2, <3>1, UpsertedFacts DEF Loses
  <2> QED
    BY <2>1, <2>2 DEF CopiesMove, LegalInCopy, LosesByStaleCopy
<1> QED
  BY <1>3, <1>4, <1>5 DEF Next, AddingSets

\* A store's own copy makes only the moves of a tag's life (upsert_tag and
\* mark_sent), whatever raises and however many connections are open.
THEOREM CopiesMoveLegally == Spec => CopyStepsLegal
<1>1. CopiesMove => \A c \in Connections, t \in Tags :
                      mem[c] # Unloaded /\ mem'[c] # Unloaded =>
                        LegalInCopy(t, mem[c][t], mem'[c][t])
  BY DEF CopiesMove
<1>2. TypeOK /\ [Next]_vars
        => [\A c \in Connections, t \in Tags :
              mem[c] # Unloaded /\ mem'[c] # Unloaded =>
                LegalInCopy(t, mem[c][t], mem'[c][t])]_vars
  BY <1>1, MovesStep
<1> QED
  BY InitType, TypeStep, <1>2, PTL DEF Spec, CopyStepsLegal

\* A recorded decision disappears from tag_state.json only by the registration
\* of other content, by another decision, or by a store that writes a copy
\* without it.
THEOREM DecisionsAreLostByStaleCopies == Spec => DecisionLostOnlyByStaleCopy
<1>1. TypeOK /\ [Next]_vars
        => [\A t \in Tags :
              decided[t] # Absent /\ disk[t] = decided[t]
                /\ decided'[t] = decided[t] /\ disk'[t] # disk[t] =>
                  \E c \in open : View(c)[t] # disk[t] /\ ConnectionStep(c)]_vars
  BY MovesStep DEF LosesByStaleCopy, Loses
<1> QED
  BY InitType, TypeStep, <1>1, PTL DEF Spec, DecisionLostOnlyByStaleCopy
=============================================================================
