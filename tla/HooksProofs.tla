----------------------------- MODULE HooksProofs -----------------------------
(***************************************************************************)
(* Theorems about Hooks, for any observations, evidence, memories, caps    *)
(* and bounds.  A fold and a prompt both work from a copy of the scratch   *)
(* file that they read before their first wait: the invariants say how     *)
(* long the copy stays good, and what the running process has in hand.     *)
(***************************************************************************)
EXTENDS Hooks, FiniteSetTheorems, WellFoundedInduction, TLAPS

States == [Memories -> Fingerprints \cup {None}]
Abouts == {Listed(list) : list \in Seq(Observations)} \cup DOMAIN Evidence
NoteType == [kind : {"fact", "summary"}, about : Abouts, live : BOOLEAN, curated : BOOLEAN]
FactType == [ev : DOMAIN Evidence, id : Nat, retired : BOOLEAN]
ScratchType == [obs : Seq(Observations), prior : Nat, facts : SUBSET FactType,
                ledger : States, known : BOOLEAN, unknown : BOOLEAN]
DataType == [obs : Seq(Observations), prior : Nat]

FoldPcs == {"facts", "fact_stored", "retire", "summary", "summary_stored", "done"}
FoldHook == [pc : FoldPcs, mode : {"end", "checkpoint"}, data : DataType,
             connected : BOOLEAN, todo : SUBSET Nat, id : Nat, clean : BOOLEAN, content : BOOLEAN]
PromptHook == [pc : {"prompt"}, startup : BOOLEAN, data : ScratchType]
PrepareHook == [pc : {"prepare"}, startup : BOOLEAN, data : ScratchType,
                answered : BOOLEAN, context : States]

\* Every variable has its type; what a fold still has to store is evidence.
Types ==
    /\ scratch \in ScratchType
    /\ notes \in Seq(NoteType)
    /\ hook \in {Idle} \cup FoldHook \cup PromptHook \cup PrepareHook
    /\ hook.pc \in {"facts", "fact_stored"} => hook.todo \subseteq DOMAIN Evidence
    /\ At("fact_stored") => hook.todo # {}
    /\ world \in States /\ host \in States
    /\ forgot \in BOOLEAN /\ expired \in BOOLEAN

Folding == hook.pc \in FoldPcs
Prompting == hook.pc \in {"prompt", "prepare"}

\* A fold's copy of the scratch is the scratch until the fold is done.
FoldFollowsScratch ==
    Folding => /\ hook.pc # "done" => hook.data.prior = scratch.prior /\ hook.data.obs = scratch.obs
               /\ hook.clean => hook.connected
               /\ ~hook.content => Listed(hook.data.obs) = {}

\* The summary whose answer is on its way is stored, live, and lists the observations.
SummaryInHand ==
    At("summary_stored") =>
        /\ hook.id \in LiveNotes /\ notes[hook.id].kind = "summary"
        /\ notes[hook.id].about = Listed(hook.data.obs)

\* Identities the hooks keep are those of stored memories, and one marked as retired is
\* not live.
FactsInHand ==
    /\ At("fact_stored") => hook.id \in DOMAIN notes
    /\ At("retire") => hook.todo \subseteq DOMAIN notes
    /\ \A f \in scratch.facts : /\ f.id \in DOMAIN notes
                                /\ f.retired => ~notes[f.id].live

\* While a clean fold retires, what is covered and not retired is still on its list;
\* afterwards nothing covered is live.
RetirementCovers ==
    /\ At("retire") /\ hook.clean =>
           \A f, g \in scratch.facts : corrects(g, f.ev) /\ ~f.retired => f.id \in hook.todo
    /\ hook.pc \in {"summary", "summary_stored", "done"} /\ hook.clean =>
           \A f, g \in scratch.facts : corrects(g, f.ev) => f.id \notin LiveNotes

\* The one live summary is the one the scratch, or the answer on its way, names.
KnownSummary == IF At("summary_stored") THEN hook.id ELSE scratch.prior
SummaryKnown == ~forgot => \A i \in LiveNotes : notes[i].kind = "summary" => i = KnownSummary

\* A prompt's copy of the scratch is the scratch, and a startup context is pending.
PromptFollowsScratch ==
    Prompting => hook.data = scratch /\ (hook.startup => ~scratch.known)

\* What the conversation shows is in the ledger, changed since or not.
HostFollowed ==
    /\ ~scratch.known => scratch.ledger = Untold
    /\ ~expired => \A m \in Memories : host[m] # None => scratch.ledger[m] = host[m] \/ scratch.unknown

FoldInv == FoldFollowsScratch /\ SummaryInHand /\ FactsInHand /\ RetirementCovers
HooksInv ==
    /\ Types /\ FoldInv /\ SummaryKnown /\ ObservationsKept /\ CleanFoldCovers
    /\ PromptFollowsScratch /\ HostFollowed

-----------------------------------------------------------------------------
(* Types *)

\* The least element of a set of numbers exists: evidence is taken in transcript order.
LEMMA EarliestIn ==
    ASSUME NEW E \in SUBSET Nat, E # {}
    PROVE  Earliest(E) \in E
<1>1. \E x \in E : \A y \in E : <<y, x>> \notin OpToRel(<, Nat)
  BY NatLessThanWellFounded, WFMin
<1>2. \A x, y \in E : <<y, x>> \notin OpToRel(<, Nat) => x <= y
  BY DEF OpToRel
<1>3. \E x \in E : \A y \in E : x <= y
  BY <1>1, <1>2
<1>4. QED BY <1>3 DEF Earliest

\* Which process is running, from where it is
LEMMA HookByPc ==
    ASSUME Types
    PROVE  /\ Folding => hook \in FoldHook
           /\ At("prompt") => hook \in PromptHook
           /\ At("prepare") => hook \in PrepareHook
           /\ At("idle") => hook = Idle
           /\ hook.pc \in FoldPcs \cup {"idle", "prompt", "prepare"}
           /\ hook = Idle => At("idle")
  BY DEF Types, Folding, At, FoldPcs, Idle, FoldHook, PromptHook, PrepareHook

\* How a fold's process moves on: the fields that stay and the fields that change
LEMMA Moves ==
    ASSUME hook \in FoldHook
    PROVE  /\ Passed = [hook EXCEPT !.pc = "facts", !.todo = hook.todo \ {Current}, !.id = None]
           /\ Passed \in FoldHook /\ Failed \in FoldHook /\ Done \in FoldHook
           /\ \A ids \in SUBSET Nat : Retiring(ids) \in FoldHook
           /\ Passed.pc = "facts" /\ Passed.data = hook.data /\ Passed.clean = hook.clean
           /\ Passed.connected = hook.connected /\ Passed.content = hook.content
           /\ Passed.todo = hook.todo \ {Current}
           /\ Failed.pc = "facts" /\ Failed.data = hook.data /\ Failed.clean = FALSE
           /\ Failed.connected = hook.connected /\ Failed.content = hook.content
           /\ Failed.todo = hook.todo \ {Current}
           /\ Done.pc = "done" /\ Done.data = hook.data /\ Done.clean = hook.clean
           /\ Done.connected = hook.connected /\ Done.content = hook.content
           /\ \A ids \in SUBSET Nat :
                /\ Retiring(ids).pc = IF ids = {} THEN "summary" ELSE "retire"
                /\ Retiring(ids).todo = ids /\ Retiring(ids).data = hook.data
                /\ Retiring(ids).clean = hook.clean /\ Retiring(ids).connected = hook.connected
                /\ Retiring(ids).content = hook.content
<1>1. None \in Nat
  BY DEF None
<1>2. Passed \in FoldHook
  BY <1>1 DEF FoldHook, Passed, FoldPcs
<1>3. Failed \in FoldHook
  BY <1>1 DEF FoldHook, Passed, FoldPcs, Failed
<1>4. Done \in FoldHook
  BY <1>1 DEF FoldHook, FoldPcs, Done
<1>5. \A ids \in SUBSET Nat : Retiring(ids) \in FoldHook
  BY DEF FoldHook, FoldPcs, Retiring
<1>6. QED BY <1>2, <1>3, <1>4, <1>5 DEF FoldHook, Passed, Failed, Done, Retiring

\* What the daemon's write leaves in the table
Grown(new, kind, about, prior, dups) ==
    /\ new \in Seq(NoteType)
    /\ DOMAIN new = DOMAIN notes \cup {Len(notes) + 1} /\ Len(notes) + 1 \notin DOMAIN notes
    /\ \A i \in DOMAIN notes :
          /\ new[i].kind = notes[i].kind /\ new[i].about = notes[i].about
          /\ new[i].curated = notes[i].curated
          /\ new[i].live <=> notes[i].live /\ i # prior /\ i \notin dups \ Curated(dups)
    /\ new[Len(notes) + 1].kind = kind /\ new[Len(notes) + 1].about = about
    /\ new[Len(notes) + 1].live <=> Curated(dups) = {}

LEMMA RememberedNotes ==
    ASSUME notes \in Seq(NoteType), NEW kind \in {"fact", "summary"}, NEW about \in Abouts,
           NEW prior, NEW dups \in SUBSET DOMAIN notes
    PROVE  Grown(Remembered(kind, about, prior, dups), kind, about, prior, dups)
<1> DEFINE old == [i \in DOMAIN notes |->
                      [notes[i] EXCEPT !.live = @ /\ i # prior /\ i \notin dups \ Curated(dups)]]
           row == [kind |-> kind, about |-> about, live |-> Curated(dups) = {}, curated |-> FALSE]
<1>1. \A i \in DOMAIN notes : notes[i] \in NoteType
  OBVIOUS
<1>2. \A i \in DOMAIN notes :
         /\ old[i] \in NoteType
         /\ old[i].kind = notes[i].kind /\ old[i].about = notes[i].about
         /\ old[i].curated = notes[i].curated
         /\ old[i].live = (notes[i].live /\ i # prior /\ i \notin dups \ Curated(dups))
  BY <1>1 DEF NoteType
<1>3. DOMAIN notes = 1 .. Len(notes) /\ Len(notes) \in Nat
  OBVIOUS
<1> HIDE DEF old
<1>4. old \in Seq(NoteType) /\ Len(old) = Len(notes) /\ DOMAIN old = DOMAIN notes
  <2>1. DOMAIN old = 1 .. Len(notes)
    BY <1>3 DEF old
  <2>2. old \in [1 .. Len(notes) -> NoteType]
    BY <1>2, <1>3, <2>1 DEF old
  <2>3. QED BY ONLY <1>3, <2>1, <2>2
<1>5. row \in NoteType
  BY DEF NoteType
<1>6. Remembered(kind, about, prior, dups) = Append(old, row)
  BY DEF Remembered, old
<1> HIDE DEF row
<1>7. /\ Append(old, row) \in Seq(NoteType) /\ Len(Append(old, row)) = Len(notes) + 1
      /\ DOMAIN Append(old, row) = DOMAIN notes \cup {Len(notes) + 1}
      /\ Len(notes) + 1 \notin DOMAIN notes
      /\ \A i \in DOMAIN notes : Append(old, row)[i] = old[i]
      /\ Append(old, row)[Len(notes) + 1] = row
  BY <1>3, <1>4, <1>5
<1>8. /\ row.kind = kind /\ row.about = about /\ row.live = (Curated(dups) = {})
      /\ row.curated = FALSE
  BY DEF row
<1>9. PICK new : new = Append(old, row)
  OBVIOUS
<1>10. \A i \in DOMAIN notes :
         /\ new[i].kind = notes[i].kind /\ new[i].about = notes[i].about
         /\ new[i].curated = notes[i].curated
         /\ new[i].live <=> notes[i].live /\ i # prior /\ i \notin dups \ Curated(dups)
  BY ONLY <1>2, <1>7, <1>9
<1>11. /\ new[Len(notes) + 1].kind = kind /\ new[Len(notes) + 1].about = about
       /\ new[Len(notes) + 1].live <=> Curated(dups) = {}
  BY ONLY <1>7, <1>8, <1>9
<1>12. /\ new \in Seq(NoteType) /\ DOMAIN new = DOMAIN notes \cup {Len(notes) + 1}
       /\ Len(notes) + 1 \notin DOMAIN notes
  BY ONLY <1>7, <1>9
<1>13. Grown(new, kind, about, prior, dups)
  BY ONLY <1>10, <1>11, <1>12 DEF Grown
<1>14. QED BY ONLY <1>6, <1>9, <1>13

\* What the scratch's operations change, and what they leave
PriorSet(new, s, id) ==
    /\ new \in ScratchType /\ new.prior = id /\ new.facts = s.facts
    /\ new.ledger = s.ledger /\ new.known = s.known /\ new.unknown = s.unknown

LEMMA ScratchMoves ==
    ASSUME NEW s \in ScratchType, NEW id \in Nat
    PROVE  /\ PriorSet(mark_folded(s, id), s, id)
           /\ PriorSet(mark_checkpointed(s, id), s, id)
           /\ mark_checkpointed(s, id).obs = s.obs
<1>1. <<>> \in Seq(Observations)
  OBVIOUS
<1>2. mark_folded(s, id) \in ScratchType
  BY <1>1 DEF mark_folded, ScratchType
<1>3. mark_checkpointed(s, id) \in ScratchType
  BY DEF mark_checkpointed, ScratchType
<1>4. QED BY <1>2, <1>3 DEF mark_folded, mark_checkpointed, ScratchType, PriorSet

LEMMA FactMoves ==
    ASSUME NEW s \in ScratchType, NEW id \in Nat, NEW e \in DOMAIN Evidence
    PROVE  /\ record_fact(s, e, id) \in ScratchType
           /\ record_fact(s, e, id).obs = s.obs /\ record_fact(s, e, id).prior = s.prior
           /\ record_fact(s, e, id).ledger = s.ledger /\ record_fact(s, e, id).known = s.known
           /\ record_fact(s, e, id).unknown = s.unknown
           /\ \A f \in record_fact(s, e, id).facts :
                  f \in s.facts \/ (f.id = id /\ f.retired = FALSE)
<1> DEFINE f == [ev |-> e, id |-> id, retired |-> FALSE]
<1>1. f \in FactType /\ f.id = id /\ f.retired = FALSE
  BY DEF FactType
<1>2. s.facts \cup {f} \in SUBSET FactType
  BY <1>1 DEF ScratchType
<1>3. CASE Cardinality(s.facts) < MaxFacts
  <2>1. record_fact(s, e, id) = [s EXCEPT !.facts = s.facts \cup {f}]
    BY <1>3 DEF record_fact, ScratchType
  <2> HIDE DEF f
  <2>2. QED BY <1>1, <1>2, <2>1 DEF ScratchType
<1>4. CASE ~(Cardinality(s.facts) < MaxFacts)
  BY <1>4 DEF record_fact
<1>5. QED BY <1>3, <1>4

LEMMA RetireMoves ==
    ASSUME NEW s \in ScratchType, NEW id \in Nat
    PROVE  /\ mark_fact_retired(s, id) \in ScratchType
           /\ mark_fact_retired(s, id).obs = s.obs /\ mark_fact_retired(s, id).prior = s.prior
           /\ mark_fact_retired(s, id).ledger = s.ledger /\ mark_fact_retired(s, id).known = s.known
           /\ mark_fact_retired(s, id).unknown = s.unknown
           /\ \A f \in mark_fact_retired(s, id).facts : \E g \in s.facts :
                  f.ev = g.ev /\ f.id = g.id /\ f.retired = (g.retired \/ g.id = id)
<1> DEFINE Marked(f) == IF f.id = id THEN [f EXCEPT !.retired = TRUE] ELSE f
           facts == {Marked(f) : f \in s.facts}
<1>1. \A f \in FactType : /\ Marked(f) \in FactType
                          /\ Marked(f).ev = f.ev /\ Marked(f).id = f.id
                          /\ Marked(f).retired = (f.retired \/ f.id = id)
  BY DEF FactType
<1>2. s.facts \subseteq FactType
  BY DEF ScratchType
<1> HIDE DEF Marked
<1>3. facts \in SUBSET FactType
  BY <1>1, <1>2
<1>4. mark_fact_retired(s, id) = [s EXCEPT !.facts = facts]
  BY DEF mark_fact_retired, Marked, ScratchType
<1>5. \A f \in facts : \E g \in s.facts :
          f.ev = g.ev /\ f.id = g.id /\ f.retired = (g.retired \/ g.id = id)
  BY <1>1, <1>2
<1> HIDE DEF facts
<1>6. QED BY <1>3, <1>4, <1>5 DEF ScratchType

LEMMA ContextMoves ==
    ASSUME NEW s \in ScratchType, NEW delivery \in States
    PROVE  /\ record_context(s, delivery) \in ScratchType
           /\ record_context(s, delivery).obs = s.obs /\ record_context(s, delivery).prior = s.prior
           /\ record_context(s, delivery).facts = s.facts
           /\ record_context(s, delivery).ledger = delivery
           /\ record_context(s, delivery).known = TRUE /\ record_context(s, delivery).unknown = FALSE
           /\ mark_resumed(s) \in ScratchType
           /\ mark_resumed(s).obs = s.obs /\ mark_resumed(s).prior = s.prior
           /\ mark_resumed(s).facts = s.facts /\ mark_resumed(s).ledger = s.ledger
           /\ mark_resumed(s).known = s.known /\ (s.unknown => mark_resumed(s).unknown)
  BY DEF record_context, mark_resumed, ScratchType

LEMMA FreshScratch ==
    /\ Fresh \in ScratchType /\ Fresh.obs = <<>> /\ Fresh.facts = {} /\ Fresh.prior = None
    /\ Fresh.ledger = Untold /\ Fresh.known = FALSE /\ Fresh.unknown = FALSE
    /\ Untold \in States /\ \A m \in Memories : Untold[m] = None
<1>1. Untold \in States /\ \A m \in Memories : Untold[m] = None
  BY DEF Untold, Nothing, States
<1>2. QED BY <1>1 DEF Fresh, ScratchType, None

\* The identity the daemon answers with
LEMMA SurvivorIs ==
    ASSUME notes \in Seq(NoteType), NEW dups \in SUBSET DOMAIN notes
    PROVE  /\ Survivor(dups) \in Nat
           /\ Curated(dups) = {} => Survivor(dups) = Len(notes) + 1
           /\ Curated(dups) # {} => Survivor(dups) \in Curated(dups)
<1>1. Curated(dups) \subseteq Nat
  BY DEF Curated
<1>2. CASE Curated(dups) = {}
  BY <1>2 DEF Survivor
<1>3. CASE Curated(dups) # {}
  <2>1. (CHOOSE i \in Curated(dups) : TRUE) \in Curated(dups)
    BY <1>3
  <2>2. QED BY <1>1, <1>3, <2>1 DEF Survivor
<1>4. QED BY <1>2, <1>3

\* No step takes a stored memory away, changes what it says, revives it or makes one that
\* a person curated uncurated.
NotesKept ==
    /\ notes' \in Seq(NoteType) /\ DOMAIN notes \subseteq DOMAIN notes'
    /\ \A i \in DOMAIN notes : /\ notes'[i].kind = notes[i].kind
                               /\ notes'[i].about = notes[i].about
                               /\ notes[i].curated => notes'[i].curated
                               /\ notes'[i].live => notes[i].live

LEMMA Archived ==
    ASSUME notes \in Seq(NoteType), NEW id \in DOMAIN notes
    PROVE  LET new == [notes EXCEPT ![id].live = FALSE]
           IN  /\ new \in Seq(NoteType) /\ DOMAIN new = DOMAIN notes /\ Len(new) = Len(notes)
               /\ \A i \in DOMAIN notes :
                     /\ new[i].kind = notes[i].kind /\ new[i].about = notes[i].about
                     /\ new[i].curated = notes[i].curated
                     /\ new[i].live = (notes[i].live /\ i # id)
<1>1. \A i \in DOMAIN notes : notes[i] \in NoteType
  OBVIOUS
<1> DEFINE row == [notes[id] EXCEPT !.live = FALSE]
<1>2. /\ row \in NoteType /\ row.kind = notes[id].kind /\ row.about = notes[id].about
      /\ row.curated = notes[id].curated /\ row.live = FALSE
  BY <1>1 DEF NoteType
<1>3. [notes EXCEPT ![id].live = FALSE] = [notes EXCEPT ![id] = row]
  OBVIOUS
<1>4. \A i \in DOMAIN notes : notes[i].live \in BOOLEAN
  BY <1>1 DEF NoteType
<1> HIDE DEF row
<1>5. /\ [notes EXCEPT ![id] = row] \in Seq(NoteType)
      /\ DOMAIN [notes EXCEPT ![id] = row] = DOMAIN notes
      /\ Len([notes EXCEPT ![id] = row]) = Len(notes)
  BY <1>2
<1>6. \A i \in DOMAIN notes : [notes EXCEPT ![id] = row][i] = IF i = id THEN row ELSE notes[i]
  OBVIOUS
<1> DEFINE new == [notes EXCEPT ![id] = row]
<1> HIDE DEF new
<1>7. \A i \in DOMAIN notes : new[i] = IF i = id THEN row ELSE notes[i]
  BY <1>6 DEF new
<1>8. \A i \in DOMAIN notes :
         /\ new[i].kind = notes[i].kind /\ new[i].about = notes[i].about
         /\ new[i].curated = notes[i].curated
         /\ new[i].live = (notes[i].live /\ i # id)
  BY <1>2, <1>4, <1>7
<1>9. QED BY <1>3, <1>5, <1>8 DEF new

LEMMA NotesSame == ASSUME Types, UNCHANGED notes PROVE NotesKept
  BY DEF Types, NotesKept

-----------------------------------------------------------------------------
(* What a step that is about something else leaves standing *)

LEMMA KeepObservations ==
    ASSUME HooksInv, NotesKept, owed' \subseteq owed, ToSet(scratch.obs) \subseteq ToSet(scratch'.obs)
    PROVE  ObservationsKept'
<1>1. \A o : Stored(o) => Stored(o)'
  BY DEF NotesKept, Stored
<1>2. QED BY <1>1 DEF HooksInv, ObservationsKept

LEMMA KeepPreviews ==
    ASSUME HooksInv, UNCHANGED <<host, expired>>,
           scratch'.ledger = scratch.ledger, scratch'.known = scratch.known,
           scratch'.unknown = scratch.unknown, hook'.pc \notin {"prompt", "prepare"}
    PROVE  PromptFollowsScratch' /\ HostFollowed'
  BY DEF HooksInv, PromptFollowsScratch, HostFollowed, Prompting, Untold

LEMMA KeepSummary ==
    ASSUME HooksInv, NotesKept, forgot => forgot', scratch'.prior = scratch.prior,
           ~At("summary_stored"), hook'.pc # "summary_stored",
           \A i \in DOMAIN notes' \ DOMAIN notes : notes'[i].kind # "summary"
    PROVE  SummaryKnown'
<1>1. \A i \in LiveNotes' : notes'[i].kind = "summary" =>
          i \in LiveNotes /\ notes[i].kind = "summary"
  BY DEF NotesKept, LiveNotes
<1>2. KnownSummary' = KnownSummary
  BY DEF KnownSummary, At
<1>3. forgot \/ \A i \in LiveNotes : notes[i].kind = "summary" => i = KnownSummary
  BY DEF HooksInv, SummaryKnown
<1>4. QED BY <1>1, <1>2, <1>3 DEF SummaryKnown

LEMMA KeepFacts ==
    ASSUME HooksInv, NotesKept,
           \A f \in scratch'.facts : \/ f \in scratch.facts
                                     \/ f.id \in DOMAIN notes' /\ ~f.retired
    PROVE  \A f \in scratch'.facts : f.id \in DOMAIN notes' /\ (f.retired => ~notes'[f.id].live)
  BY DEF HooksInv, FoldInv, FactsInHand, NotesKept

\* The first loop of store_confirmed_facts
LEMMA FactsLoop ==
    ASSUME HooksInv, hook.pc \in {"facts", "fact_stored"},
           hook' \in FoldHook, hook'.pc \in {"facts", "fact_stored"}, hook'.data = hook.data,
           hook'.connected = hook.connected, hook'.content = hook.content,
           hook'.clean => hook.clean, hook'.todo \subseteq hook.todo,
           hook'.pc = "fact_stored" => hook'.todo # {} /\ hook'.id \in DOMAIN notes',
           NotesKept, \A i \in DOMAIN notes' \ DOMAIN notes : notes'[i].kind # "summary",
           scratch' \in ScratchType, scratch'.obs = scratch.obs, scratch'.prior = scratch.prior,
           scratch'.ledger = scratch.ledger, scratch'.known = scratch.known,
           scratch'.unknown = scratch.unknown,
           \A f \in scratch'.facts : \/ f \in scratch.facts
                                     \/ f.id \in DOMAIN notes' /\ ~f.retired,
           UNCHANGED <<world, host, owed, expired>>, forgot' \in BOOLEAN, forgot => forgot'
    PROVE  HooksInv'
<1>1. hook \in FoldHook
  BY HookByPc DEF HooksInv, Folding, FoldPcs
<1>2. Types'
  <2>1. hook.todo \subseteq DOMAIN Evidence
    BY DEF HooksInv, Types
  <2>2. QED BY <2>1 DEF HooksInv, Types, NotesKept, At
<1>3. FoldFollowsScratch'
  BY DEF HooksInv, FoldInv, FoldFollowsScratch, Folding, FoldPcs
<1>4. SummaryInHand' /\ RetirementCovers' /\ CleanFoldCovers'
  BY DEF SummaryInHand, RetirementCovers, CleanFoldCovers, At
<1>5. FactsInHand'
  BY KeepFacts DEF FactsInHand, At
<1>6. SummaryKnown'
  BY KeepSummary DEF At
<1>7. ObservationsKept' /\ PromptFollowsScratch' /\ HostFollowed'
  BY KeepObservations, KeepPreviews
<1>8. QED BY <1>2, <1>3, <1>4, <1>5, <1>6, <1>7 DEF HooksInv, FoldInv

LEMMA FactsSteps ==
    ASSUME HooksInv,
           \/ skip_fact \/ fact_refused \/ fact_answered \/ fact_unanswered
           \/ \E dups \in SUBSET DOMAIN notes : store_fact(dups)
    PROVE  HooksInv'
<1>0. /\ Types /\ scratch \in ScratchType /\ notes \in Seq(NoteType) /\ forgot \in BOOLEAN
      /\ DOMAIN Evidence \subseteq Nat /\ \A i \in DOMAIN notes : i \in Nat
  BY HooksAssumption DEF HooksInv, Types
<1>1. ASSUME hook.pc \in {"facts", "fact_stored"}, hook.todo # {}
      PROVE  hook \in FoldHook /\ hook.todo \subseteq DOMAIN Evidence /\ Current \in hook.todo
  <2>1. hook \in FoldHook /\ hook.todo \subseteq DOMAIN Evidence
    BY <1>0, <1>1, HookByPc DEF Folding, FoldPcs, Types
  <2>2. QED BY <1>0, <1>1, <2>1, EarliestIn DEF Current
<1>2. CASE skip_fact
  <2>1. hook.pc = "facts" /\ hook.todo # {} /\ hook' = Passed /\ UNCHANGED <<scratch, notes, world, host, owed, forgot, expired>>
    BY <1>2 DEF skip_fact, At
  <2>2. hook \in FoldHook /\ NotesKept
    BY <1>0, <1>1, <2>1, NotesSame
  <2>3. /\ hook' \in FoldHook /\ hook'.pc = "facts" /\ hook'.data = hook.data
        /\ hook'.connected = hook.connected /\ hook'.content = hook.content
        /\ hook'.clean = hook.clean /\ hook'.todo \subseteq hook.todo
    BY <2>1, <2>2, Moves
  <2>4. QED BY <1>0, <2>1, <2>2, <2>3, FactsLoop
<1>3. CASE fact_refused
  <2>1. hook.pc = "facts" /\ hook.todo # {} /\ hook' = Failed /\ UNCHANGED <<scratch, notes, world, host, owed, forgot, expired>>
    BY <1>3 DEF fact_refused, Wanted, At
  <2>2. hook \in FoldHook /\ NotesKept
    BY <1>0, <1>1, <2>1, NotesSame
  <2>3. /\ hook' \in FoldHook /\ hook'.pc = "facts" /\ hook'.data = hook.data
        /\ hook'.connected = hook.connected /\ hook'.content = hook.content
        /\ hook'.clean = FALSE /\ hook'.todo \subseteq hook.todo
    BY <2>1, <2>2, Moves
  <2>4. QED BY <1>0, <2>1, <2>2, <2>3, FactsLoop
<1>4. CASE fact_answered
  <2>1. /\ hook.pc = "fact_stored" /\ hook.todo # {} /\ hook' = Passed
        /\ hook.id \in DOMAIN notes /\ hook.id \in Nat
        /\ scratch' = record_fact(scratch, Current, hook.id)
        /\ UNCHANGED <<notes, world, host, owed, forgot, expired>>
    BY <1>0, <1>4 DEF fact_answered, At, HooksInv, FoldInv, FactsInHand, Types
  <2>2. hook \in FoldHook /\ NotesKept /\ Current \in DOMAIN Evidence
    BY <1>0, <1>1, <2>1, NotesSame
  <2>3. /\ hook' \in FoldHook /\ hook'.pc = "facts" /\ hook'.data = hook.data
        /\ hook'.connected = hook.connected /\ hook'.content = hook.content
        /\ hook'.clean = hook.clean /\ hook'.todo \subseteq hook.todo
    BY <2>1, <2>2, Moves
  <2>4. /\ scratch' \in ScratchType /\ scratch'.obs = scratch.obs /\ scratch'.prior = scratch.prior
        /\ scratch'.ledger = scratch.ledger /\ scratch'.known = scratch.known
        /\ scratch'.unknown = scratch.unknown
        /\ \A f \in scratch'.facts : f \in scratch.facts \/ (f.id = hook.id /\ f.retired = FALSE)
    <3>1. PICK e \in DOMAIN Evidence, id \in Nat : e = Current /\ id = hook.id
      BY <2>1, <2>2
    <3>2. scratch' = record_fact(scratch, e, id)
      BY <2>1, <3>1
    <3> DEFINE s == record_fact(scratch, e, id)
    <3>3. /\ s \in ScratchType /\ s.obs = scratch.obs /\ s.prior = scratch.prior
          /\ s.ledger = scratch.ledger /\ s.known = scratch.known /\ s.unknown = scratch.unknown
          /\ \A f \in s.facts : f \in scratch.facts \/ (f.id = id /\ f.retired = FALSE)
      BY <1>0, FactMoves
    <3> HIDE DEF s
    <3>4. scratch' = s
      BY <3>2 DEF s
    <3>5. QED BY <3>1, <3>3, <3>4
  <2>5. QED BY <1>0, <2>1, <2>2, <2>3, <2>4, FactsLoop
<1>5. CASE fact_unanswered
  <2>1. /\ hook.pc = "fact_stored" /\ hook.todo # {} /\ hook' = Failed /\ forgot' = TRUE
        /\ UNCHANGED <<scratch, notes, world, host, owed, expired>>
    BY <1>0, <1>5 DEF fact_unanswered, At, Types
  <2>2. hook \in FoldHook /\ NotesKept
    BY <1>0, <1>1, <2>1, NotesSame
  <2>3. /\ hook' \in FoldHook /\ hook'.pc = "facts" /\ hook'.data = hook.data
        /\ hook'.connected = hook.connected /\ hook'.content = hook.content
        /\ hook'.clean = FALSE /\ hook'.todo \subseteq hook.todo
    BY <2>1, <2>2, Moves
  <2>4. QED BY <1>0, <2>1, <2>2, <2>3, FactsLoop
<1>6. ASSUME NEW dups \in SUBSET DOMAIN notes, store_fact(dups) PROVE HooksInv'
  <2>1. /\ hook.pc = "facts" /\ hook.todo # {}
        /\ notes' = Remembered("fact", Current, Prior(Current), dups)
        /\ hook' = [hook EXCEPT !.pc = "fact_stored", !.id = Survivor(dups)]
        /\ UNCHANGED <<scratch, world, host, owed, forgot, expired>>
    BY <1>6 DEF store_fact, Wanted, At
  <2>2. hook \in FoldHook /\ Current \in Abouts
    BY <1>1, <2>1 DEF Abouts
  <2>3. /\ NotesKept /\ DOMAIN notes' = DOMAIN notes \cup {Len(notes) + 1}
        /\ notes'[Len(notes) + 1].kind = "fact"
    <3>1. PICK about \in Abouts : about = Current
      BY <2>2
    <3>a. PICK prior : prior = Prior(Current)
      OBVIOUS
    <3>2. notes' = Remembered("fact", about, prior, dups)
      BY <2>1, <3>1, <3>a
    <3>3. Grown(notes', "fact", about, prior, dups)
      BY <1>0, <1>6, <3>2, RememberedNotes
    <3>4. QED BY <3>3 DEF Grown, NotesKept
  <2>4. Survivor(dups) \in Nat /\ Survivor(dups) \in DOMAIN notes'
    BY <1>0, <1>6, <2>3, SurvivorIs DEF Curated
  <2>5. /\ hook' \in FoldHook /\ hook'.pc = "fact_stored" /\ hook'.data = hook.data
        /\ hook'.connected = hook.connected /\ hook'.content = hook.content
        /\ hook'.clean = hook.clean /\ hook'.todo = hook.todo /\ hook'.id = Survivor(dups)
    BY <2>1, <2>2, <2>4 DEF FoldHook, FoldPcs
  <2>6. \A i \in DOMAIN notes' \ DOMAIN notes : notes'[i].kind # "summary"
    BY <2>3
  <2>7. QED BY <1>0, <2>1, <2>2, <2>3, <2>4, <2>5, <2>6, FactsLoop
<1>7. QED BY <1>2, <1>3, <1>4, <1>5, <1>6

\* The second loop: facts that a stored correction covers are retired one by one
LEMMA RetireLoop ==
    ASSUME HooksInv, hook.pc \in {"facts", "retire"}, NEW ids \in SUBSET DOMAIN notes,
           hook' \in FoldHook, hook'.pc = IF ids = {} THEN "summary" ELSE "retire",
           hook'.todo = ids, hook'.data = hook.data, hook'.connected = hook.connected,
           hook'.content = hook.content, hook'.clean => hook.clean,
           NotesKept, DOMAIN notes' = DOMAIN notes,
           scratch' \in ScratchType, scratch'.obs = scratch.obs, scratch'.prior = scratch.prior,
           scratch'.ledger = scratch.ledger, scratch'.known = scratch.known,
           scratch'.unknown = scratch.unknown,
           \A f \in scratch'.facts : f.id \in DOMAIN notes /\ (f.retired => ~notes'[f.id].live),
           hook'.clean => \A f, g \in scratch'.facts :
                              corrects(g, f.ev) /\ ~f.retired => f.id \in ids,
           UNCHANGED <<world, host, owed, forgot, expired>>
    PROVE  HooksInv'
<1>1. Types'
  BY DEF HooksInv, Types, NotesKept, At
<1>2. FoldFollowsScratch'
  BY DEF HooksInv, FoldInv, FoldFollowsScratch, Folding, FoldPcs
<1>3. SummaryInHand' /\ CleanFoldCovers'
  BY DEF SummaryInHand, CleanFoldCovers, At
<1>4. FactsInHand'
  BY DEF FactsInHand, At
<1>5. RetirementCovers'
  <2>1. ids = {} /\ hook'.clean =>
            \A f, g \in scratch'.facts : corrects(g, f.ev) => f.id \notin LiveNotes'
    BY DEF LiveNotes
  <2>2. QED BY <2>1 DEF RetirementCovers, At
<1>6. SummaryKnown'
  BY KeepSummary DEF At
<1>7. ObservationsKept' /\ PromptFollowsScratch' /\ HostFollowed'
  BY KeepObservations, KeepPreviews
<1>8. QED BY <1>1, <1>2, <1>3, <1>4, <1>5, <1>6, <1>7 DEF HooksInv, FoldInv

LEMMA RetireSteps ==
    ASSUME HooksInv,
           \/ begin_retirement
           \/ \E id \in DOMAIN notes :
                 retire_fact(id) \/ \E c \in BOOLEAN : retire_failed(id, c)
    PROVE  HooksInv'
<1>0. /\ Types /\ scratch \in ScratchType /\ notes \in Seq(NoteType)
      /\ DOMAIN notes \subseteq Nat
      /\ \A f \in scratch.facts : f.id \in DOMAIN notes /\ (f.retired => ~notes[f.id].live)
  BY DEF HooksInv, Types, FoldInv, FactsInHand
<1>1. CASE begin_retirement
  <2>1. hook.pc = "facts" /\ hook' = Retiring(Covered) /\ UNCHANGED <<scratch, notes, world, host, owed, forgot, expired>>
    BY <1>1 DEF begin_retirement, At
  <2>2. hook \in FoldHook /\ NotesKept
    BY <1>0, <2>1, HookByPc, NotesSame DEF Folding, FoldPcs
  <2>3. /\ Covered \in SUBSET DOMAIN notes
        /\ \A f, g \in scratch.facts : corrects(g, f.ev) /\ ~f.retired => f.id \in Covered
    BY <1>0 DEF Covered
  <2>4. PICK ids \in SUBSET DOMAIN notes : ids = Covered
    BY <2>3
  <2>5. /\ hook' \in FoldHook /\ hook'.pc = IF ids = {} THEN "summary" ELSE "retire"
        /\ hook'.todo = ids /\ hook'.data = hook.data /\ hook'.connected = hook.connected
        /\ hook'.content = hook.content /\ hook'.clean = hook.clean
    BY <1>0, <2>1, <2>2, <2>4, Moves
  <2>6. QED BY <1>0, <2>1, <2>2, <2>3, <2>4, <2>5, RetireLoop
<1>2. ASSUME NEW id \in DOMAIN notes, retire_fact(id) PROVE HooksInv'
  <2>1. /\ hook.pc = "retire" /\ id \in hook.todo /\ notes' = [notes EXCEPT ![id].live = FALSE]
        /\ scratch' = mark_fact_retired(scratch, id) /\ hook' = Retiring(hook.todo \ {id})
        /\ UNCHANGED <<world, host, owed, forgot, expired>>
    BY <1>2 DEF retire_fact, At
  <2>2. hook \in FoldHook /\ hook.todo \subseteq DOMAIN notes
    BY <1>0, <2>1, HookByPc DEF Folding, FoldPcs, HooksInv, FoldInv, FactsInHand, At
  <2>3. /\ NotesKept /\ DOMAIN notes' = DOMAIN notes /\ ~notes'[id].live
        /\ \A i \in DOMAIN notes : notes'[i].live => notes[i].live
    BY <1>0, <1>2, <2>1, Archived DEF NotesKept
  <2>4. PICK ids \in SUBSET DOMAIN notes : ids = hook.todo \ {id}
    BY <2>2
  <2>5. /\ hook' \in FoldHook /\ hook'.pc = IF ids = {} THEN "summary" ELSE "retire"
        /\ hook'.todo = ids /\ hook'.data = hook.data /\ hook'.connected = hook.connected
        /\ hook'.content = hook.content /\ hook'.clean = hook.clean
    BY <1>0, <2>1, <2>2, <2>4, Moves
  <2>6. /\ scratch' \in ScratchType /\ scratch'.obs = scratch.obs /\ scratch'.prior = scratch.prior
        /\ scratch'.ledger = scratch.ledger /\ scratch'.known = scratch.known
        /\ scratch'.unknown = scratch.unknown
        /\ \A f \in scratch'.facts : \E g \in scratch.facts :
               f.ev = g.ev /\ f.id = g.id /\ f.retired = (g.retired \/ g.id = id)
    BY <1>0, <2>1, RetireMoves
  <2>7. \A f \in scratch'.facts : f.id \in DOMAIN notes /\ (f.retired => ~notes'[f.id].live)
    <3>1. SUFFICES ASSUME NEW f \in scratch'.facts
                   PROVE  f.id \in DOMAIN notes /\ (f.retired => ~notes'[f.id].live)
      OBVIOUS
    <3>2. PICK g \in scratch.facts : f.id = g.id /\ f.retired = (g.retired \/ g.id = id)
      BY <2>6
    <3>3. QED BY <1>0, <2>3, <3>2
  <2>8. hook.clean => \A f, g \in scratch'.facts : corrects(g, f.ev) /\ ~f.retired => f.id \in ids
    <3>1. SUFFICES ASSUME hook.clean, NEW f \in scratch'.facts, NEW g \in scratch'.facts,
                          corrects(g, f.ev), ~f.retired
                   PROVE  f.id \in ids
      OBVIOUS
    <3>2. PICK fo \in scratch.facts :
              f.ev = fo.ev /\ f.id = fo.id /\ f.retired = (fo.retired \/ fo.id = id)
      BY <2>6
    <3>3. PICK go \in scratch.facts : g.ev = go.ev
      BY <2>6
    <3>4. corrects(go, fo.ev) /\ ~fo.retired /\ fo.id # id
      BY <3>1, <3>2, <3>3 DEF corrects
    <3>5. fo.id \in hook.todo
      BY <2>1, <3>1, <3>4 DEF HooksInv, FoldInv, RetirementCovers, At
    <3>6. QED BY <2>4, <3>2, <3>4, <3>5
  <2>9. QED BY <1>0, <2>1, <2>3, <2>5, <2>6, <2>7, <2>8, RetireLoop
<1>3. ASSUME NEW id \in DOMAIN notes, NEW c \in BOOLEAN, retire_failed(id, c) PROVE HooksInv'
  <2>1. /\ hook.pc = "retire" /\ id \in hook.todo
        /\ notes' = notes \/ notes' = [notes EXCEPT ![id].live = FALSE]
        /\ hook' = [Retiring(hook.todo \ {id}) EXCEPT !.clean = FALSE]
        /\ UNCHANGED <<scratch, world, host, owed, forgot, expired>>
    BY <1>3 DEF retire_failed, At
  <2>2. hook \in FoldHook /\ hook.todo \subseteq DOMAIN notes
    BY <1>0, <2>1, HookByPc DEF Folding, FoldPcs, HooksInv, FoldInv, FactsInHand, At
  <2>3. /\ NotesKept /\ DOMAIN notes' = DOMAIN notes
        /\ \A i \in DOMAIN notes : notes'[i].live => notes[i].live
    <3>1. CASE notes' = notes
      BY <1>0, <3>1, NotesSame
    <3>2. CASE notes' = [notes EXCEPT ![id].live = FALSE]
      BY <1>0, <1>3, <3>2, Archived DEF NotesKept
    <3>3. QED BY <2>1, <3>1, <3>2
  <2>4. PICK ids \in SUBSET DOMAIN notes : ids = hook.todo \ {id}
    BY <2>2
  <2>5. /\ Retiring(ids) \in FoldHook
        /\ Retiring(ids).pc = IF ids = {} THEN "summary" ELSE "retire"
        /\ Retiring(ids).todo = ids /\ Retiring(ids).data = hook.data
        /\ Retiring(ids).connected = hook.connected /\ Retiring(ids).content = hook.content
    BY <1>0, <2>2, Moves
  <2>6. /\ hook' \in FoldHook /\ hook'.pc = IF ids = {} THEN "summary" ELSE "retire"
        /\ hook'.todo = ids /\ hook'.data = hook.data /\ hook'.connected = hook.connected
        /\ hook'.content = hook.content /\ hook'.clean = FALSE
    <3>1. hook' = [Retiring(ids) EXCEPT !.clean = FALSE]
      BY <2>1, <2>4
    <3>2. QED BY <2>5, <3>1 DEF FoldHook
  <2>7. \A f \in scratch'.facts : f.id \in DOMAIN notes /\ (f.retired => ~notes'[f.id].live)
    BY <1>0, <2>1, <2>3
  <2>8. QED BY <1>0, <2>1, <2>3, <2>6, <2>7, RetireLoop
<1>4. QED BY <1>1, <1>2, <1>3

\* A fold begins: the scratch is copied, and the facts come first where there is a
\* connection.
LEMMA FoldStarts ==
    ASSUME HooksInv, NEW mode \in {"end", "checkpoint"}, NEW window \in SUBSET DOMAIN Evidence,
           NEW other \in BOOLEAN, NEW connected \in BOOLEAN,
           fold_session_summary(mode, window, other, connected)
    PROVE  HooksInv'
<1>0. /\ Types /\ scratch \in ScratchType /\ hook = Idle /\ hook.pc = "idle"
      /\ DOMAIN Evidence \subseteq Nat
      /\ UNCHANGED <<scratch, notes, world, host, owed, forgot, expired>>
  <2>1. Types /\ scratch \in ScratchType
    BY DEF HooksInv, Types
  <2>2. hook = Idle /\ UNCHANGED <<scratch, notes, world, host, owed, forgot, expired>>
    BY DEF fold_session_summary
  <2>3. QED BY <2>1, <2>2, HooksAssumption, HookByPc DEF At
<1>1. NotesKept
  BY <1>0, NotesSame
<1> DEFINE kept == {e \in window : ~\E f \in scratch.facts : corrects(f, e)}
           data == [obs |-> scratch.obs, prior |-> scratch.prior]
           content == other \/ kept # {} \/ Listed(scratch.obs) # {}
<1>2. /\ kept \in SUBSET DOMAIN Evidence /\ data \in DataType /\ content \in BOOLEAN
      /\ data.obs = scratch.obs /\ data.prior = scratch.prior
      /\ ~content => Listed(scratch.obs) = {}
  BY <1>0 DEF DataType, ScratchType
<1>3. hook' = [pc |-> IF connected THEN "facts" ELSE "summary", mode |-> mode, data |-> data,
               connected |-> connected, todo |-> kept, id |-> None, clean |-> connected,
               content |-> content]
  BY DEF fold_session_summary
<1> HIDE DEF kept, data, content
<1>4. /\ hook' \in FoldHook /\ hook'.pc = (IF connected THEN "facts" ELSE "summary")
      /\ hook'.data = data /\ hook'.connected = connected /\ hook'.clean = connected
      /\ hook'.content = content /\ hook'.todo = kept
  BY <1>0, <1>2, <1>3 DEF FoldHook, FoldPcs, None
<1>5. Types'
  BY <1>0, <1>2, <1>4 DEF Types, At
<1>6. FoldFollowsScratch'
  BY <1>0, <1>2, <1>4 DEF FoldFollowsScratch
<1>7. SummaryInHand' /\ CleanFoldCovers' /\ RetirementCovers'
  BY <1>4 DEF SummaryInHand, CleanFoldCovers, RetirementCovers, At
<1>8. FactsInHand'
  BY <1>0, <1>1, <1>4, KeepFacts DEF FactsInHand, At
<1>9. SummaryKnown'
  BY <1>0, <1>1, <1>4, KeepSummary DEF At
<1>10. ObservationsKept' /\ PromptFollowsScratch' /\ HostFollowed'
  BY <1>0, <1>1, <1>4, KeepObservations, KeepPreviews
<1>11. QED BY <1>5, <1>6, <1>7, <1>8, <1>9, <1>10 DEF HooksInv, FoldInv

\* The summary is stored: it replaces the one the scratch names.
LEMMA SummaryStored ==
    ASSUME HooksInv, NEW dups \in SUBSET DOMAIN notes, store_session_summary(dups)
    PROVE  HooksInv'
<1>0. /\ Types /\ scratch \in ScratchType /\ notes \in Seq(NoteType)
      /\ hook.pc = "summary" /\ hook.content /\ hook.connected
      /\ ~Refuses(hook.data.prior) /\ dups \subseteq Equivalents("summary", Listed(hook.data.obs))
      /\ notes' = Remembered("summary", Listed(hook.data.obs), hook.data.prior, dups)
      /\ hook' = [hook EXCEPT !.pc = "summary_stored", !.id = Survivor(dups)]
      /\ UNCHANGED <<scratch, world, host, owed, forgot, expired>>
  BY DEF HooksInv, Types, store_session_summary, At
<1>1. hook \in FoldHook
  BY <1>0, HookByPc DEF Folding, FoldPcs
<1>2. /\ hook.data.prior = scratch.prior /\ hook.data.obs = scratch.obs
      /\ hook.clean => hook.connected
      /\ Listed(hook.data.obs) \in Abouts
  BY <1>0, <1>1
  DEF HooksInv, FoldInv, FoldFollowsScratch, Folding, FoldPcs, Abouts, ScratchType
<1>3. PICK about \in Abouts : about = Listed(hook.data.obs)
  BY <1>2
<1>a. PICK prior : prior = hook.data.prior
  OBVIOUS
<1>4. Grown(notes', "summary", about, prior, dups)
  BY <1>0, <1>3, <1>a, RememberedNotes
<1>5. NotesKept
  BY <1>4 DEF Grown, NotesKept
<1>6. /\ Survivor(dups) \in Nat
      /\ Curated(dups) = {} => Survivor(dups) = Len(notes) + 1
      /\ Curated(dups) # {} => Survivor(dups) \in Curated(dups)
  BY <1>0, SurvivorIs
<1>7. /\ hook' \in FoldHook /\ hook'.pc = "summary_stored" /\ hook'.data = hook.data
      /\ hook'.connected = hook.connected /\ hook'.content = hook.content
      /\ hook'.clean = hook.clean /\ hook'.todo = hook.todo /\ hook'.id = Survivor(dups)
  BY <1>0, <1>1, <1>6 DEF FoldHook, FoldPcs
<1>8. \A i \in Curated(dups) : /\ i \in DOMAIN notes /\ notes[i].live /\ notes[i].kind = "summary"
                               /\ notes[i].about = about /\ i # prior /\ i \in dups
  BY <1>0, <1>3, <1>a DEF Curated, Equivalents, LiveNotes, Refuses, None
<1>9. SummaryInHand'
  <2>1. CASE Curated(dups) = {}
    BY <1>3, <1>4, <1>6, <1>7, <2>1 DEF SummaryInHand, At, Grown, LiveNotes
  <2>2. CASE Curated(dups) # {}
    <3>1. Survivor(dups) \in Curated(dups)
      BY <1>6, <2>2
    <3>2. /\ Survivor(dups) \in DOMAIN notes' /\ notes'[Survivor(dups)].live
          /\ notes'[Survivor(dups)].kind = "summary" /\ notes'[Survivor(dups)].about = about
      BY <1>4, <1>8, <3>1 DEF Grown
    <3>3. QED BY <1>3, <1>7, <3>2 DEF SummaryInHand, At, LiveNotes
  <2>3. QED BY <2>1, <2>2
<1>10. Types'
  BY <1>0, <1>5, <1>7 DEF Types, NotesKept, At
<1>11. FoldFollowsScratch'
  BY <1>0, <1>1, <1>2, <1>7 DEF HooksInv, FoldInv, FoldFollowsScratch, Folding, FoldPcs
<1>12. FactsInHand'
  BY <1>0, <1>5, <1>7, KeepFacts DEF FactsInHand, At
<1>13. RetirementCovers'
  <2>1. hook.clean => \A f, g \in scratch.facts : corrects(g, f.ev) => f.id \notin LiveNotes
    BY <1>0 DEF HooksInv, FoldInv, RetirementCovers
  <2>2. \A f \in scratch.facts : f.id \in DOMAIN notes
    BY DEF HooksInv, FoldInv, FactsInHand
  <2>3. \A i \in DOMAIN notes : i \notin LiveNotes => i \notin LiveNotes'
    BY <1>5 DEF NotesKept, LiveNotes
  <2>4. QED BY <1>0, <1>7, <2>1, <2>2, <2>3 DEF RetirementCovers, At
<1>14. SummaryKnown'
  <2>1. SUFFICES ASSUME ~forgot, NEW i \in LiveNotes', notes'[i].kind = "summary"
                 PROVE  i = hook'.id
    BY <1>0, <1>7 DEF SummaryKnown, KnownSummary, At
  <2>2. i \notin DOMAIN notes
    <3>1. SUFFICES ASSUME i \in DOMAIN notes PROVE FALSE
      OBVIOUS
    <3>2. notes[i].live /\ notes[i].kind = "summary" /\ i # prior
      BY <1>4, <2>1, <3>1 DEF Grown, LiveNotes
    <3>3. i = scratch.prior
      BY <1>0, <2>1, <3>1, <3>2 DEF HooksInv, SummaryKnown, KnownSummary, At, LiveNotes
    <3>4. QED BY <1>2, <1>a, <3>2, <3>3
  <2>3. i = Len(notes) + 1 /\ Curated(dups) = {}
    BY <1>4, <2>1, <2>2 DEF Grown, LiveNotes
  <2>4. QED BY <1>6, <1>7, <2>3
<1>15. CleanFoldCovers'
  BY <1>7 DEF CleanFoldCovers, At
<1>16. ObservationsKept' /\ PromptFollowsScratch' /\ HostFollowed'
  BY <1>0, <1>5, <1>7, KeepObservations, KeepPreviews
<1>17. QED
  BY <1>9, <1>10, <1>11, <1>12, <1>13, <1>14, <1>15, <1>16 DEF HooksInv, FoldInv

\* The fold is done, with a summary or without.
LEMMA FoldDone ==
    ASSUME HooksInv, hook.pc \in {"summary", "summary_stored"},
           hook' \in FoldHook, hook'.pc = "done", hook'.data = hook.data,
           hook'.connected = hook.connected, hook'.content = hook.content,
           hook'.clean => hook.clean, UNCHANGED <<notes, world, host, expired>>,
           scratch' \in ScratchType, scratch'.facts = scratch.facts,
           scratch'.ledger = scratch.ledger, scratch'.known = scratch.known,
           scratch'.unknown = scratch.unknown, forgot' \in BOOLEAN,
           SummaryKnown', ObservationsKept', CleanFoldCovers'
    PROVE  HooksInv'
<1>1. NotesKept
  BY NotesSame DEF HooksInv
<1>2. Types'
  BY DEF HooksInv, Types, At
<1>3. FoldFollowsScratch'
  BY DEF HooksInv, FoldInv, FoldFollowsScratch, Folding, FoldPcs
<1>4. SummaryInHand'
  BY DEF SummaryInHand, At
<1>5. FactsInHand'
  BY <1>1, KeepFacts DEF FactsInHand, At
<1>6. RetirementCovers'
  BY DEF HooksInv, FoldInv, RetirementCovers, At, LiveNotes
<1>7. PromptFollowsScratch' /\ HostFollowed'
  BY KeepPreviews
<1>8. QED BY <1>2, <1>3, <1>4, <1>5, <1>6, <1>7 DEF HooksInv, FoldInv

LEMMA FoldEnds ==
    ASSUME HooksInv,
           \/ no_summary \/ disconnected \/ summary_failed \/ summary_refused
           \/ summary_answered \/ summary_unanswered
    PROVE  HooksInv'
<1>0. /\ Types /\ scratch \in ScratchType /\ notes \in Seq(NoteType) /\ forgot \in BOOLEAN
  BY DEF HooksInv, Types
<1>1. hook.pc \in {"summary", "summary_stored"} /\ UNCHANGED <<notes, world, host, expired>>
  BY DEF no_summary, disconnected, summary_failed, summary_refused, summary_answered,
         summary_unanswered, At
<1>2. hook \in FoldHook /\ NotesKept
  BY <1>0, <1>1, HookByPc, NotesSame DEF Folding, FoldPcs
<1>3. /\ hook.data.prior = scratch.prior /\ hook.data.obs = scratch.obs
      /\ hook.clean => hook.connected
      /\ ~hook.content => Listed(hook.data.obs) = {}
      /\ hook.id \in Nat /\ scratch.prior \in Nat
  BY <1>0, <1>1, <1>2
  DEF HooksInv, FoldInv, FoldFollowsScratch, Folding, FoldPcs, FoldHook, ScratchType
<1>4. /\ Done \in FoldHook /\ Done.pc = "done" /\ Done.data = hook.data /\ Done.clean = hook.clean
      /\ Done.connected = hook.connected /\ Done.content = hook.content
  BY <1>2, Moves
<1>5. LET unclean == [Done EXCEPT !.clean = FALSE]
      IN  /\ unclean \in FoldHook /\ unclean.pc = "done" /\ unclean.data = hook.data
          /\ unclean.clean = FALSE /\ unclean.connected = hook.connected
          /\ unclean.content = hook.content
  BY <1>4 DEF FoldHook
<1>6. \A o : Stored(o)' <=> Stored(o)
  BY <1>1 DEF Stored
<1>7. CASE UNCHANGED <<scratch, owed, forgot>> /\ hook.pc = "summary" /\ (hook' = Done \/ hook' = [Done EXCEPT !.clean = FALSE])
             /\ (~hook'.clean \/ Refuses(hook.data.prior))
  <2>1. /\ hook' \in FoldHook /\ hook'.pc = "done" /\ hook'.data = hook.data
        /\ hook'.connected = hook.connected /\ hook'.content = hook.content
        /\ hook'.clean => hook.clean
    BY <1>4, <1>5, <1>7
  <2>2. SummaryKnown' /\ ObservationsKept'
    BY <1>2, <1>7, <2>1, <1>1, KeepSummary, KeepObservations DEF At
  <2>3. CleanFoldCovers'
    BY <1>1, <1>7, <2>1 DEF CleanFoldCovers, Refuses
  <2>4. QED BY <1>0, <1>1, <1>7, <2>1, <2>2, <2>3, FoldDone
<1>8. CASE disconnected \/ summary_failed \/ summary_refused
  <2>1. disconnected => ~hook.clean
    BY <1>3 DEF disconnected
  <2>2. QED BY <1>4, <1>5, <1>7, <1>8, <2>1 DEF disconnected, summary_failed, summary_refused, At
<1>9. CASE no_summary
  <2>1. /\ hook.pc = "summary" /\ ~hook.content /\ hook' = Done /\ forgot' = forgot
        /\ \/ scratch' = mark_folded(scratch, scratch.prior) /\ owed' = owed \ Elided
           \/ UNCHANGED <<scratch, owed>>
    BY <1>3, <1>9 DEF no_summary, At
  <2>2. /\ scratch' \in ScratchType /\ scratch'.facts = scratch.facts /\ scratch'.prior = scratch.prior
        /\ scratch'.ledger = scratch.ledger /\ scratch'.known = scratch.known
        /\ scratch'.unknown = scratch.unknown
    <3>1. PICK id \in Nat : id = scratch.prior
      BY <1>3
    <3>2. scratch' = scratch \/ scratch' = mark_folded(scratch, id)
      BY <2>1, <3>1
    <3>3. scratch' = scratch \/ PriorSet(scratch', scratch, id)
      BY <1>0, <3>2, ScratchMoves
    <3>4. QED BY <1>0, <3>1, <3>3 DEF PriorSet
  <2>3. SummaryKnown'
    BY <1>1, <1>2, <1>4, <2>1, <2>2, KeepSummary DEF At
  <2>4. ObservationsKept'
    <3>1. CASE owed' = owed \ Elided
      <4>1. owed' = owed \ ToSet(scratch.obs)
        BY <1>3, <2>1, <3>1 DEF Elided
      <4>2. QED BY <1>6, <4>1 DEF HooksInv, ObservationsKept
    <3>2. CASE UNCHANGED <<scratch, owed>>
      BY <1>2, <3>2, KeepObservations
    <3>3. QED BY <2>1, <3>1, <3>2
  <2>5. CleanFoldCovers'
    BY <1>4, <2>1 DEF CleanFoldCovers
  <2>6. QED BY <1>0, <1>1, <1>4, <2>1, <2>2, <2>3, <2>4, <2>5, FoldDone
<1>10. CASE summary_answered
  <2>1. /\ hook.pc = "summary_stored" /\ hook' = Done /\ forgot' = forgot
        /\ \/ scratch' = mark_folded(scratch, hook.id) /\ owed' = owed \ Elided
           \/ scratch' = mark_checkpointed(scratch, hook.id) /\ owed' = owed
    BY <1>10 DEF summary_answered, At
  <2>2. /\ hook.id \in LiveNotes /\ notes[hook.id].kind = "summary"
        /\ notes[hook.id].about = Listed(hook.data.obs)
    BY <2>1 DEF HooksInv, FoldInv, SummaryInHand, At
  <2>3. \A o \in Listed(hook.data.obs) : Stored(o)
    BY <2>2 DEF Stored, LiveNotes
  <2>4. PICK id \in Nat : id = hook.id
    BY <1>3
  <2>5. /\ scratch' \in ScratchType /\ scratch'.facts = scratch.facts /\ scratch'.prior = hook.id
        /\ scratch'.ledger = scratch.ledger /\ scratch'.known = scratch.known
        /\ scratch'.unknown = scratch.unknown
    <3>1. scratch' = mark_checkpointed(scratch, id) \/ scratch' = mark_folded(scratch, id)
      BY <2>1, <2>4
    <3>2. PriorSet(scratch', scratch, id)
      BY <1>0, <3>1, ScratchMoves
    <3>3. QED BY <2>4, <3>2 DEF PriorSet
  <2>6. SummaryKnown'
    <3>1. KnownSummary' = hook.id /\ KnownSummary = hook.id
      BY <1>4, <2>1, <2>5 DEF KnownSummary, At
    <3>2. QED BY <1>1, <2>1, <3>1 DEF HooksInv, SummaryKnown, LiveNotes
  <2>7. ObservationsKept'
    <3>1. CASE owed' = owed \ Elided
      BY <1>6, <2>3, <3>1 DEF HooksInv, ObservationsKept, Elided
    <3>2. CASE scratch' = mark_checkpointed(scratch, hook.id) /\ owed' = owed
      <4>1. scratch' = mark_checkpointed(scratch, id)
        BY <2>4, <3>2
      <4>2. scratch'.obs = scratch.obs
        BY <1>0, <4>1, ScratchMoves
      <4>3. QED BY <1>2, <3>2, <4>2, KeepObservations
    <3>3. QED BY <2>1, <3>1, <3>2
  <2>8. CleanFoldCovers'
    <3>1. scratch'.prior \in LiveNotes'
      BY <1>1, <2>2, <2>5 DEF LiveNotes
    <3>2. \A o \in Listed(hook'.data.obs) : Stored(o)'
      BY <1>4, <1>6, <2>1, <2>3
    <3>3. QED BY <3>1, <3>2 DEF CleanFoldCovers
  <2>9. QED BY <1>0, <1>1, <1>4, <2>1, <2>5, <2>6, <2>7, <2>8, FoldDone
<1>11. CASE summary_unanswered
  <2>1. /\ hook' = [Done EXCEPT !.clean = FALSE] /\ forgot' = TRUE /\ UNCHANGED <<scratch, owed>>
    BY <1>11 DEF summary_unanswered
  <2>2. ObservationsKept'
    BY <1>2, <2>1, KeepObservations
  <2>3. SummaryKnown' /\ CleanFoldCovers'
    BY <1>5, <2>1 DEF SummaryKnown, CleanFoldCovers
  <2>4. QED BY <1>0, <1>1, <1>5, <2>1, <2>2, <2>3, FoldDone
<1>12. QED BY <1>8, <1>9, <1>10, <1>11

\* The process ends, with its work done or cut off.
LEMMA ProcessEnds ==
    ASSUME HooksInv, capture_timeout \/ exit
    PROVE  HooksInv'
<1>0. /\ hook' = Idle /\ UNCHANGED <<scratch, notes, world, host, owed, expired>>
      /\ Types /\ forgot \in BOOLEAN
  BY DEF HooksInv, Types, capture_timeout, exit
<1>1. hook'.pc = "idle" /\ NotesKept /\ forgot' \in BOOLEAN /\ (forgot => forgot')
  BY <1>0, NotesSame DEF Idle, capture_timeout, exit
<1>2. Types'
  BY <1>0, <1>1 DEF Types, At
<1>3. FoldFollowsScratch' /\ SummaryInHand' /\ RetirementCovers' /\ CleanFoldCovers'
  BY <1>1 DEF FoldFollowsScratch, Folding, FoldPcs, SummaryInHand, RetirementCovers, CleanFoldCovers, At
<1>4. FactsInHand'
  BY <1>0, <1>1, KeepFacts DEF FactsInHand, At
<1>5. SummaryKnown'
  <2>1. CASE hook.pc = "summary_stored"
    BY <2>1 DEF capture_timeout, exit, SummaryKnown, At
  <2>2. CASE hook.pc # "summary_stored"
    BY <1>0, <1>1, <2>2, KeepSummary DEF At
  <2>3. QED BY <2>1, <2>2
<1>6. ObservationsKept' /\ PromptFollowsScratch' /\ HostFollowed'
  BY <1>0, <1>1, KeepObservations, KeepPreviews
<1>7. QED BY <1>2, <1>3, <1>4, <1>5, <1>6 DEF HooksInv, FoldInv

-----------------------------------------------------------------------------
(* Tool events, people and previews *)

\* A step outside a fold
LEMMA Outside ==
    ASSUME HooksInv, Types', NotesKept, DOMAIN notes' = DOMAIN notes,
           hook.pc \in {"idle", "prompt", "prepare"}, hook'.pc \in {"idle", "prompt", "prepare"},
           scratch'.facts \subseteq scratch.facts,
           scratch'.prior = scratch.prior \/ forgot', forgot => forgot',
           ObservationsKept', PromptFollowsScratch', HostFollowed'
    PROVE  HooksInv'
<1>1. FoldFollowsScratch' /\ SummaryInHand' /\ RetirementCovers' /\ CleanFoldCovers'
  BY DEF FoldFollowsScratch, Folding, FoldPcs, SummaryInHand, RetirementCovers, CleanFoldCovers, At
<1>2. FactsInHand'
  BY KeepFacts DEF FactsInHand, At
<1>3. SummaryKnown'
  <2>1. CASE forgot'
    BY <2>1 DEF SummaryKnown
  <2>2. CASE scratch'.prior = scratch.prior
    BY <2>2, KeepSummary DEF At
  <2>3. QED BY <2>1, <2>2
<1>4. QED BY <1>1, <1>2, <1>3 DEF HooksInv, FoldInv

LEMMA AppendedTo ==
    ASSUME NEW list \in Seq(Observations), NEW o \in Observations
    PROVE  /\ Appended(list, o) \in Seq(Observations)
           /\ ToSet(list) \subseteq ToSet(Appended(list, o))
<1>1. CASE o \in ToSet(list) \/ Len(list) >= Cap
  BY <1>1 DEF Appended
<1>2. CASE ~(o \in ToSet(list) \/ Len(list) >= Cap)
  <2>1. Appended(list, o) = Append(list, o)
    BY <1>2 DEF Appended
  <2>2. /\ Append(list, o) \in Seq(Observations)
        /\ \A i \in DOMAIN list : i \in DOMAIN Append(list, o) /\ Append(list, o)[i] = list[i]
    OBVIOUS
  <2>3. ToSet(list) \subseteq ToSet(Append(list, o))
    BY <2>2 DEF ToSet
  <2>4. QED BY <2>1, <2>2, <2>3
<1>3. QED BY <1>1, <1>2

LEMMA ToolUsed ==
    ASSUME HooksInv, NEW o \in Observations, post_tool_use(o)
    PROVE  HooksInv'
<1>0. /\ Types /\ scratch \in ScratchType /\ scratch.obs \in Seq(Observations)
      /\ hook = Idle /\ hook.pc = "idle" /\ hook' = Idle /\ hook'.pc = "idle"
      /\ UNCHANGED <<notes, hook, world, host, forgot, expired>>
  BY DEF HooksInv, Types, post_tool_use, Idle, ScratchType
<1>1. NotesKept
  BY <1>0, NotesSame
<1>2. PICK list : list = Appended(scratch.obs, o)
  OBVIOUS
<1>3. list \in Seq(Observations) /\ ToSet(scratch.obs) \subseteq ToSet(list)
  BY <1>0, <1>2, AppendedTo
<1>4. scratch' = [scratch EXCEPT !.obs = list]
  BY <1>2 DEF post_tool_use
<1>5. /\ scratch' \in ScratchType /\ scratch'.obs = list /\ scratch'.facts = scratch.facts
      /\ scratch'.prior = scratch.prior /\ scratch'.ledger = scratch.ledger
      /\ scratch'.known = scratch.known /\ scratch'.unknown = scratch.unknown
  BY <1>0, <1>3, <1>4 DEF ScratchType
<1>6. Types'
  BY <1>0, <1>5 DEF Types, At
<1>7. ObservationsKept'
  <2>1. owed' = owed \cup ToSet(list)
    BY <1>5 DEF post_tool_use
  <2>2. \A x : Stored(x) => Stored(x)'
    BY <1>0 DEF Stored
  <2>3. QED BY <1>3, <1>5, <2>1, <2>2 DEF HooksInv, ObservationsKept
<1>8. PromptFollowsScratch' /\ HostFollowed'
  BY <1>0, <1>5, KeepPreviews
<1>9. QED BY <1>0, <1>1, <1>5, <1>6, <1>7, <1>8, Outside

LEMMA Curating ==
    ASSUME HooksInv, NEW i \in DOMAIN notes, curate(i)
    PROVE  HooksInv'
<1>0. /\ Types /\ notes \in Seq(NoteType) /\ hook.pc = "idle" /\ hook'.pc = "idle"
      /\ notes' = [notes EXCEPT ![i].curated = TRUE]
      /\ UNCHANGED <<scratch, hook, world, host, owed, forgot, expired>>
  BY DEF HooksInv, Types, curate, Idle
<1>1. \A k \in DOMAIN notes : notes[k] \in NoteType
  BY <1>0
<1> DEFINE row == [notes[i] EXCEPT !.curated = TRUE]
<1>2. /\ row \in NoteType /\ row.kind = notes[i].kind /\ row.about = notes[i].about
      /\ row.live = notes[i].live /\ row.curated = TRUE
  BY <1>1 DEF NoteType
<1>3. notes' = [notes EXCEPT ![i] = row]
  BY <1>0
<1> HIDE DEF row
<1>4. /\ notes' \in Seq(NoteType) /\ DOMAIN notes' = DOMAIN notes
      /\ \A k \in DOMAIN notes : notes'[k] = IF k = i THEN row ELSE notes[k]
  <2>1. notes \in Seq(NoteType) /\ row \in NoteType
    BY <1>0, <1>2
  <2>2. /\ [notes EXCEPT ![i] = row] \in Seq(NoteType)
        /\ DOMAIN [notes EXCEPT ![i] = row] = DOMAIN notes
    BY ONLY <2>1, i \in DOMAIN notes
  <2>3. \A k \in DOMAIN notes : [notes EXCEPT ![i] = row][k] = IF k = i THEN row ELSE notes[k]
    BY ONLY TRUE
  <2>4. QED BY ONLY <1>3, <2>2, <2>3
<1>5. NotesKept
  BY <1>2, <1>4 DEF NotesKept
<1>6. Types'
  BY <1>0, <1>4 DEF Types, At
<1>7. ObservationsKept' /\ PromptFollowsScratch' /\ HostFollowed'
  BY <1>0, <1>5, KeepObservations, KeepPreviews
<1>8. QED BY <1>0, <1>4, <1>5, <1>6, <1>7, Outside

LEMMA Pruning ==
    ASSUME HooksInv, prune_stale
    PROVE  HooksInv'
<1>0. /\ Types /\ hook.pc = "idle" /\ hook'.pc = "idle" /\ scratch' = Fresh /\ forgot' = TRUE
      /\ owed' = owed \ ToSet(scratch.obs) /\ expired' = (expired \/ host # Untold)
      /\ expired \in BOOLEAN /\ UNCHANGED <<notes, hook, world, host>>
  BY DEF HooksInv, Types, prune_stale, Idle
<1>1. NotesKept
  BY <1>0, NotesSame
<1>2. Types'
  BY <1>0, FreshScratch DEF Types, At
<1>3. ObservationsKept'
  <2>1. \A x : Stored(x) => Stored(x)'
    BY <1>0 DEF Stored
  <2>2. QED BY <1>0, <2>1 DEF HooksInv, ObservationsKept
<1>4. PromptFollowsScratch'
  BY <1>0 DEF PromptFollowsScratch, Prompting
<1>5. HostFollowed'
  BY <1>0, FreshScratch DEF HostFollowed, Untold
<1>6. QED BY <1>0, <1>1, <1>2, <1>3, <1>4, <1>5, FreshScratch, Outside

\* Records are states of the project.
LEMMA LedgerStates ==
    ASSUME NEW state \in States, NEW entries \in States, NEW cap
    PROVE  Record(state, cap) \in States /\ Corrected(entries, state) \in States
  BY DEF Record, Corrected, States

LEMMA PreviewSteps ==
    ASSUME HooksInv,
           \/ \E m \in Memories, v \in Fingerprints \cup {None} : edit(m, v)
           \/ session_resume
           \/ \E b \in BOOLEAN : session_start(b) \/ prompt(b) \/ prompt_context(b)
           \/ session_start_unrecorded
    PROVE  HooksInv'
<1>0. /\ Types /\ scratch \in ScratchType /\ world \in States /\ host \in States
      /\ scratch.ledger \in States /\ expired \in BOOLEAN /\ Untold \in States
      /\ \A m \in Memories : Untold[m] = None
  BY FreshScratch DEF HooksInv, Types, ScratchType
<1>1. UNCHANGED <<notes, owed, forgot>> /\ NotesKept
  BY <1>0, NotesSame
  DEF edit, session_resume, session_start, session_start_unrecorded, prompt, prompt_context
<1>2. ASSUME NEW m \in Memories, NEW v \in Fingerprints \cup {None}, edit(m, v) PROVE HooksInv'
  <2>1. /\ hook.pc \in {"idle", "prompt", "prepare"} /\ world' = [world EXCEPT ![m] = v]
        /\ UNCHANGED <<scratch, hook, host, expired>>
    BY <1>2 DEF edit
  <2>2. Types'
    BY <1>0, <1>1, <2>1 DEF Types, States, At
  <2>3. ObservationsKept'
    BY <1>1, <2>1, KeepObservations
  <2>4. PromptFollowsScratch' /\ HostFollowed'
    BY <2>1 DEF HooksInv, PromptFollowsScratch, HostFollowed, Prompting
  <2>5. QED BY <1>1, <2>1, <2>2, <2>3, <2>4, Outside
<1>3. CASE session_resume
  <2>1. /\ hook.pc = "idle" /\ hook'.pc = "idle" /\ scratch' = mark_resumed(scratch)
        /\ expired' = (expired /\ ~scratch'.unknown) /\ UNCHANGED <<hook, world, host>>
    BY <1>3 DEF session_resume, Idle
  <2>2. /\ scratch' \in ScratchType /\ scratch'.obs = scratch.obs /\ scratch'.prior = scratch.prior
        /\ scratch'.facts = scratch.facts /\ scratch'.ledger = scratch.ledger
        /\ scratch'.known = scratch.known /\ (scratch.unknown => scratch'.unknown)
    BY <1>0, <2>1, ContextMoves
  <2>3. Types'
    BY <1>0, <1>1, <2>1, <2>2 DEF Types, At
  <2>4. ObservationsKept'
    BY <1>1, <2>2, KeepObservations
  <2>5. PromptFollowsScratch' /\ HostFollowed'
    BY <2>1, <2>2 DEF HooksInv, PromptFollowsScratch, HostFollowed, Prompting
  <2>6. QED BY <1>1, <2>1, <2>2, <2>3, <2>4, <2>5, Outside
<1>4. ASSUME NEW b \in BOOLEAN, session_start(b) PROVE HooksInv'
  <2>1. /\ hook.pc = "idle" /\ hook'.pc = "idle" /\ expired' = FALSE /\ UNCHANGED <<hook, world>>
        /\ \/ /\ host' = Record(world, MaxStable)
              /\ scratch' = record_context(scratch, Record(world, MaxStable))
           \/ host' = Untold /\ scratch' = scratch
    BY <1>4 DEF session_start, Idle
  <2>2. PICK shown \in States : shown = Record(world, MaxStable)
    BY <1>0, LedgerStates
  <2>3. CASE host' = shown /\ scratch' = record_context(scratch, shown)
    <3>1. /\ scratch' \in ScratchType /\ scratch'.obs = scratch.obs /\ scratch'.prior = scratch.prior
          /\ scratch'.facts = scratch.facts /\ scratch'.ledger = shown /\ scratch'.known = TRUE
      BY <1>0, <2>2, <2>3, ContextMoves
    <3>2. Types'
      BY <1>0, <1>1, <2>1, <2>3, <3>1 DEF Types, At
    <3>3. ObservationsKept'
      BY <1>1, <3>1, KeepObservations
    <3>4. PromptFollowsScratch' /\ HostFollowed'
      BY <2>1, <2>3, <3>1 DEF PromptFollowsScratch, HostFollowed, Prompting
    <3>5. QED BY <1>1, <2>1, <3>1, <3>2, <3>3, <3>4, Outside
  <2>4. CASE host' = Untold /\ scratch' = scratch
    <3>1. Types'
      BY <1>0, <1>1, <2>1, <2>4 DEF Types, At
    <3>2. ObservationsKept'
      BY <1>1, <2>4, KeepObservations
    <3>3. PromptFollowsScratch' /\ HostFollowed'
      BY <1>0, <2>1, <2>4 DEF HooksInv, PromptFollowsScratch, HostFollowed, Prompting, Untold
    <3>4. QED BY <1>1, <2>1, <2>4, <3>1, <3>2, <3>3, Outside
  <2>5. QED BY <2>1, <2>2, <2>3, <2>4
<1>5. ASSUME NEW b \in BOOLEAN, prompt(b) PROVE HooksInv'
  <2>1. /\ hook.pc = "idle" /\ (b => ~scratch.known)
        /\ hook' = [pc |-> "prompt", startup |-> b, data |-> scratch]
        /\ UNCHANGED <<scratch, world, host, expired>>
    BY <1>5 DEF prompt, Idle
  <2>2. /\ hook' \in PromptHook /\ hook'.pc = "prompt" /\ hook'.startup = b /\ hook'.data = scratch
    BY <1>0, <2>1 DEF PromptHook
  <2>3. Types'
    BY <1>0, <1>1, <2>1, <2>2 DEF Types, At
  <2>4. ObservationsKept'
    BY <1>1, <2>1, KeepObservations
  <2>5. PromptFollowsScratch' /\ HostFollowed'
    BY <2>1, <2>2 DEF HooksInv, PromptFollowsScratch, HostFollowed, Prompting
  <2>6. QED BY <1>1, <2>1, <2>2, <2>3, <2>4, <2>5, Outside
<1>6. ASSUME NEW b \in BOOLEAN, prompt_context(b) PROVE HooksInv'
  <2>1. /\ hook.pc = "prompt" /\ UNCHANGED <<scratch, world, host, expired>>
        /\ hook' = [pc |-> "prepare", startup |-> hook.startup, data |-> hook.data,
                    answered |-> b, context |-> IF b THEN world ELSE Untold]
    BY <1>6 DEF prompt_context, At
  <2>2. hook \in PromptHook
    BY <1>0, <2>1, HookByPc DEF At
  <2>3. /\ hook' \in PrepareHook /\ hook'.pc = "prepare" /\ hook'.startup = hook.startup
        /\ hook'.data = hook.data
    BY <1>0, <2>1, <2>2 DEF PromptHook, PrepareHook
  <2>4. Types'
    BY <1>0, <1>1, <2>1, <2>3 DEF Types, At
  <2>5. ObservationsKept'
    BY <1>1, <2>1, KeepObservations
  <2>6. PromptFollowsScratch' /\ HostFollowed'
    BY <2>1, <2>3 DEF HooksInv, PromptFollowsScratch, HostFollowed, Prompting
  <2>7. QED BY <1>1, <2>1, <2>3, <2>4, <2>5, <2>6, Outside
<1>7. CASE session_start_unrecorded
  <2>1. /\ hook.pc = "idle" /\ hook'.pc = "idle" /\ UNCHANGED <<scratch, hook, world>>
        /\ host' = Record(world, MaxStable) /\ expired' = (host' # Untold)
    BY <1>7 DEF session_start_unrecorded, Idle
  <2>2. host' \in States
    BY <1>0, <2>1, LedgerStates
  <2>3. Types'
    BY <1>0, <1>1, <2>1, <2>2 DEF Types, At
  <2>4. ObservationsKept'
    BY <1>1, <2>1, KeepObservations
  <2>5. PromptFollowsScratch' /\ HostFollowed'
    BY <1>0, <2>1 DEF HooksInv, PromptFollowsScratch, HostFollowed, Prompting
  <2>6. QED BY <1>1, <2>1, <2>3, <2>4, <2>5, Outside
<1>8. QED BY <1>2, <1>3, <1>4, <1>5, <1>6, <1>7

\* The message: what it does not put in doubt is in the ledger it saves
LEMMA Preparing ==
    ASSUME HooksInv, prepare \/ prepare_unrecorded
    PROVE  HooksInv'
<1>0. /\ Types /\ scratch \in ScratchType /\ host \in States /\ scratch.ledger \in States
      /\ hook.pc = "prepare" /\ hook'.pc = "idle" /\ hook' = Idle
      /\ UNCHANGED <<notes, world, owed, forgot>> /\ expired \in BOOLEAN
  BY DEF HooksInv, Types, ScratchType, prepare, prepare_unrecorded, At, Idle
<1>1. /\ hook \in PrepareHook /\ hook.startup \in BOOLEAN /\ hook.answered \in BOOLEAN
      /\ hook.context \in States /\ hook.data = scratch /\ (hook.startup => ~scratch.known)
  <2>1. hook \in PrepareHook
    BY <1>0, HookByPc DEF At
  <2>2. hook.data = scratch /\ (hook.startup => ~scratch.known)
    BY <1>0 DEF HooksInv, PromptFollowsScratch, Prompting
  <2>3. QED BY <2>1, <2>2 DEF PrepareHook
<1>2. /\ scratch.known \in BOOLEAN /\ scratch.unknown \in BOOLEAN
      /\ ~scratch.known => scratch.ledger = Untold
      /\ ~expired => \A m \in Memories :
             host[m] # None => scratch.ledger[m] = host[m] \/ scratch.unknown
  BY <1>0 DEF HooksInv, HostFollowed, ScratchType
<1>3. NotesKept
  BY <1>0, NotesSame
<1>4. PICK D : D = Doubted
  OBVIOUS
<1>5. PICK doubted : doubted = [m \in Memories |-> IF m \in D THEN None ELSE host[m]]
  OBVIOUS
<1>6. PICK shown \in States : shown = Shown
  BY <1>1, LedgerStates, FreshScratch DEF Shown
<1>7. PICK kept \in States : kept = Kept
  BY <1>0, <1>1, LedgerStates DEF Kept
<1>8. /\ doubted \in States /\ \A m \in Memories : doubted[m] = IF m \in D THEN None ELSE host[m]
  BY <1>0, <1>5 DEF States
<1>9. scratch.unknown => D = Memories
  BY <1>1, <1>4 DEF Doubted
<1>10. \A m \in Memories : Untold[m] = None
  BY FreshScratch
<1>11. /\ host' \in States
       /\ \A m \in Memories : host'[m] = IF shown[m] # None THEN shown[m] ELSE doubted[m]
  <2>1. host' = [m \in Memories |-> IF shown[m] # None THEN shown[m]
                                    ELSE IF m \in D THEN None ELSE host[m]]
    BY <1>4, <1>6 DEF prepare, prepare_unrecorded, Prepared
  <2>2. QED BY <1>0, <1>8, <2>1 DEF States
<1>12. ~(hook.startup /\ hook.answered) => shown = Untold /\ \A m \in Memories : host'[m] = doubted[m]
  BY <1>6, <1>10, <1>11 DEF Shown
<1>13. CASE prepare /\ hook.startup /\ hook.answered
  <2>1. scratch' = record_context(scratch, shown) /\ expired' = expired
    BY <1>6, <1>13 DEF prepare
  <2>2. /\ scratch' \in ScratchType /\ scratch'.obs = scratch.obs /\ scratch'.prior = scratch.prior
        /\ scratch'.facts = scratch.facts /\ scratch'.ledger = shown /\ scratch'.known = TRUE
    BY <1>0, <2>1, ContextMoves
  <2>4. Types'
    BY <1>0, <1>3, <1>11, <2>1, <2>2 DEF Types, At, NotesKept
  <2>5. ObservationsKept' /\ PromptFollowsScratch'
    BY <1>0, <1>3, <2>2, KeepObservations DEF PromptFollowsScratch, Prompting
  <2>6. ~expired => \A m \in Memories : doubted[m] = None
    BY <1>1, <1>2, <1>8, <1>9, <1>10, <1>13
  <2>7. HostFollowed'
    BY <1>0, <1>11, <2>1, <2>2, <2>6 DEF HostFollowed
  <2>8. QED BY <1>0, <1>3, <2>2, <2>4, <2>5, <2>7, Outside
<1>14. CASE prepare_unrecorded \/ (prepare /\ hook.startup /\ ~hook.answered)
  <2>1. /\ scratch' = scratch /\ expired' \in BOOLEAN
        /\ ~expired' => ~expired /\ \A m \in Memories : host'[m] = doubted[m]
    BY <1>0, <1>6, <1>10, <1>14, <1>11, <1>12 DEF prepare, prepare_unrecorded
  <2>2. Types'
    BY <1>0, <1>3, <1>11, <2>1 DEF Types, At, NotesKept
  <2>3. ObservationsKept' /\ PromptFollowsScratch'
    BY <1>0, <1>3, <2>1, KeepObservations DEF PromptFollowsScratch, Prompting
  <2>4. HostFollowed'
    BY <1>0, <1>2, <1>8, <2>1 DEF HostFollowed, Untold
  <2>5. QED BY <1>0, <1>3, <2>1, <2>2, <2>3, <2>4, Outside
<1>15. CASE prepare /\ ~hook.startup
  <2>1. /\ scratch' = record_context(scratch, kept) /\ expired' = expired
        /\ \A m \in Memories : host'[m] = doubted[m]
    BY <1>7, <1>15, <1>12 DEF prepare
  <2>2. /\ scratch' \in ScratchType /\ scratch'.obs = scratch.obs /\ scratch'.prior = scratch.prior
        /\ scratch'.facts = scratch.facts /\ scratch'.ledger = kept /\ scratch'.known = TRUE
    BY <1>0, <2>1, ContextMoves
  <2>3. Types'
    BY <1>0, <1>3, <1>11, <2>1, <2>2 DEF Types, At, NotesKept
  <2>4. ObservationsKept' /\ PromptFollowsScratch'
    BY <1>0, <1>3, <2>2, KeepObservations DEF PromptFollowsScratch, Prompting
  <2>5. ~expired => \A m \in Memories : doubted[m] # None => kept[m] = doubted[m]
    <3>1. CASE scratch.unknown
      BY <1>8, <1>9, <3>1
    <3>2. CASE ~scratch.unknown /\ ~hook.answered
      <4>1. D = IF scratch.ledger # Untold THEN Memories ELSE {}
        BY <1>1, <1>4, <3>2 DEF Doubted
      <4>2. QED BY <1>2, <1>8, <1>10, <3>2, <4>1
    <3>3. CASE ~scratch.unknown /\ hook.answered
      <4>1. D = Changed(scratch.ledger, hook.context)
        BY <1>1, <1>4, <3>3 DEF Doubted
      <4>2. kept = Corrected(scratch.ledger, hook.context)
        BY <1>1, <1>7, <3>3 DEF Kept
      <4>3. \A m \in Memories : m \notin D => kept[m] = scratch.ledger[m]
        BY <1>0, <4>1, <4>2 DEF Corrected, States
      <4>4. QED BY <1>2, <1>8, <3>3, <4>3
    <3>4. QED BY <1>1, <1>2, <3>1, <3>2, <3>3
  <2>6. HostFollowed'
    BY <1>0, <2>1, <2>2, <2>5 DEF HostFollowed
  <2>7. QED BY <1>0, <1>3, <2>2, <2>3, <2>4, <2>6, Outside
<1>16. QED BY <1>1, <1>13, <1>14, <1>15

-----------------------------------------------------------------------------
(* The invariant, and the theorems *)

LEMMA HooksStarts == Init => HooksInv
<1> SUFFICES ASSUME Init PROVE HooksInv
  OBVIOUS
<1>1. /\ scratch = Fresh /\ notes = <<>> /\ hook = Idle /\ hook.pc = "idle" /\ world = Untold
      /\ host = Untold /\ owed = {} /\ forgot = FALSE /\ expired = FALSE
  BY DEF Init, Idle
<1>2. notes \in Seq(NoteType) /\ DOMAIN notes = {}
  BY <1>1
<1>3. Types
  BY <1>1, <1>2, FreshScratch DEF Types, At
<1>4. FoldInv /\ SummaryKnown /\ CleanFoldCovers
  BY <1>1, <1>2, FreshScratch
  DEF FoldInv, FoldFollowsScratch, SummaryInHand, FactsInHand, RetirementCovers, SummaryKnown,
      CleanFoldCovers, Folding, FoldPcs, At, LiveNotes
<1>5. ObservationsKept /\ PromptFollowsScratch /\ HostFollowed
  BY <1>1, FreshScratch DEF ObservationsKept, PromptFollowsScratch, Prompting, HostFollowed
<1>6. QED BY <1>3, <1>4, <1>5 DEF HooksInv

LEMMA HooksStep == HooksInv /\ [Next]_vars => HooksInv'
<1> SUFFICES ASSUME HooksInv, [Next]_vars PROVE HooksInv'
  OBVIOUS
<1>1. CASE Early
  BY <1>1, ToolUsed, Curating, PreviewSteps, Preparing DEF Early
<1>2. CASE Fold
  BY <1>2, FoldStarts, FactsSteps, SummaryStored, RetireSteps, FoldEnds, ProcessEnds DEF Fold
<1>3. CASE capture_timeout
  BY <1>3, ProcessEnds
<1>4. CASE prune_stale
  BY <1>4, Pruning
<1>5. CASE UNCHANGED vars
  BY <1>5
  DEF vars, HooksInv, Types, FoldInv, FoldFollowsScratch, SummaryInHand, FactsInHand,
      RetirementCovers, SummaryKnown, KnownSummary, ObservationsKept, Stored, CleanFoldCovers,
      PromptFollowsScratch, HostFollowed, Folding, Prompting, At, LiveNotes, Refuses
<1>6. QED BY <1>1, <1>2, <1>3, <1>4, <1>5 DEF Next

LEMMA HooksAlways == Spec => []HooksInv
  BY HooksStarts, HooksStep, PTL DEF Spec

\* Nothing a tool event recorded is lost to a crash, a timeout or a daemon that is down
\* (capture.rs, fold_session_summary): the scratch is reset only by a fold whose summary
\* lists what it held, and no stored summary is ever rewritten.
THEOREM NothingRecordedIsLost == Spec => []ObservationsKept
<1>1. HooksInv => ObservationsKept
  BY DEF HooksInv
<1>2. QED BY <1>1, HooksAlways, PTL

\* A fold in which no answer was lost or left unwritten has stored what it lists, and leaves the identity of
\* a live summary in the scratch, unless a person curated the one it would replace.
THEOREM CleanFoldIsComplete == Spec => []CleanFoldCovers
<1>1. HooksInv => CleanFoldCovers
  BY DEF HooksInv
<1>2. QED BY <1>1, HooksAlways, PTL

\* A session folded and resumed any number of times has one live summary, as long as no
\* answer was lost or left unwritten and the scratch was not removed: the live one is always the one the
\* scratch, or the answer on its way, names.
THEOREM SummariesDoNotPileUp == Spec => []OneLiveSummary
<1>1. HooksInv => OneLiveSummary
  <2> SUFFICES ASSUME HooksInv, ~forgot
               PROVE  Cardinality({i \in LiveNotes : notes[i].kind = "summary"}) <= 1
    BY DEF OneLiveSummary
  <2>1. PICK S : S = {i \in LiveNotes : notes[i].kind = "summary"}
    OBVIOUS
  <2>2. PICK k : k = KnownSummary
    OBVIOUS
  <2>3. S \subseteq {k}
    BY <2>1, <2>2 DEF HooksInv, SummaryKnown
  <2>4. IsFiniteSet({k}) /\ Cardinality({k}) = 1
    BY FS_Singleton
  <2>5. Cardinality(S) <= 1
    BY <2>3, <2>4, FS_Subset
  <2>6. QED BY <2>1, <2>5
<1>2. QED BY <1>1, HooksAlways, PTL

\* After a fold in which no answer was lost or left unwritten no fact that a stored correction covers is
\* live, whichever earlier fold left it so (store_confirmed_facts, its second loop).
THEOREM CoveredFactsAreRetired == Spec => []CorrectionsRetired
<1>1. HooksInv => CorrectionsRetired
  BY DEF HooksInv, FoldInv, RetirementCovers, CorrectionsRetired, At
<1>2. QED BY <1>1, HooksAlways, PTL

\* Between hooks, a preview in the conversation that is no longer current and that nothing
\* put in doubt is in the ledger the next prompt compares, whichever hooks were cancelled,
\* unless the scratch was removed or the record of a startup preview was not written.
THEOREM StalePreviewsAreTracked == Spec => []PreviewsTracked
<1>1. HooksInv => PreviewsTracked
  BY DEF HooksInv, HostFollowed, PreviewsTracked
<1>2. QED BY <1>1, HooksAlways, PTL

=============================================================================
