----------------------------- MODULE RecallProofs -----------------------------
(***************************************************************************)
(* Theorems about Recall and the pool under it, for every pool size, every *)
(* finite set of readers, any corpora and any number of writes.  A recall  *)
(* and a context are made of reads of different generations: the           *)
(* invariants say which generation vouches for what a task has in hand.    *)
(***************************************************************************)
EXTENDS Recall, FiniteSetTheorems, WellFoundedInduction, TLAPS

-----------------------------------------------------------------------------
(* The pool: a permit is worth a connection *)

\* The sets whose sizes the semaphore and the pool count
Counted ==
    /\ permits \in Nat /\ stores \in Nat
    /\ phase \in [Readers -> Phases]
    /\ Conserved
    /\ PermitMeansStore

\* Holders and Reading are finite, so that their cardinalities are natural numbers.
LEMMA CountsAreNatural ==
    /\ IsFiniteSet(Holders) /\ Cardinality(Holders) \in Nat
    /\ IsFiniteSet(Reading) /\ Cardinality(Reading) \in Nat
  <1>1. Holders \subseteq Readers /\ Reading \subseteq Readers
    BY DEF Holders, Reading
  <1> QED
    BY <1>1, PoolAssumption, FS_Subset, FS_CardinalityType

\* A reader about to take a connection holds a permit that no reader of a connection holds.
LEMMA SpawnedFindsStore ==
    ASSUME Counted, NEW r \in Readers, phase[r] = "spawned"
    PROVE  stores > 0
  <1>1. Reading \subseteq Holders \ {r}
    BY DEF Holders, Reading
  <1>2. r \in Holders
    BY DEF Holders
  <1>3. IsFiniteSet(Holders \ {r}) /\ Cardinality(Holders \ {r}) = Cardinality(Holders) - 1
    BY <1>2, CountsAreNatural, FS_RemoveElement
  <1>4. Cardinality(Reading) <= Cardinality(Holders \ {r})
    BY <1>1, <1>3, FS_Subset
  <1> QED
    BY <1>3, <1>4, CountsAreNatural, PoolAssumption DEF Counted, Conserved

\* A step that moves one reader out of both sets, into one of them or within them.
LEMMA CountsFollowReader ==
    ASSUME Counted, NEW r \in Readers, NEW label \in Phases, Goto(r, label)
    PROVE  /\ phase' \in [Readers -> Phases]
           /\ Holders' = IF label \in {"permitted", "spawned", "reading", "returned"}
                         THEN Holders \cup {r} ELSE Holders \ {r}
           /\ Reading' = IF label = "reading" THEN Reading \cup {r} ELSE Reading \ {r}
  <1>1. phase' = [phase EXCEPT ![r] = label] /\ phase \in [Readers -> Phases]
    BY DEF Goto, Counted
  <1> QED
    BY <1>1 DEF Holders, Reading

\* Every step keeps the counts: one case per action.
LEMMA CountsStep ==
    ASSUME Counted, Next
    PROVE  Counted'
  <1> PICK r \in Readers :
        \/ with_read(r) \/ acquire_owned(r) \/ cancel(r) \/ spawn_blocking(r)
        \/ take_store(r) \/ drop_guard(r) \/ drop_permit(r)
    BY DEF Next
  <1> DEFINE H == Cardinality(Holders)
             R == Cardinality(Reading)
  <1>a. /\ H \in Nat /\ R \in Nat
        /\ permits \in Nat /\ stores \in Nat /\ Size \in Nat
        /\ permits + H = Size /\ stores + R = Size
    BY CountsAreNatural, PoolAssumption DEF Counted, Conserved
  <1>b. /\ r \in Holders => Cardinality(Holders \cup {r}) = H /\ Cardinality(Holders \ {r}) = H - 1
        /\ r \notin Holders => Cardinality(Holders \cup {r}) = H + 1 /\ Cardinality(Holders \ {r}) = H
    BY CountsAreNatural, FS_AddElement, FS_RemoveElement
  <1>c. /\ r \in Reading => Cardinality(Reading \cup {r}) = R /\ Cardinality(Reading \ {r}) = R - 1
        /\ r \notin Reading => Cardinality(Reading \cup {r}) = R + 1 /\ Cardinality(Reading \ {r}) = R
    BY CountsAreNatural, FS_AddElement, FS_RemoveElement
  <1>d. /\ r \in Holders <=> phase[r] \in {"permitted", "spawned", "reading", "returned"}
        /\ r \in Reading <=> phase[r] = "reading"
    BY DEF Holders, Reading
  <1>e. \A label \in Phases :
            Goto(r, label) /\ label # "exhausted" => PermitMeansStore' /\ phase' \in [Readers -> Phases]
    BY DEF Goto, PermitMeansStore, Counted
  <1> HIDE DEF H, R
  <1>1. CASE with_read(r)
    <2>1. "waiting" \in Phases /\ Goto(r, "waiting")
      BY <1>1 DEF with_read, Phases
    <2>2. Holders' = Holders \ {r} /\ Reading' = Reading \ {r}
      BY <2>1, CountsFollowReader
    <2> QED
      BY <1>1, <1>a, <1>b, <1>c, <1>d, <1>e, <2>1, <2>2 DEF with_read, Counted, Conserved, H, R
  <1>2. CASE acquire_owned(r)
    <2>1. "permitted" \in Phases /\ Goto(r, "permitted")
      BY <1>2 DEF acquire_owned, Phases
    <2>2. Holders' = Holders \cup {r} /\ Reading' = Reading \ {r}
      BY <2>1, CountsFollowReader
    <2> QED
      BY <1>2, <1>a, <1>b, <1>c, <1>d, <1>e, <2>1, <2>2 DEF acquire_owned, Counted, Conserved, H, R
  <1>3. CASE cancel(r)
    <2>1. "idle" \in Phases /\ Goto(r, "idle")
      BY <1>3 DEF cancel, Phases
    <2>2. Holders' = Holders \ {r} /\ Reading' = Reading \ {r}
      BY <2>1, CountsFollowReader
    <2> QED
      BY <1>3, <1>a, <1>b, <1>c, <1>d, <1>e, <2>1, <2>2 DEF cancel, Counted, Conserved, H, R
  <1>4. CASE spawn_blocking(r)
    <2>1. "spawned" \in Phases /\ Goto(r, "spawned")
      BY <1>4 DEF spawn_blocking, Phases
    <2>2. Holders' = Holders \cup {r} /\ Reading' = Reading \ {r}
      BY <2>1, CountsFollowReader
    <2> QED
      BY <1>4, <1>a, <1>b, <1>c, <1>d, <1>e, <2>1, <2>2 DEF spawn_blocking, Counted, Conserved, H, R
  <1>5. CASE take_store(r)
    <2>0. stores > 0
      BY <1>5, SpawnedFindsStore DEF take_store
    <2>1. "reading" \in Phases /\ Goto(r, "reading") /\ stores' = stores - 1 /\ permits' = permits
      BY <1>5, <1>a, <2>0 DEF take_store, Phases
    <2>2. Holders' = Holders \cup {r} /\ Reading' = Reading \cup {r}
      BY <2>1, CountsFollowReader
    <2> QED
      BY <1>5, <1>a, <1>b, <1>c, <1>d, <1>e, <2>0, <2>1, <2>2 DEF take_store, Counted, Conserved, H, R
  <1>6. CASE drop_guard(r)
    <2>1. "returned" \in Phases /\ Goto(r, "returned")
      BY <1>6 DEF drop_guard, Phases
    <2>2. Holders' = Holders \cup {r} /\ Reading' = Reading \ {r}
      BY <2>1, CountsFollowReader
    <2> QED
      BY <1>6, <1>a, <1>b, <1>c, <1>d, <1>e, <2>1, <2>2 DEF drop_guard, Counted, Conserved, H, R
  <1>7. CASE drop_permit(r)
    <2>1. "idle" \in Phases /\ Goto(r, "idle")
      BY <1>7 DEF drop_permit, Phases
    <2>2. Holders' = Holders \ {r} /\ Reading' = Reading \ {r}
      BY <2>1, CountsFollowReader
    <2> QED
      BY <1>7, <1>a, <1>b, <1>c, <1>d, <1>e, <2>1, <2>2 DEF drop_permit, Counted, Conserved, H, R
  <1> QED
    BY <1>1, <1>2, <1>3, <1>4, <1>5, <1>6, <1>7

LEMMA CountsStart == Init => Counted
  <1> SUFFICES ASSUME Init PROVE Counted
    OBVIOUS
  <1>1. Holders = {} /\ Reading = {}
    BY DEF Init, Holders, Reading
  <1>2. Cardinality(Holders) = 0 /\ Cardinality(Reading) = 0
    BY <1>1, FS_EmptySet
  <1> QED
    BY <1>2, PoolAssumption DEF Init, Counted, Conserved, PermitMeansStore, Phases

\* The error "read pool exhausted despite permit" of with_read is never returned.
THEOREM PermitIsWorthAStore == Spec => []PermitMeansStore
  <1>1. Counted /\ [Next]_vars => Counted'
    <2>1. Counted /\ UNCHANGED vars => Counted'
      BY DEF Counted, Conserved, PermitMeansStore, Holders, Reading, vars
    <2> QED
      BY <2>1, CountsStep
  <1>2. Counted => PermitMeansStore
    BY DEF Counted
  <1> QED
    BY <1>1, <1>2, CountsStart, PTL DEF Spec

\* Every step of a recall, a context or a get is a step of the pool, or leaves it alone.
LEMMA PoolStep == [RecallNext]_allvars => [Next]_vars
<1> SUFFICES ASSUME [RecallNext]_allvars, ~UNCHANGED vars PROVE Next
  OBVIOUS
<1>1. PICK r \in Readers :
        \/ \E works \in BOOLEAN : annotate(r, works)
        \/ keyword(r) \/ vector(r) \/ probe_keyword(r) \/ probe_vector(r)
        \/ seed_contested(r) \/ seed(r) \/ graph(r)
        \/ get_many(r) \/ contested(r) \/ corpus_snapshot(r)
        \/ before(r) \/ list(r) \/ disputes(r) \/ after(r)
        \/ get_scoped(r) \/ contested_set(r)
        \/ pool(r) \/ aborted(r)
  BY DEF RecallNext, allvars, recall, embed, rank, context, get, Local, Writes, archive,
         memory_feedback_wrong, link_contradicts, unlink
<1>2. drop_guard(r) \/ pool(r) \/ aborted(r)
  BY <1>1 DEF annotate, keyword, vector, probe_keyword, probe_vector, seed_contested, seed, graph,
              get_many, contested, corpus_snapshot, before, list, disputes, after, get_scoped,
              contested_set, Reads
<1>3. QED BY <1>2 DEF Next, pool, aborted

\* The composite reads use the pool as StoreHandle means it to be used, so that what is
\* proved of the pool holds under them.
THEOREM RecallUsesThePool == RecallSpec => Spec
<1>1. RecallInit => Init
  BY DEF RecallInit
<1>2. QED BY <1>1, PoolStep, PTL DEF RecallSpec, Spec

-----------------------------------------------------------------------------
(* What a task has in hand *)

Fields == {"op", "pc", "filter", "mode", "degraded", "keyword", "vector", "tosee", "contested",
           "graph", "notes", "dropped", "results", "reason", "snapshot", "attempt", "started"}

\* Where a recall is before it ranks what the batch fetch let through, and the rest
SearchPcs == {"embed", "keyword", "vector", "probe_keyword", "probe_vector", "seed_contested",
              "seed", "graph", "get_many"}
KeptPcs == {"contested", "rank"}
AnswerPcs == {"snapshot", "annotate"}
ContextPcs == {"before", "list", "active_contradicts", "after"}

\* A generation since task t began vouches for memory m.
Vouched(t, cs, m) ==
    \E g \in t.started .. Len(cs) : matches(t.filter, cs[g][m]) /\ trusted(cs[g][m])

\* A recall: what the batch fetch kept and what the answer holds was vouched for.
RecallSound(t, cs) ==
    /\ t.pc \in SearchPcs \cup KeptPcs \cup AnswerPcs => t.op = "recall"
    /\ t.op = "recall" => t.started \in 1 .. Len(cs)
    /\ t.pc \in SearchPcs \cup KeptPcs => t.results = <<>>
    /\ t.pc \in KeptPcs => \A m \in DOMAIN t.notes : Vouched(t, cs, m)
    /\ t.pc \in AnswerPcs \cup {"done"} /\ t.op = "recall" =>
           \A m \in Range(t.results) : Vouched(t, cs, m)

EntriesOf(c) == {e.entry : e \in Project(c)}

\* A context: what it read is of the generation it noted, if that is still the present one.
ContextSound(t, cs) ==
    /\ t.pc \in ContextPcs => t.op = "context"
    /\ t.pc \in ContextPcs \ {"before"} => t.snapshot \in 1 .. Len(cs)
    /\ t.pc \in {"active_contradicts", "after"} /\ t.snapshot = Len(cs) =>
           t.graph = EntriesOf(cs[t.snapshot])
    /\ t.pc = "after" /\ t.snapshot = Len(cs) =>
           t.contested = active_contradicts(cs[t.snapshot]) \cap t.graph
    /\ t.pc = "done" /\ t.op = "context" /\ t.reason = "none" =>
           t.snapshot \in 1 .. Len(cs) /\ t.vector = Project(cs[t.snapshot])

Sound(t, cs) == DOMAIN t = Fields /\ RecallSound(t, cs) /\ ContextSound(t, cs)

RecallInv ==
    /\ Generation \in Nat \ {0} /\ \E S : corpora \in Seq(S)
    /\ DOMAIN task = Readers
    /\ \A r \in Readers : Sound(task[r], corpora)

\* A write takes nothing from what earlier generations vouch for, and a context that
\* noted the generation before it will see that it is over.
LEMMA WritesKeep ==
    ASSUME NEW S, NEW cs \in Seq(S), NEW c, NEW t, Sound(t, cs)
    PROVE  Sound(t, Append(cs, c))
<1> DEFINE new == Append(cs, c)
<1>1. cs \in Seq(S \cup {c}) /\ c \in S \cup {c}
  OBVIOUS
<1>2. /\ Len(cs) \in Nat /\ Len(new) = Len(cs) + 1
      /\ \A g \in 1 .. Len(cs) : new[g] = cs[g]
  BY <1>1
<1> HIDE DEF new
<1>3. ASSUME NEW m, t.started \in 1 .. Len(cs), Vouched(t, cs, m)
      PROVE  Vouched(t, new, m)
  BY <1>2, <1>3 DEF Vouched
<1>4. RecallSound(t, new)
  BY <1>2, <1>3 DEF Sound, RecallSound, SearchPcs, KeptPcs, AnswerPcs
<1>5. ContextSound(t, new)
  BY <1>2 DEF Sound, ContextSound, ContextPcs
<1>6. QED BY <1>4, <1>5 DEF Sound, new

\* While a recall searches it only collects candidates.
Collects(t, u) ==
    /\ DOMAIN u = Fields /\ u.pc \in SearchPcs /\ u.op = t.op /\ u.started = t.started
    /\ u.results = t.results

LEMMA SearchKeeps ==
    ASSUME NEW cs, NEW t, NEW u, Sound(t, cs), t.pc \in SearchPcs, Collects(t, u)
    PROVE  Sound(u, cs)
  BY DEF Sound, RecallSound, ContextSound, SearchPcs, KeptPcs, AnswerPcs, ContextPcs, Collects

\* The search's ways on
LEMMA SearchMoves ==
    ASSUME NEW t, DOMAIN t = Fields
    PROVE  Collects(t, Seeding(t)) /\ Collects(t, Searched(t))
  BY DEF Collects, Seeding, Searched, Fields, SearchPcs

LEMMA CollectsTwice ==
    ASSUME NEW t, NEW u, NEW v, u.op = t.op, u.started = t.started, u.results = t.results,
           Collects(u, v)
    PROVE  Collects(t, v)
  BY DEF Collects

\* A reader's step in which its task becomes u, sound in its turn, keeps the invariant.
LEMMA OneTask ==
    ASSUME RecallInv, NEW r \in Readers, NEW u, Sound(u, corpora), Step(r, u), UNCHANGED corpora
    PROVE  RecallInv'
  BY DEF RecallInv, Step, Generation

LEMMA SearchSteps ==
    ASSUME RecallInv, NEW r \in Readers,
           \/ \E works \in BOOLEAN : embed(r, works)
           \/ keyword(r) \/ vector(r) \/ probe_keyword(r) \/ probe_vector(r)
           \/ seed_contested(r) \/ seed(r) \/ graph(r)
    PROVE  RecallInv'
<1> PICK t : t = task[r]
  OBVIOUS
<1>1. Sound(t, corpora) /\ DOMAIN t = Fields
  BY DEF RecallInv, Sound
<1>2. UNCHANGED corpora /\ t.pc \in SearchPcs
  BY DEF embed, keyword, vector, probe_keyword, probe_vector, seed_contested, seed, graph,
         Reads, Local, SearchPcs
<1> DEFINE Moved == \E u : Step(r, u) /\ Collects(t, u)
<1>3. ASSUME NEW works \in BOOLEAN, embed(r, works) PROVE Moved
  <2>1. Step(r, [t EXCEPT !.pc = "keyword", !.degraded = ~works])
    BY <1>3 DEF embed
  <2>2. Collects(t, [t EXCEPT !.pc = "keyword", !.degraded = ~works])
    BY <1>1 DEF Collects, Fields, SearchPcs
  <2>3. QED BY <2>1, <2>2
<1>4. ASSUME keyword(r) PROVE Moved
  <2>1. PICK u : u = [t EXCEPT !.keyword = keyword_search(t.filter, corpus)]
    OBVIOUS
  <2>2. /\ DOMAIN u = Fields /\ u.op = t.op /\ u.started = t.started /\ u.results = t.results
        /\ u.pc = t.pc
    BY <1>1, <2>1 DEF Fields
  <2>3. Step(r, Searched(u)) \/ Step(r, [u EXCEPT !.pc = "vector"])
    BY <1>4, <2>1 DEF keyword
  <2>4. Collects(t, Searched(u))
    BY <2>2, SearchMoves, CollectsTwice
  <2>5. Collects(t, [u EXCEPT !.pc = "vector"])
    BY <2>2 DEF Collects, Fields, SearchPcs
  <2>6. QED BY <2>3, <2>4, <2>5
<1>5. ASSUME vector(r) PROVE Moved
  <2>1. PICK u : u = [t EXCEPT !.vector = vector_search(t.filter, corpus)]
    OBVIOUS
  <2>2. /\ DOMAIN u = Fields /\ u.op = t.op /\ u.started = t.started /\ u.results = t.results
    BY <1>1, <2>1 DEF Fields
  <2>3. Step(r, Searched(u))
    BY <1>5, <2>1 DEF vector
  <2>4. Collects(t, Searched(u))
    BY <2>2, SearchMoves, CollectsTwice
  <2>5. QED BY <2>3, <2>4
<1>6. ASSUME probe_keyword(r) PROVE Moved
  <2>1. PICK u : /\ \E b : u = [t EXCEPT !.dropped = b]
                 /\ Step(r, Seeding(u)) \/ Step(r, [u EXCEPT !.pc = "probe_vector"])
    BY <1>6 DEF probe_keyword
  <2>2. /\ DOMAIN u = Fields /\ u.op = t.op /\ u.started = t.started /\ u.results = t.results
    BY <1>1, <2>1 DEF Fields
  <2>3. Collects(t, Seeding(u))
    BY <2>2, SearchMoves, CollectsTwice
  <2>4. Collects(t, [u EXCEPT !.pc = "probe_vector"])
    BY <2>2 DEF Collects, Fields, SearchPcs
  <2>5. QED BY <2>1, <2>3, <2>4
<1>7. ASSUME probe_vector(r) PROVE Moved
  <2>1. PICK u : (\E b : u = [t EXCEPT !.dropped = b]) /\ Step(r, Seeding(u))
    BY <1>7 DEF probe_vector
  <2>2. /\ DOMAIN u = Fields /\ u.op = t.op /\ u.started = t.started /\ u.results = t.results
    BY <1>1, <2>1 DEF Fields
  <2>3. Collects(t, Seeding(u))
    BY <2>2, SearchMoves, CollectsTwice
  <2>4. QED BY <2>1, <2>3
<1>8. ASSUME seed_contested(r) PROVE Moved
  <2>1. PICK u : /\ Step(r, u)
                 /\ \E c, pc : pc \in {"get_many", "seed"} /\ u = [t EXCEPT !.contested = c, !.pc = pc]
    BY <1>8 DEF seed_contested
  <2>2. Collects(t, u)
    BY <1>1, <2>1 DEF Collects, Fields, SearchPcs
  <2>3. QED BY <2>1, <2>2
<1>9. ASSUME seed(r) PROVE Moved
  <2>1. PICK u : /\ Step(r, u)
                 /\ \/ u = [t EXCEPT !.pc = "graph"]
                    \/ \E x, pc : pc \in {"get_many", "seed"} /\ u = [t EXCEPT !.tosee = x, !.pc = pc]
    BY <1>9 DEF seed
  <2>2. Collects(t, u)
    BY <1>1, <2>1 DEF Collects, Fields, SearchPcs
  <2>3. QED BY <2>1, <2>2
<1>10. ASSUME graph(r) PROVE Moved
  <2>1. PICK u : Step(r, u) /\ \E g : u = [t EXCEPT !.graph = g, !.pc = "get_many"]
    BY <1>10 DEF graph
  <2>2. Collects(t, u)
    BY <1>1, <2>1 DEF Collects, Fields, SearchPcs
  <2>3. QED BY <2>1, <2>2
<1>11. Moved
  BY <1>3, <1>4, <1>5, <1>6, <1>7, <1>8, <1>9, <1>10
<1>12. QED BY <1>1, <1>2, <1>11, SearchKeeps, OneTask

\* What a channel brought up is looked at again in the batch fetch, at the generation of
\* the fetch, and whatever is ranked, cut and answered is among it.
LEMMA AnswerSteps ==
    ASSUME RecallInv, NEW r \in Readers,
           \/ get_many(r) \/ contested(r) \/ rank(r) \/ corpus_snapshot(r)
           \/ \E works \in BOOLEAN : annotate(r, works)
    PROVE  RecallInv'
<1> PICK t : t = task[r]
  OBVIOUS
<1>1. /\ Sound(t, corpora) /\ DOMAIN t = Fields /\ Generation \in Nat \ {0}
      /\ Generation = Len(corpora) /\ corpus = corpora[Generation]
  BY DEF RecallInv, Sound, Generation, corpus
<1>2. /\ UNCHANGED corpora /\ t.pc \in {"get_many"} \cup KeptPcs \cup AnswerPcs
      /\ t.op = "recall" /\ t.started \in 1 .. Len(corpora)
  <2>1. UNCHANGED corpora /\ t.pc \in {"get_many"} \cup KeptPcs \cup AnswerPcs
    BY DEF get_many, contested, rank, corpus_snapshot, annotate, Reads, Local, KeptPcs, AnswerPcs
  <2>2. QED BY <1>1, <2>1 DEF Sound, RecallSound, SearchPcs, KeptPcs, AnswerPcs
<1> DEFINE Moved == \E u : Step(r, u) /\ Sound(u, corpora)
<1>3. ASSUME get_many(r) PROVE Moved
  <2> PICK kept : kept = {m \in Candidates(t) : matches(t.filter, corpus[m]) /\ trusted(corpus[m])}
    OBVIOUS
  <2> PICK d : d = (t.dropped \/ \E m \in Candidates(t) : ~matches(t.filter, corpus[m]))
    OBVIOUS
  <2> PICK pc \in KeptPcs : pc = IF t.filter = "contested" THEN "contested" ELSE "rank"
    BY DEF KeptPcs
  <2> PICK u : u = [t EXCEPT !.notes = [m \in kept |-> corpus[m]], !.dropped = d, !.pc = pc]
    OBVIOUS
  <2>1. Step(r, u)
    <3>1. Step(r, [t EXCEPT !.notes = [m \in kept |-> corpus[m]],
                            !.dropped = @ \/ \E m \in Candidates(t) : ~matches(t.filter, corpus[m]),
                            !.pc = IF t.filter = "contested" THEN "contested" ELSE "rank"])
      BY <1>3, Zenon DEF get_many
    <3>2. QED BY <1>1, <3>1 DEF Fields
  <2>2. /\ DOMAIN u = Fields /\ u.pc \in KeptPcs /\ u.op = "recall" /\ u.started = t.started
        /\ u.filter = t.filter /\ u.results = t.results /\ DOMAIN u.notes = kept
    BY <1>1, <1>2, <2>1 DEF Fields
  <2>3. t.results = <<>>
    <3>1. t.pc = "get_many"
      BY <1>3 DEF get_many, Reads
    <3>2. QED BY <1>1, <3>1 DEF Sound, RecallSound, SearchPcs
  <2>4. \A m \in kept : Vouched(u, corpora, m)
    BY <1>1, <1>2, <2>2 DEF Vouched
  <2>5. Sound(u, corpora)
    BY <1>2, <2>2, <2>3, <2>4
    DEF Sound, RecallSound, ContextSound, SearchPcs, KeptPcs, AnswerPcs, ContextPcs
  <2>6. QED BY <2>1, <2>5
<1>4. ASSUME contested(r) PROVE Moved
  <2> PICK kept : kept = DOMAIN t.notes \cap active_contradicts(corpus)
    OBVIOUS
  <2> PICK d : d = (t.dropped \/ kept # DOMAIN t.notes)
    OBVIOUS
  <2> PICK u : u = [t EXCEPT !.contested = kept, !.pc = "rank",
                             !.notes = [m \in kept |-> t.notes[m]], !.dropped = d]
    OBVIOUS
  <2>1. Step(r, u)
    <3>1. Step(r, [t EXCEPT !.contested = kept, !.pc = "rank",
                            !.notes = [m \in kept |-> t.notes[m]],
                            !.dropped = @ \/ kept # DOMAIN t.notes])
      BY <1>4, Zenon DEF contested
    <3>2. QED BY <1>1, <3>1 DEF Fields
  <2>2. /\ DOMAIN u = Fields /\ u.pc = "rank" /\ u.op = "recall" /\ u.started = t.started
        /\ u.filter = t.filter /\ u.results = t.results /\ DOMAIN u.notes = kept
    BY <1>1, <1>2, <2>1 DEF Fields
  <2>3. t.results = <<>> /\ \A m \in kept : Vouched(t, corpora, m)
    <3>1. t.pc = "contested"
      BY <1>4 DEF contested, Reads
    <3>2. QED BY <1>1, <2>1, <3>1 DEF Sound, RecallSound, KeptPcs
  <2>4. \A m \in kept : Vouched(u, corpora, m)
    BY <2>2, <2>3 DEF Vouched
  <2>5. Sound(u, corpora)
    BY <1>2, <2>2, <2>3, <2>4
    DEF Sound, RecallSound, ContextSound, SearchPcs, KeptPcs, AnswerPcs, ContextPcs
  <2>6. QED BY <2>1, <2>5
<1>5. ASSUME rank(r) PROVE Moved
  <2>1. t.pc = "rank" /\ t.results = <<>> /\ \A m \in DOMAIN t.notes : Vouched(t, corpora, m)
    <3>1. t.pc = "rank"
      BY <1>5 DEF rank, Local
    <3>2. QED BY <1>1, <3>1 DEF Sound, RecallSound, KeptPcs
  <2> PICK results \in ranked(t.mode, build_signals(t)) :
          Step(r, IF abstains(t.mode, build_signals(t), results)
                  THEN [t EXCEPT !.reason = "below_threshold", !.pc = "snapshot"]
                  ELSE [t EXCEPT !.results = results, !.pc = "snapshot",
                                 !.reason = IF results = <<>> THEN abstain_reason(t) ELSE "none"])
    BY <1>5, Zenon DEF rank
  <2>2. PICK u :
          /\ Step(r, u)
          /\ \/ u = [t EXCEPT !.reason = "below_threshold", !.pc = "snapshot"]
             \/ u = [t EXCEPT !.results = results, !.pc = "snapshot",
                              !.reason = IF results = <<>> THEN abstain_reason(t) ELSE "none"]
    OBVIOUS
  <2>3. Range(results) \subseteq DOMAIN t.notes
    <3>1. Range(results) \subseteq admitted(t.mode, build_signals(t))
      BY DEF ranked, Range
    <3>2. admitted(t.mode, build_signals(t)) \subseteq DOMAIN t.notes
      BY DEF admitted, build_signals
    <3>3. QED BY <3>1, <3>2
  <2>4. /\ DOMAIN u = Fields /\ u.pc = "snapshot" /\ u.op = "recall" /\ u.started = t.started
        /\ u.filter = t.filter /\ (u.results = <<>> \/ u.results = results)
    BY <1>1, <1>2, <2>1, <2>2 DEF Fields
  <2>5. \A m \in Range(u.results) : Vouched(u, corpora, m)
    <3>1. Range(<<>>) = {}
      BY DEF Range
    <3>2. QED BY <2>1, <2>3, <2>4, <3>1 DEF Vouched
  <2>6. Sound(u, corpora)
    BY <1>2, <2>4, <2>5
    DEF Sound, RecallSound, ContextSound, SearchPcs, KeptPcs, AnswerPcs, ContextPcs
  <2>7. QED BY <2>2, <2>6
<1>6. ASSUME \/ corpus_snapshot(r)
             \/ \E works \in BOOLEAN : annotate(r, works)
      PROVE  Moved
  <2>1. t.pc \in AnswerPcs /\ \A m \in Range(t.results) : Vouched(t, corpora, m)
    <3>1. t.pc \in AnswerPcs
      BY <1>6 DEF corpus_snapshot, annotate, Reads, AnswerPcs
    <3>2. QED BY <1>1, <1>2, <3>1 DEF Sound, RecallSound
  <2>2. PICK u, v :
          /\ Step(r, u)
          /\ (\E n : v = [t EXCEPT !.snapshot = n]) \/ \E c : v = [t EXCEPT !.contested = c]
          /\ u = Done(v) \/ u = [v EXCEPT !.pc = "annotate"]
    BY <1>6 DEF corpus_snapshot, annotate
  <2>3. /\ DOMAIN v = Fields /\ v.op = "recall" /\ v.started = t.started
        /\ v.filter = t.filter /\ v.results = t.results
    BY <1>1, <1>2, <2>2 DEF Fields
  <2>4. /\ DOMAIN u = Fields /\ u.pc \in {"annotate", "done"} /\ u.op = "recall"
        /\ u.started = t.started /\ u.filter = t.filter /\ u.results = t.results
    <3>1. CASE u = Done(v)
      BY <2>3, <3>1 DEF Fields, Done, NoTask
    <3>2. CASE u = [v EXCEPT !.pc = "annotate"]
      BY <2>3, <3>2 DEF Fields
    <3>3. QED BY <2>2, <3>1, <3>2
  <2>5. Sound(u, corpora)
    BY <1>2, <2>1, <2>4
    DEF Sound, RecallSound, ContextSound, SearchPcs, KeptPcs, AnswerPcs, ContextPcs, Vouched
  <2>6. QED BY <2>2, <2>5
<1>7. Moved
  BY <1>3, <1>4, <1>5, <1>6
<1>8. QED BY <1>2, <1>7, OneTask

\* A context that finds the generation it noted has read nothing but that generation.
LEMMA ContextSteps ==
    ASSUME RecallInv, NEW r \in Readers,
           before(r) \/ list(r) \/ disputes(r) \/ after(r)
    PROVE  RecallInv'
<1> PICK t : t = task[r]
  OBVIOUS
<1>1. /\ Sound(t, corpora) /\ DOMAIN t = Fields /\ Generation \in Nat \ {0}
      /\ Generation = Len(corpora) /\ corpus = corpora[Generation]
  BY DEF RecallInv, Sound, Generation, corpus
<1>2. UNCHANGED corpora /\ t.pc \in ContextPcs /\ t.op = "context"
  <2>1. UNCHANGED corpora /\ t.pc \in ContextPcs
    BY DEF before, list, disputes, after, Reads, ContextPcs
  <2>2. QED BY <1>1, <2>1 DEF Sound, ContextSound
<1>3. \A u : DOMAIN u = Fields /\ u.op = "context" /\ u.pc \in ContextPcs \cup {"done"} => RecallSound(u, corpora)
  BY DEF RecallSound, SearchPcs, KeptPcs, AnswerPcs, ContextPcs
<1> DEFINE Moved == \E u : Step(r, u) /\ Sound(u, corpora)
<1>4. ASSUME before(r) PROVE Moved
  <2>1. PICK u : Step(r, u) /\ u = [t EXCEPT !.snapshot = Generation, !.pc = "list"]
    BY <1>4 DEF before
  <2>2. DOMAIN u = Fields /\ u.pc = "list" /\ u.op = "context" /\ u.snapshot = Len(corpora)
    BY <1>1, <1>2, <2>1 DEF Fields
  <2>3. Sound(u, corpora)
    BY <1>1, <1>3, <2>2 DEF Sound, ContextSound, ContextPcs
  <2>4. QED BY <2>1, <2>3
<1>5. ASSUME list(r) PROVE Moved
  <2>1. PICK u : Step(r, u) /\ u = [t EXCEPT !.graph = EntriesOf(corpus), !.pc = "active_contradicts"]
    BY <1>5 DEF list, EntriesOf
  <2>2. /\ DOMAIN u = Fields /\ u.pc = "active_contradicts" /\ u.op = "context"
        /\ u.snapshot = t.snapshot /\ u.graph = EntriesOf(corpus)
    BY <1>1, <1>2, <2>1 DEF Fields
  <2>3. t.snapshot \in 1 .. Len(corpora)
    <3>1. t.pc = "list"
      BY <1>5 DEF list, Reads
    <3>2. QED BY <1>1, <3>1 DEF Sound, ContextSound, ContextPcs
  <2>4. Sound(u, corpora)
    BY <1>1, <1>3, <2>2, <2>3 DEF Sound, ContextSound, ContextPcs
  <2>5. QED BY <2>1, <2>4
<1>6. ASSUME disputes(r) PROVE Moved
  <2>1. PICK u : Step(r, u) /\ u = [t EXCEPT !.contested = active_contradicts(corpus) \cap t.graph,
                                             !.pc = "after"]
    BY <1>6 DEF disputes
  <2>2. /\ DOMAIN u = Fields /\ u.pc = "after" /\ u.op = "context" /\ u.graph = t.graph
        /\ u.snapshot = t.snapshot /\ u.contested = active_contradicts(corpus) \cap t.graph
    BY <1>1, <1>2, <2>1 DEF Fields
  <2>3. /\ t.snapshot \in 1 .. Len(corpora)
        /\ t.snapshot = Len(corpora) => t.graph = EntriesOf(corpora[t.snapshot])
    <3>1. t.pc = "active_contradicts"
      BY <1>6 DEF disputes, Reads
    <3>2. QED BY <1>1, <3>1 DEF Sound, ContextSound, ContextPcs
  <2>4. Sound(u, corpora)
    BY <1>1, <1>3, <2>2, <2>3 DEF Sound, ContextSound, ContextPcs
  <2>5. QED BY <2>1, <2>4
<1>7. ASSUME after(r) PROVE Moved
  <2>1. /\ t.snapshot \in 1 .. Len(corpora)
        /\ t.snapshot = Len(corpora) =>
               /\ t.graph = EntriesOf(corpora[t.snapshot])
               /\ t.contested = active_contradicts(corpora[t.snapshot]) \cap t.graph
    <3>1. t.pc = "after"
      BY <1>7 DEF after, Reads
    <3>2. QED BY <1>1, <3>1 DEF Sound, ContextSound, ContextPcs
  <2>2. CASE t.snapshot = Len(corpora)
    <3>1. PICK u : Step(r, u) /\ u = [Done(t) EXCEPT !.vector = Entries(t)]
      BY <1>1, <1>7, <2>2 DEF after
    <3>2. /\ DOMAIN u = Fields /\ u.pc = "done" /\ u.op = "context" /\ u.snapshot = t.snapshot
          /\ u.vector = Entries(t)
      BY <1>1, <1>2, <3>1 DEF Fields, Done, NoTask
    <3>3. Entries(t) = Project(corpora[t.snapshot])
      BY <2>1, <2>2 DEF Entries, EntriesOf, Project
    <3>4. Sound(u, corpora)
      BY <1>3, <2>1, <3>2, <3>3 DEF Sound, ContextSound, ContextPcs
    <3>5. QED BY <3>1, <3>4
  <2>3. CASE t.snapshot # Len(corpora)
    <3>1. PICK u :
            /\ Step(r, u)
            /\ \/ u = [t EXCEPT !.pc = "before", !.attempt = t.attempt + 1, !.graph = {}, !.contested = {}]
               \/ u = [Done(t) EXCEPT !.reason = "stale_plan", !.contested = {}]
      BY <1>1, <1>7, <2>3 DEF after
    <3>2. /\ DOMAIN u = Fields /\ u.op = "context"
          /\ u.pc = "before" \/ (u.pc = "done" /\ u.reason = "stale_plan")
      BY <1>1, <1>2, <3>1 DEF Fields, Done, NoTask
    <3>3. Sound(u, corpora)
      BY <1>3, <3>2 DEF Sound, ContextSound, ContextPcs
    <3>4. QED BY <3>1, <3>3
  <2>4. QED BY <2>2, <2>3
<1>8. Moved
  BY <1>4, <1>5, <1>6, <1>7
<1>9. QED BY <1>2, <1>8, OneTask

LEMMA EmptyTask == \A cs : Sound(NoTask, cs)
<1>1. DOMAIN NoTask = Fields /\ NoTask.pc = "none" /\ NoTask.op = "none"
  BY DEF NoTask, Fields
<1>2. QED BY <1>1
  DEF Sound, RecallSound, ContextSound, SearchPcs, KeptPcs, AnswerPcs, ContextPcs

\* Tasks begin, end and are dropped.
LEMMA OtherSteps ==
    ASSUME RecallInv, NEW r \in Readers,
           \/ \E f \in Filters, mode \in Modes : recall(r, f, mode)
           \/ context(r) \/ get(r) \/ get_scoped(r) \/ contested_set(r) \/ aborted(r)
    PROVE  RecallInv'
<1> PICK t : t = task[r]
  OBVIOUS
<1>1. /\ DOMAIN t = Fields /\ Generation \in Nat \ {0} /\ Generation = Len(corpora)
  BY DEF RecallInv, Sound, Generation
<1>2. UNCHANGED corpora
  BY DEF recall, context, get, get_scoped, contested_set, aborted, Local, Reads
<1> DEFINE Moved == \E u : Step(r, u) /\ Sound(u, corpora)
<1>3. ASSUME NEW f \in Filters, NEW mode \in Modes, recall(r, f, mode) PROVE Moved
  <2>1. PICK u : Step(r, u) /\ u = [NoTask EXCEPT !.op = "recall", !.pc = "embed", !.filter = f,
                                                  !.mode = mode, !.started = Generation]
    BY <1>3 DEF recall
  <2>2. /\ DOMAIN u = Fields /\ u.pc = "embed" /\ u.op = "recall" /\ u.started = Generation
        /\ u.results = <<>>
    BY <2>1 DEF Fields, NoTask
  <2>3. Sound(u, corpora)
    BY <1>1, <2>2
    DEF Sound, RecallSound, ContextSound, SearchPcs, KeptPcs, AnswerPcs, ContextPcs
  <2>4. QED BY <2>1, <2>3
<1>4. ASSUME context(r) PROVE Moved
  <2>1. PICK u : Step(r, u) /\ u = [NoTask EXCEPT !.op = "context", !.pc = "before", !.attempt = 1,
                                                  !.started = Generation]
    BY <1>4 DEF context
  <2>2. DOMAIN u = Fields /\ u.pc = "before" /\ u.op = "context"
    BY <2>1 DEF Fields, NoTask
  <2>3. Sound(u, corpora)
    BY <2>2 DEF Sound, RecallSound, ContextSound, SearchPcs, KeptPcs, AnswerPcs, ContextPcs
  <2>4. QED BY <2>1, <2>3
<1>5. ASSUME get(r) PROVE Moved
  <2>1. PICK u : Step(r, u) /\ u = [NoTask EXCEPT !.op = "get", !.pc = "get_scoped"]
    BY <1>5 DEF get
  <2>2. DOMAIN u = Fields /\ u.pc = "get_scoped" /\ u.op = "get"
    BY <2>1 DEF Fields, NoTask
  <2>3. Sound(u, corpora)
    BY <2>2 DEF Sound, RecallSound, ContextSound, SearchPcs, KeptPcs, AnswerPcs, ContextPcs
  <2>4. QED BY <2>1, <2>3
<1>6. ASSUME get_scoped(r) PROVE Moved
  <2>1. PICK u : Step(r, u) /\ u = [t EXCEPT !.pc = "contested_set"]
    BY <1>6 DEF get_scoped
  <2>2. /\ DOMAIN u = Fields /\ u.pc = "contested_set" /\ u.op = t.op /\ u.started = t.started
    BY <1>1, <2>1 DEF Fields
  <2>3. t.op = "recall" => t.started \in 1 .. Len(corpora)
    BY DEF RecallInv, Sound, RecallSound
  <2>4. Sound(u, corpora)
    BY <2>2, <2>3 DEF Sound, RecallSound, ContextSound, SearchPcs, KeptPcs, AnswerPcs, ContextPcs
  <2>5. QED BY <2>1, <2>4
<1>7. ASSUME contested_set(r) PROVE Moved
  BY <1>7, EmptyTask DEF contested_set
<1>8. ASSUME aborted(r) PROVE Moved
  <2>1. PICK u : Step(r, u) /\ (u = NoTask \/ u = [NoTask EXCEPT !.pc = "done"])
    BY <1>8 DEF aborted
  <2>2. DOMAIN u = Fields /\ u.pc \in {"none", "done"} /\ u.op = "none"
    BY <2>1 DEF Fields, NoTask
  <2>3. Sound(u, corpora)
    BY <2>2 DEF Sound, RecallSound, ContextSound, SearchPcs, KeptPcs, AnswerPcs, ContextPcs
  <2>4. QED BY <2>1, <2>3
<1>9. Moved
  BY <1>3, <1>4, <1>5, <1>6, <1>7, <1>8
<1>10. QED BY <1>2, <1>9, OneTask

LEMMA WriteSteps ==
    ASSUME RecallInv, NEW c, Writes(c)
    PROVE  RecallInv'
<1>1. PICK S : corpora \in Seq(S)
  BY DEF RecallInv
<1>2. corpora' = Append(corpora, c) /\ UNCHANGED task
  BY DEF Writes
<1>3. \A r \in Readers : Sound(task'[r], corpora')
  BY <1>1, <1>2, WritesKeep DEF RecallInv
<1>4. corpora' \in Seq(S \cup {c}) /\ Len(corpora') \in Nat \ {0}
  <2>1. corpora \in Seq(S \cup {c}) /\ c \in S \cup {c}
    BY <1>1
  <2>2. QED BY <1>2, <2>1
<1>5. QED BY <1>2, <1>3, <1>4 DEF RecallInv, Generation

LEMMA RecallStep == RecallInv /\ [RecallNext]_allvars => RecallInv'
<1> SUFFICES ASSUME RecallInv, [RecallNext]_allvars PROVE RecallInv'
  OBVIOUS
<1>1. ASSUME NEW r \in Readers,
             \/ \E f \in Filters, mode \in Modes : recall(r, f, mode)
             \/ \E works \in BOOLEAN : embed(r, works) \/ annotate(r, works)
             \/ keyword(r) \/ vector(r) \/ probe_keyword(r) \/ probe_vector(r)
             \/ seed_contested(r) \/ seed(r) \/ graph(r)
             \/ get_many(r) \/ contested(r) \/ rank(r) \/ corpus_snapshot(r)
             \/ context(r) \/ before(r) \/ list(r) \/ disputes(r) \/ after(r)
             \/ get(r) \/ get_scoped(r) \/ contested_set(r)
             \/ pool(r) \/ aborted(r)
      PROVE  RecallInv'
  <2>1. CASE pool(r)
    BY <2>1 DEF pool, RecallInv, Generation
  <2>2. QED BY <1>1, <2>1, SearchSteps, AnswerSteps, ContextSteps, OtherSteps
<1>2. ASSUME NEW m \in Memories,
             archive(m) \/ memory_feedback_wrong(m) \/ link_contradicts(m) \/ unlink(m)
      PROVE  RecallInv'
  BY <1>2, WriteSteps DEF archive, memory_feedback_wrong, link_contradicts, unlink
<1>3. CASE UNCHANGED allvars
  BY <1>3 DEF allvars, RecallInv, Generation
<1>4. QED BY <1>1, <1>2, <1>3 DEF RecallNext

LEMMA RecallAlways == RecallSpec => []RecallInv
<1>1. RecallInit => RecallInv
  <2> SUFFICES ASSUME RecallInit PROVE RecallInv
    OBVIOUS
  <2>1. PICK c : corpora = <<c>>
    BY DEF RecallInit
  <2>2. corpora \in Seq({c}) /\ Len(corpora) = 1
    BY <2>1
  <2>3. task = [r \in Readers |-> NoTask]
    BY DEF RecallInit
  <2>4. QED BY <2>2, <2>3, EmptyTask DEF RecallInv, Generation
<1>2. QED BY <1>1, RecallStep, PTL DEF RecallSpec

\* A recall returns nothing that was already archived, distrusted or outside the filter
\* when it began, whichever channel brought it up and whatever is written meanwhile:
\* engine.rs looks at every candidate again in its batch fetch, after the last channel.
THEOREM NothingRetiredIsRecalled == RecallSpec => []RetiredNeverRecalled
<1>1. RecallInv => RetiredNeverRecalled
  BY DEF RecallInv, Sound, RecallSound, Vouched, RetiredNeverRecalled, Finished, During, Generation
<1>2. QED BY <1>1, RecallAlways, PTL

\* A context is the project as of the one generation it carries, disputes included, though
\* its entries and its disputes are read apart and anybody may write in between.
THEOREM ContextNeverMixes == RecallSpec => []ContextIsOneState
<1>1. RecallInv => ContextIsOneState
  BY DEF RecallInv, Sound, ContextSound, ContextIsOneState, Finished
<1>2. QED BY <1>1, RecallAlways, PTL

-----------------------------------------------------------------------------
(* The answer: a memory that stands all along and reaches its floor by its own row is     *)
(* ranked no worse than by that row, for the hits it competes with are among those of a   *)
(* generation since the recall began; so it is admitted, and an answer with room has it.  *)

\* The signals a candidate may have
Signals == [keyword : {Absent} \cup Nat, vector : {Absent} \cup 0 .. 100, hops : {Absent, 1},
            importance : 0 .. 10, recency : 0 .. 100, confidence : 0 .. 100,
            session : BOOLEAN, trust : 70 .. 100]

\* The arithmetic of the scores: products of naturals grow with their factors.
LEMMA Products ==
    ASSUME NEW a \in Nat, NEW b \in Nat, NEW p \in Nat, a <= b
    PROVE  a * p \in Nat /\ b * p \in Nat /\ a * p <= b * p
<1>1. PICK d \in Nat : b = a + d
  <2>1. b - a \in Nat /\ b = a + (b - a)
    OBVIOUS
  <2>2. QED BY <2>1
<1>2. a * p \in Nat /\ d * p \in Nat
  OBVIOUS
<1>3. b * p = a * p + d * p
  BY <1>1
<1>4. QED BY <1>2, <1>3

\* The keyword signal falls with the rank.
LEMMA Reciprocal ==
    ASSUME NEW a \in Nat, NEW b \in Nat, a <= b
    PROVE  /\ 100 \div (1 + a) \in Nat /\ 100 \div (1 + b) \in Nat
           /\ 100 \div (1 + b) <= 100 \div (1 + a)
<1>1. PICK m, n : m = 1 + a /\ n = 1 + b
  OBVIOUS
<1>2. m \in Nat /\ n \in Nat /\ m >= 1 /\ n >= m
  BY <1>1
<1>3. PICK p, q : p = 100 \div m /\ q = 100 \div n
  OBVIOUS
<1>4. p \in Nat /\ q \in Nat /\ m * p <= 100 /\ m * p + m > 100 /\ n * q <= 100
  BY <1>2, <1>3
<1>5. m * q <= n * q /\ m * q \in Nat /\ m * p \in Nat
  BY <1>2, <1>4, Products
<1>6. q <= p
  <2>1. SUFFICES ASSUME p + 1 <= q PROVE FALSE
    BY <1>4
  <2>2. (p + 1) * m <= q * m /\ q * m \in Nat
    BY <1>2, <1>4, <2>1, Products
  <2>3. (p + 1) * m = m * p + m /\ q * m = m * q
    BY <1>2, <1>4
  <2>4. QED BY <1>2, <1>4, <1>5, <2>2, <2>3
<1>7. QED BY <1>1, <1>3, <1>4, <1>6

\* What a candidate's signals range over.
LEMMA SignalTypes ==
    ASSUME NEW s \in Signals
    PROVE  /\ s.keyword = Absent \/ s.keyword \in Nat
           /\ s.vector = Absent \/ s.vector \in Nat
           /\ s.hops = Absent \/ s.hops = 1
           /\ s.importance \in Nat /\ s.recency \in Nat /\ s.confidence \in Nat
           /\ s.session \in BOOLEAN /\ s.trust \in Nat
  BY DEF Signals

\* The priors' factor is a natural number.
LEMMA Dampener ==
    ASSUME NEW s \in Signals
    PROVE  confidence_dampener(s.confidence) \in Nat
  BY SignalTypes DEF confidence_dampener

\* The weighted sum before the confidence's share
Sum(s) ==
    Blend(Percent(s.vector # Absent, s.vector),
          Percent(s.keyword # Absent, 100 \div (1 + s.keyword)),
          Percent(s.hops # Absent, 100 \div s.hops),
          10 * s.importance, s.recency)

\* The weighted sum of the signals is a natural number, and score_one is damped by it.
LEMMA SumType ==
    ASSUME NEW s \in Signals
    PROVE  /\ Percent(s.vector # Absent, s.vector) \in Nat
           /\ Percent(s.keyword # Absent, 100 \div (1 + s.keyword)) \in Nat
           /\ Percent(s.hops # Absent, 100 \div s.hops) \in Nat
           /\ Sum(s) \in Nat
           /\ score_one(s) = Sum(s) * confidence_dampener(s.confidence)
<1>1. Percent(s.vector # Absent, s.vector) \in Nat
  BY SignalTypes DEF Percent
<1>2. Percent(s.keyword # Absent, 100 \div (1 + s.keyword)) \in Nat
  BY SignalTypes, Reciprocal DEF Percent
<1>3. Percent(s.hops # Absent, 100 \div s.hops) \in Nat
  BY SignalTypes DEF Percent
<1>4. Sum(s) \in Nat
  BY <1>1, <1>2, <1>3, SignalTypes DEF Sum, Blend
<1>5. QED BY <1>1, <1>2, <1>3, <1>4 DEF Sum, score_one

\* Scores and floors are natural numbers.
LEMMA ScoreTypes ==
    ASSUME NEW s \in Signals
    PROVE  /\ score_one(s) \in Nat /\ Prior(s) \in Nat /\ BaseFloor(s) \in Nat
           /\ linear_score(s) \in Nat /\ candidate_floor(s) \in Nat
<1>1. score_one(s) \in Nat
  BY SumType, Dampener, Products
<1>2. Prior(s) \in Nat
  BY SignalTypes DEF Prior
<1>3. BaseFloor(s) \in Nat
  BY DEF BaseFloor, DurableKeywordFloor, ScoreFloor, Scaled
<1>4. QED BY <1>1, <1>2, <1>3, Products DEF linear_score, candidate_floor

\* u has the row of s, is found by every channel that finds s, and ranks no later.
NoWorse(s, u) ==
    /\ s.keyword = Absent => u.keyword = Absent
    /\ s.keyword # Absent => u.keyword # Absent /\ u.keyword <= s.keyword
    /\ s.vector # Absent => u.vector = s.vector
    /\ s.hops = Absent
    /\ u.importance = s.importance /\ u.recency = s.recency /\ u.confidence = s.confidence
    /\ u.session = s.session /\ u.trust = s.trust

\* Better signals score no less, whatever graph distance is added.
LEMMA ScoreMonotone ==
    ASSUME NEW s \in Signals, NEW u \in Signals, NoWorse(s, u)
    PROVE  score_one(s) <= score_one(u)
<1>1. Percent(s.vector # Absent, s.vector) <= Percent(u.vector # Absent, u.vector)
  BY SumType DEF NoWorse, Percent
<1>2. Percent(s.keyword # Absent, 100 \div (1 + s.keyword))
        <= Percent(u.keyword # Absent, 100 \div (1 + u.keyword))
  <2>1. CASE s.keyword = Absent
    BY <2>1, SumType DEF Percent
  <2>2. CASE s.keyword # Absent
    <3>1. s.keyword \in Nat /\ u.keyword \in Nat /\ u.keyword <= s.keyword
      BY <2>2, SignalTypes DEF NoWorse
    <3>2. 100 \div (1 + s.keyword) <= 100 \div (1 + u.keyword)
      BY <3>1, Reciprocal
    <3>3. s.keyword # Absent /\ u.keyword # Absent
      BY <2>2 DEF NoWorse
    <3>4. QED BY <3>2, <3>3 DEF Percent
  <2>3. QED BY <2>1, <2>2
<1>3. Percent(s.hops # Absent, 100 \div s.hops) <= Percent(u.hops # Absent, 100 \div u.hops)
  <2>1. Percent(s.hops # Absent, 100 \div s.hops) = 0
    BY DEF NoWorse, Percent
  <2>2. QED BY <2>1, SumType
<1>4. Sum(s) <= Sum(u)
  <2>1. /\ s.importance \in Nat /\ s.recency \in Nat
        /\ u.importance = s.importance /\ u.recency = s.recency
    BY SignalTypes DEF NoWorse
  <2>2. QED BY <1>1, <1>2, <1>3, <2>1, SumType DEF Sum, Blend
<1>5. confidence_dampener(u.confidence) = confidence_dampener(s.confidence)
  BY DEF NoWorse
<1>6. QED BY <1>4, <1>5, SumType, Dampener, Products

\* What reaches its floor by its own row is admitted: the priors scale both sides.
LEMMA EvidenceAdmitted ==
    ASSUME NEW s \in Signals, NEW u \in Signals, NoWorse(s, u), score_one(s) >= BaseFloor(s)
    PROVE  linear_score(u) >= candidate_floor(u)
<1>1. BaseFloor(u) = BaseFloor(s)
  BY DEF NoWorse, BaseFloor
<1>2. BaseFloor(u) <= score_one(u)
  BY <1>1, ScoreMonotone, ScoreTypes
<1>3. QED BY <1>2, ScoreTypes, Products DEF linear_score, candidate_floor

\* An answer that is not full has everything that was admitted, for the order by score
\* and then by id puts no candidate in two places.
LEMMA FullOrAll ==
    ASSUME NEW signals, DOMAIN signals \subseteq Memories,
           \A m \in DOMAIN signals : signals[m] \in Signals,
           NEW results \in ranked("linear", signals)
    PROVE  /\ Len(results) = Limit \/ Range(results) = admitted("linear", signals)
           /\ results = <<>> => admitted("linear", signals) = {}
<1> DEFINE all == admitted("linear", signals)
           n == IF Cardinality(all) > Limit THEN Limit ELSE Cardinality(all)
           first(a, b) == \/ score("linear", signals, a) > score("linear", signals, b)
                          \/ score("linear", signals, a) = score("linear", signals, b) /\ a < b
<1>1. IsFiniteSet(all) /\ Cardinality(all) \in Nat /\ all \subseteq DOMAIN signals
  <2>1. all \subseteq DOMAIN signals
    BY DEF admitted
  <2>2. all \in SUBSET Memories /\ IsFiniteSet(Memories)
    BY <2>1, RecallAssumption
  <2>3. QED BY <2>1, <2>2, FS_Subset, FS_CardinalityType
<1>2. n \in Nat /\ (n = Limit \/ n = Cardinality(all)) /\ (n = 0 => Cardinality(all) = 0)
  BY <1>1, RecallAssumption
<1>3. results \in [1 .. n -> all] /\ \A i, j \in 1 .. n : i < j => first(results[i], results[j])
  BY Zenon DEF ranked
<1>4. \A a \in all : ~first(a, a)
  <2> SUFFICES ASSUME NEW a \in all PROVE ~first(a, a)
    OBVIOUS
  <2>1. score("linear", signals, a) \in Nat
    BY <1>1, ScoreTypes DEF score
  <2>2. a \in Nat
    BY <1>1, RecallAssumption
  <2>3. QED BY <2>1, <2>2
<1> HIDE DEF all, n, first
<1>5. results \in Injection(1 .. n, all)
  <2>1. \A i, j \in 1 .. n : results[i] = results[j] => i = j
    <3> SUFFICES ASSUME NEW i \in 1 .. n, NEW j \in 1 .. n, results[i] = results[j], i # j
                 PROVE  FALSE
      OBVIOUS
    <3>1. results[i] \in all
      BY <1>3
    <3>2. i < j \/ j < i
      BY <1>2
    <3>3. QED BY <1>3, <1>4, <3>1, <3>2
  <2>2. QED BY <1>3, <2>1 DEF Injection, IsInjective
<1>6. results \in Seq(all) /\ Len(results) = n
  BY <1>2, <1>3
<1>7. ASSUME n = Cardinality(all) PROVE Range(results) = all
  <2>1. IsFiniteSet(1 .. n) /\ Cardinality(1 .. n) = n
    BY <1>2, FS_Interval
  <2>2. results \in Surjection(1 .. n, all)
    BY <1>1, <1>5, <1>7, <2>1, FS_Injection
  <2>3. QED BY <1>3, <2>2 DEF Surjection, Range
<1>8. ASSUME results = <<>> PROVE all = {}
  <2>1. n = 0
    BY <1>6, <1>8
  <2>2. QED BY <1>1, <1>2, <2>1, FS_EmptySet
<1>9. QED BY <1>2, <1>6, <1>7, <1>8 DEF all

\* The best of some hits is one of them: a least element, by well-founded order.
LEMMA BestIsAHit ==
    ASSUME NEW S, S \subseteq Memories, S # {}
    PROVE  Best(S) \in S
<1>1. \E x \in S : \A y \in S : <<y, x>> \notin OpToRel(<, Nat)
  BY RecallAssumption, NatLessThanWellFounded, WFMin
<1>2. \A x, y \in S : <<y, x>> \notin OpToRel(<, Nat) => x <= y
  BY RecallAssumption DEF OpToRel
<1>3. \E x \in S : \A y \in S : x <= y
  BY <1>1, <1>2
<1>4. QED BY <1>3 DEF Best

\* A smaller set of hits ranks a hit no later.
LEMMA RankShrinks ==
    ASSUME NEW S, NEW T, S \subseteq T, T \subseteq Memories, NEW m
    PROVE  Rank(S, m) \in Nat /\ Rank(T, m) \in Nat /\ Rank(S, m) <= Rank(T, m)
<1> DEFINE Under(X) == {k \in X : k < m}
<1>1. Under(T) \in SUBSET Memories /\ IsFiniteSet(Memories)
  BY RecallAssumption
<1>2. IsFiniteSet(Under(T)) /\ Under(S) \in SUBSET Under(T)
  BY <1>1, FS_Subset
<1>3. IsFiniteSet(Under(S)) /\ Cardinality(Under(S)) <= Cardinality(Under(T))
  BY <1>2, FS_Subset
<1>4. QED BY <1>2, <1>3, FS_CardinalityType DEF Rank

Corpus == [Memories -> Note]

\* OwnSignals of a task in a history of the corpus
RowSignals(t, c, m) ==
    [keyword |-> IF c[m].matches THEN Rank(keyword_search(t.filter, c), m) ELSE Absent,
     vector |-> IF t.degraded \/ t.filter = "archived" THEN Absent ELSE c[m].similarity,
     hops |-> Absent, importance |-> c[m].importance, recency |-> c[m].recency,
     confidence |-> c[m].confidence, session |-> c[m].session, trust |-> c[m].trust]

\* Nobody has touched m since t began, and t is to find it.
Stands(t, cs, m) ==
    \A g \in t.started .. Len(cs) :
        cs[g][m] = cs[t.started][m] /\ m \in eligible(t.filter, cs[g])

Proves(t, cs, m) ==
    /\ m \in Memories /\ Stands(t, cs, m)
    /\ \A g \in t.started .. Len(cs) :
           WithinCutoff(t.filter, cs[g], m) /\ Evidence(RowSignals(t, cs[g], m))

KeywordRead(t, cs) ==
    \E g \in t.started .. Len(cs) : t.keyword = keyword_search(t.filter, cs[g])
VectorRead(t, cs) ==
    \/ t.degraded \/ t.filter = "archived"
    \/ \E g \in t.started .. Len(cs) : t.vector = vector_search(t.filter, cs[g])
NotesRead(t, cs) ==
    /\ DOMAIN t.notes \subseteq Memories /\ \A m \in DOMAIN t.notes : t.notes[m] \in Note
    /\ \A m \in Candidates(t) :
           Stands(t, cs, m) => m \in DOMAIN t.notes /\ t.notes[m] = cs[t.started][m]

\* What a recall has in hand: its channels read some generation since it began, and its
\* notes hold every candidate that stood all along.
Found(t, cs) ==
    /\ t.keyword \subseteq Memories /\ t.vector \subseteq Memories
    /\ t.graph \subseteq Memories /\ t.tosee \subseteq Memories
    /\ t.pc \in {"seed", "graph"} => t.tosee # {}
    /\ t.pc = "contested" => t.filter = "contested"
    /\ t.pc \in (SearchPcs \cup KeptPcs) \ {"embed", "keyword"} => KeywordRead(t, cs)
    /\ t.pc \in (SearchPcs \cup KeptPcs) \ {"embed", "keyword", "vector"} => VectorRead(t, cs)
    /\ t.pc \in KeptPcs => NotesRead(t, cs)

\* EvidenceReturned of one task, from the ranking on
Answered(t, cs) ==
    t.pc \in AnswerPcs \cup {"done"} =>
        /\ t.mode = "linear" =>
               \/ \A m : Proves(t, cs, m) => m \in Range(t.results)
               \/ Len(t.results) = Limit
               \/ t.reason = "below_threshold"
        /\ t.degraded \/ (t.mode = "linear" /\ \E m : Proves(t, cs, m)) =>
               t.reason \notin {"no_candidates", "filter_excluded"}

FoundInv ==
    /\ corpora \in Seq(Corpus)
    /\ \A r \in Readers : task[r].op = "recall" => Found(task[r], corpora) /\ Answered(task[r], corpora)

-----------------------------------------------------------------------------
\* A search finds memories.
LEMMA SearchTypes ==
    ASSUME NEW f, NEW c
    PROVE  /\ eligible(f, c) \subseteq Memories
           /\ keyword_search(f, c) \subseteq Memories
           /\ vector_search(f, c) \subseteq Memories
  BY DEF eligible, keyword_search, keyword_hits, vector_search, vector_hits

\* The signals of a memory's own row are signals.
LEMMA RowSignalTypes ==
    ASSUME NEW t, NEW c \in Corpus, NEW m \in Memories
    PROVE  RowSignals(t, c, m) \in Signals
<1>1. c[m] \in Note
  BY DEF Corpus
<1>2. Rank(keyword_search(t.filter, c), m) \in Nat
  BY SearchTypes, RankShrinks
<1>3. QED BY <1>1, <1>2 DEF RowSignals, Signals, Note

\* build_signals gives signals to the notes and to nothing else.
LEMMA BuiltSignalTypes ==
    ASSUME NEW t, t.keyword \subseteq Memories,
           DOMAIN t.notes \subseteq Memories, \A m \in DOMAIN t.notes : t.notes[m] \in Note
    PROVE  /\ DOMAIN build_signals(t) = DOMAIN t.notes
           /\ \A m \in DOMAIN t.notes : build_signals(t)[m] \in Signals
<1>1. DOMAIN build_signals(t) = DOMAIN t.notes
  BY DEF build_signals
<1>2. ASSUME NEW m \in DOMAIN t.notes PROVE build_signals(t)[m] \in Signals
  <2>1. t.notes[m] \in Note
    OBVIOUS
  <2>2. Rank(t.keyword \cap DOMAIN t.notes, m) \in Nat
    BY RankShrinks
  <2>3. QED BY <2>1, <2>2 DEF build_signals, Signals, Note
<1>3. QED BY <1>1, <1>2

\* A memory that proves itself enters the ranking with signals no worse than its own.
LEMMA ProofIsAdmitted ==
    ASSUME NEW cs \in Seq(Corpus), NEW t, t.started \in 1 .. Len(cs), t.pc = "rank", Found(t, cs),
           NEW m, Proves(t, cs, m)
    PROVE  m \in admitted("linear", build_signals(t))
<1>1. /\ m \in Memories /\ Stands(t, cs, m) /\ KeywordRead(t, cs) /\ VectorRead(t, cs)
      /\ NotesRead(t, cs) /\ t.keyword \subseteq Memories
  BY DEF Proves, Found, SearchPcs, KeptPcs
<1>2. PICK g \in t.started .. Len(cs) : t.keyword = keyword_search(t.filter, cs[g])
  BY <1>1 DEF KeywordRead
<1>3. cs[g] \in Corpus /\ Len(cs) \in Nat /\ \A h \in t.started .. Len(cs) : cs[h] \in Corpus
  <2>1. Len(cs) \in Nat /\ \A h \in 1 .. Len(cs) : cs[h] \in Corpus
    OBVIOUS
  <2>2. \A h \in t.started .. Len(cs) : h \in 1 .. Len(cs)
    BY <2>1
  <2>3. QED BY <2>1, <2>2
<1> DEFINE s == RowSignals(t, cs[g], m)
           u == build_signals(t)[m]
           row == cs[g][m]
<1>4. Evidence(s) /\ s \in Signals /\ row \in Note
  BY <1>1, <1>2, <1>3, RowSignalTypes DEF Proves, Corpus
<1>5. m \in t.keyword <=> row.matches
  <2>1. m \in eligible(t.filter, cs[g]) /\ WithinCutoff(t.filter, cs[g], m)
    BY <1>1, <1>2 DEF Stands, Proves
  <2>2. QED BY <1>2, <2>1 DEF WithinCutoff, keyword_search, keyword_hits
<1>6. s.vector # Absent => m \in t.vector
  <2> SUFFICES ASSUME s.vector # Absent PROVE m \in t.vector
    OBVIOUS
  <2>1. ~t.degraded /\ t.filter # "archived" /\ row.similarity # Absent
    BY DEF RowSignals
  <2>2. PICK h \in t.started .. Len(cs) : t.vector = vector_search(t.filter, cs[h])
    BY <1>1, <2>1 DEF VectorRead
  <2>3. cs[h][m] = row /\ m \in eligible(t.filter, cs[h]) /\ WithinCutoff(t.filter, cs[h], m)
    BY <1>1, <1>2, <2>2 DEF Stands, Proves
  <2>4. row.live
    BY <1>4, <2>1, <2>3 DEF eligible, matches, Note
  <2>5. m \in vector_hits(t.filter, cs[h])
    BY <2>1, <2>3, <2>4 DEF vector_hits
  <2>6. QED BY <2>2, <2>3, <2>5 DEF WithinCutoff
<1>7. m \in DOMAIN t.notes /\ t.notes[m] = row
  <2>1. s.keyword # Absent \/ s.vector # Absent
    BY <1>4 DEF Evidence
  <2>2. s.keyword # Absent => row.matches
    BY DEF RowSignals
  <2>3. m \in Candidates(t)
    BY <1>5, <1>6, <2>1, <2>2 DEF Candidates
  <2>4. QED BY <1>1, <1>2, <2>3 DEF NotesRead, Stands
<1>8. u \in Signals /\ m \in DOMAIN build_signals(t)
  BY <1>1, <1>7, BuiltSignalTypes DEF NotesRead
<1>9. NoWorse(s, u)
  <2> DEFINE hits == t.keyword \cap DOMAIN t.notes
  <2>1. /\ u.keyword = IF m \in hits THEN Rank(hits, m) ELSE Absent
        /\ u.vector = IF m \in t.vector THEN row.similarity ELSE Absent
        /\ u.importance = row.importance /\ u.recency = row.recency
        /\ u.confidence = row.confidence /\ u.session = row.session /\ u.trust = row.trust
    BY <1>7 DEF build_signals
  <2>2. /\ s.keyword = IF row.matches THEN Rank(t.keyword, m) ELSE Absent
        /\ s.vector = IF t.degraded \/ t.filter = "archived" THEN Absent ELSE row.similarity
        /\ s.hops = Absent
        /\ s.importance = row.importance /\ s.recency = row.recency
        /\ s.confidence = row.confidence /\ s.session = row.session /\ s.trust = row.trust
    BY <1>2 DEF RowSignals
  <2>3. Rank(hits, m) \in Nat /\ Rank(t.keyword, m) \in Nat /\ Rank(hits, m) <= Rank(t.keyword, m)
    BY <1>1, RankShrinks
  <2> HIDE DEF s, u, row, hits
  <2>4. (m \in hits <=> row.matches) /\ Absent \notin Nat
    BY <1>5, <1>7 DEF hits, Absent
  <2>5. QED BY <1>6, <2>1, <2>2, <2>3, <2>4 DEF NoWorse
<1>10. linear_score(u) >= candidate_floor(u)
  BY <1>4, <1>8, <1>9, EvidenceAdmitted DEF Evidence
<1>11. QED BY <1>8, <1>10 DEF admitted

\* A write leaves to a recall what it has read, and adds no evidence.
LEMMA WritesKeepFound ==
    ASSUME NEW cs \in Seq(Corpus), NEW c \in Corpus, NEW t, t.started \in 1 .. Len(cs),
           Found(t, cs), Answered(t, cs)
    PROVE  Found(t, Append(cs, c)) /\ Answered(t, Append(cs, c))
<1> DEFINE new == Append(cs, c)
<1>1. /\ Len(cs) \in Nat /\ Len(new) = Len(cs) + 1
      /\ \A g \in 1 .. Len(cs) : new[g] = cs[g]
  OBVIOUS
<1> HIDE DEF new
<1>2. \A g \in t.started .. Len(cs) : g \in t.started .. Len(new) /\ new[g] = cs[g]
  BY <1>1
<1>3. new[t.started] = cs[t.started]
  BY <1>1
<1>4. \A m : Stands(t, new, m) => Stands(t, cs, m)
  BY <1>2, <1>3 DEF Stands
<1>5. \A m : Proves(t, new, m) => Proves(t, cs, m)
  BY <1>2, <1>4 DEF Proves
<1>6. (KeywordRead(t, cs) => KeywordRead(t, new)) /\ (VectorRead(t, cs) => VectorRead(t, new))
  BY <1>2 DEF KeywordRead, VectorRead
<1>7. NotesRead(t, cs) => NotesRead(t, new)
  BY <1>3, <1>4 DEF NotesRead
<1>8. Found(t, new)
  BY <1>6, <1>7 DEF Found
<1>9. Answered(t, new)
  BY <1>5 DEF Answered
<1>10. QED BY <1>8, <1>9 DEF new

\* A step of a search that keeps the query and what the channels brought up
SameQuery(t, u) ==
    /\ DOMAIN u = Fields /\ u.op = t.op /\ u.started = t.started /\ u.filter = t.filter
    /\ u.degraded = t.degraded
SameHits(t, u) == SameQuery(t, u) /\ u.keyword = t.keyword /\ u.vector = t.vector

\* Where the search goes on when all channels are read
SeedPcs == {"probe_keyword", "probe_vector", "seed_contested", "seed", "get_many"}

\* Seeding and Searched move the task on and leave what the channels found.
LEMMA SeedingMoves ==
    ASSUME NEW t, DOMAIN t = Fields, NEW u, u = Seeding(t) \/ u = Searched(t)
    PROVE  /\ SameHits(t, u) /\ u.graph = t.graph /\ u.pc \in SeedPcs
           /\ u.tosee = t.tosee \/ u.tosee = t.keyword
           /\ u.pc = "seed" => u.tosee # {}
<1>1. ASSUME NEW v, v = Seeding(t)
      PROVE  /\ SameHits(t, v) /\ v.graph = t.graph /\ v.pc \in SeedPcs
             /\ v.tosee = t.tosee \/ v.tosee = t.keyword
             /\ v.pc = "seed" => v.tosee # {}
  <2>1. CASE v = [t EXCEPT !.pc = "seed_contested", !.tosee = t.keyword]
    BY <2>1 DEF SameHits, SameQuery, SeedPcs, Fields
  <2>2. CASE v = [t EXCEPT !.pc = "get_many"]
    BY <2>2 DEF SameHits, SameQuery, SeedPcs, Fields
  <2>3. CASE v = [t EXCEPT !.pc = "seed", !.tosee = t.keyword] /\ t.keyword # {}
    BY <2>3 DEF SameHits, SameQuery, SeedPcs, Fields
  <2>4. QED BY <1>1, <2>1, <2>2, <2>3 DEF Seeding
<1>2. CASE u = [t EXCEPT !.pc = "probe_keyword"]
  BY <1>2 DEF SameHits, SameQuery, SeedPcs, Fields
<1>3. QED BY <1>1, <1>2 DEF Searched

\* A task that has read its channels, in one of these places
LEMMA SeedKeeps ==
    ASSUME NEW cs, NEW t, NEW u, SameHits(t, u), u.pc \in SeedPcs,
           t.keyword \subseteq Memories, t.vector \subseteq Memories,
           u.graph \subseteq Memories, u.tosee \subseteq Memories,
           u.pc = "seed" => u.tosee # {},
           KeywordRead(t, cs), VectorRead(t, cs)
    PROVE  Found(u, cs) /\ Answered(u, cs)
<1>1. KeywordRead(u, cs) /\ VectorRead(u, cs)
  BY DEF SameHits, SameQuery, KeywordRead, VectorRead
<1>2. QED BY <1>1 DEF SameHits, Found, Answered, SeedPcs, KeptPcs, AnswerPcs

\* So the hits stay found on the way to the batch fetch.
LEMMA SeedingKeeps ==
    ASSUME NEW cs, NEW t, DOMAIN t = Fields, NEW u, u = Seeding(t) \/ u = Searched(t),
           t.keyword \subseteq Memories, t.vector \subseteq Memories,
           t.graph \subseteq Memories, t.tosee \subseteq Memories,
           KeywordRead(t, cs), VectorRead(t, cs)
    PROVE  Found(u, cs) /\ Answered(u, cs)
  BY SeedingMoves, SeedKeeps

\* A reader's step in which its task becomes u, found in its turn
LEMMA OneFound ==
    ASSUME RecallInv, FoundInv, NEW r \in Readers, NEW u, Step(r, u), UNCHANGED corpora,
           u.op = "recall" => Found(u, corpora) /\ Answered(u, corpora)
    PROVE  FoundInv'
  BY DEF RecallInv, FoundInv, Step

\* Every step of the search, one case per read, keeps what is found.
LEMMA FoundSearch ==
    ASSUME RecallInv, FoundInv, NEW r \in Readers,
           \/ \E works \in BOOLEAN : embed(r, works)
           \/ keyword(r) \/ vector(r) \/ probe_keyword(r) \/ probe_vector(r)
           \/ seed_contested(r) \/ seed(r) \/ graph(r)
    PROVE  FoundInv'
<1> PICK t : t = task[r]
  OBVIOUS
<1>1. /\ DOMAIN t = Fields /\ Generation \in Nat \ {0}
      /\ Generation = Len(corpora) /\ corpus = corpora[Generation] /\ corpora \in Seq(Corpus)
  BY DEF RecallInv, FoundInv, Sound, Generation, corpus
<1>2. /\ UNCHANGED corpora /\ t.pc \in SearchPcs /\ t.op = "recall"
      /\ t.started \in 1 .. Len(corpora) /\ Len(corpora) \in t.started .. Len(corpora)
  <2>1. UNCHANGED corpora /\ t.pc \in SearchPcs
    BY DEF embed, keyword, vector, probe_keyword, probe_vector, seed_contested, seed, graph,
           Reads, Local, SearchPcs
  <2>2. t.op = "recall" /\ t.started \in 1 .. Len(corpora)
    BY <2>1 DEF RecallInv, Sound, RecallSound
  <2>3. QED BY <1>1, <2>1, <2>2
<1>3. Found(t, corpora) /\ corpus \in Corpus
  BY <1>1, <1>2 DEF FoundInv
<1>a. /\ t.keyword \subseteq Memories /\ t.vector \subseteq Memories
      /\ t.graph \subseteq Memories /\ t.tosee \subseteq Memories
  BY <1>3 DEF Found
<1> DEFINE Moved == \E u : Step(r, u) /\ Found(u, corpora) /\ Answered(u, corpora)
<1>4. ASSUME NEW works \in BOOLEAN, embed(r, works) PROVE Moved
  <2>1. PICK u : Step(r, u) /\ u = [t EXCEPT !.pc = "keyword", !.degraded = ~works]
    BY <1>4 DEF embed
  <2>2. /\ u.pc = "keyword" /\ u.keyword = t.keyword /\ u.vector = t.vector
        /\ u.graph = t.graph /\ u.tosee = t.tosee
    BY <1>1, <2>1 DEF Fields
  <2>3. Found(u, corpora) /\ Answered(u, corpora)
    BY <1>a, <2>2 DEF Found, Answered, KeptPcs, AnswerPcs
  <2>4. QED BY <2>1, <2>3
<1>5. ASSUME keyword(r) PROVE Moved
  <2>1. PICK found : found = [t EXCEPT !.keyword = keyword_search(t.filter, corpus)]
    OBVIOUS
  <2>2. /\ SameQuery(t, found) /\ found.keyword = keyword_search(found.filter, corpus)
        /\ found.vector = t.vector /\ found.graph = t.graph /\ found.tosee = t.tosee
    BY <1>1, <2>1 DEF SameQuery, Fields
  <2>3. KeywordRead(found, corpora) /\ found.keyword \subseteq Memories
    BY <1>1, <1>2, <2>2, SearchTypes DEF KeywordRead, SameQuery
  <2>4. CASE found.degraded \/ found.filter = "archived"
    <3>1. PICK u : Step(r, u) /\ u = Searched(found)
      BY <1>5, <2>1, <2>4 DEF keyword
    <3>2. VectorRead(found, corpora)
      BY <2>4 DEF VectorRead
    <3>3. Found(u, corpora) /\ Answered(u, corpora)
      BY <1>a, <2>2, <2>3, <3>1, <3>2, SeedingKeeps DEF SameQuery
    <3>4. QED BY <3>1, <3>3
  <2>5. CASE ~(found.degraded \/ found.filter = "archived")
    <3>1. PICK u : Step(r, u) /\ u = [found EXCEPT !.pc = "vector"]
      BY <1>5, <2>1, <2>5 DEF keyword
    <3>2. /\ u.pc = "vector" /\ u.keyword = found.keyword /\ u.vector = found.vector
          /\ u.graph = found.graph /\ u.tosee = found.tosee
          /\ u.started = found.started /\ u.filter = found.filter
      BY <2>2, <3>1 DEF SameQuery, Fields
    <3>3. KeywordRead(u, corpora)
      BY <2>3, <3>2 DEF KeywordRead
    <3>4. Found(u, corpora) /\ Answered(u, corpora)
      BY <1>a, <2>2, <2>3, <3>2, <3>3 DEF Found, Answered, KeptPcs, AnswerPcs
    <3>5. QED BY <3>1, <3>4
  <2>6. QED BY <2>4, <2>5
<1>6. ASSUME vector(r) PROVE Moved
  <2>1. PICK u, found : /\ found = [t EXCEPT !.vector = vector_search(t.filter, corpus)]
                        /\ Step(r, u) /\ u = Searched(found)
    BY <1>6 DEF vector
  <2>2. /\ SameQuery(t, found) /\ found.vector = vector_search(found.filter, corpus)
        /\ found.keyword = t.keyword /\ found.graph = t.graph /\ found.tosee = t.tosee
    BY <1>1, <2>1 DEF SameQuery, Fields
  <2>3. VectorRead(found, corpora) /\ found.vector \subseteq Memories
    BY <1>1, <1>2, <2>2, SearchTypes DEF VectorRead, SameQuery
  <2>4. KeywordRead(t, corpora)
    <3>1. t.pc = "vector"
      BY <1>6 DEF vector, Reads
    <3>2. QED BY <1>3, <3>1 DEF Found, SearchPcs
  <2>5. KeywordRead(found, corpora)
    BY <2>2, <2>4 DEF KeywordRead, SameQuery
  <2>6. Found(u, corpora) /\ Answered(u, corpora)
    BY <1>a, <2>1, <2>2, <2>3, <2>5, SeedingKeeps DEF SameQuery
  <2>7. QED BY <2>1, <2>6
<1>7. ASSUME t.pc \in SeedPcs \cup {"graph"} PROVE KeywordRead(t, corpora) /\ VectorRead(t, corpora)
  BY <1>3, <1>7 DEF Found, SearchPcs, SeedPcs
<1>8. ASSUME probe_keyword(r) \/ probe_vector(r) PROVE Moved
  <2>1. t.pc \in SeedPcs
    BY <1>8 DEF probe_keyword, probe_vector, Reads, SeedPcs
  <2>2. PICK u, v : /\ Step(r, u) /\ \E b : v = [t EXCEPT !.dropped = b]
                    /\ u = Seeding(v) \/ u = [v EXCEPT !.pc = "probe_vector"]
    BY <1>8 DEF probe_keyword, probe_vector
  <2>3. SameHits(t, v) /\ v.graph = t.graph /\ v.tosee = t.tosee
    BY <1>1, <2>2 DEF SameHits, SameQuery, Fields
  <2>4. KeywordRead(v, corpora) /\ VectorRead(v, corpora)
    BY <1>7, <2>1, <2>3 DEF SameHits, SameQuery, KeywordRead, VectorRead
  <2>5. CASE u = Seeding(v)
    <3>1. Found(u, corpora) /\ Answered(u, corpora)
      BY <1>a, <2>3, <2>4, <2>5, SeedingKeeps DEF SameHits, SameQuery
    <3>2. QED BY <2>2, <3>1
  <2>6. CASE u = [v EXCEPT !.pc = "probe_vector"]
    <3>1. /\ SameHits(v, u) /\ u.graph = t.graph /\ u.tosee = t.tosee
          /\ u.pc \in SeedPcs /\ u.pc # "seed"
      BY <2>3, <2>6 DEF SameHits, SameQuery, Fields, SeedPcs
    <3>2. v.keyword \subseteq Memories /\ v.vector \subseteq Memories
      BY <1>a, <2>3 DEF SameHits
    <3>3. Found(u, corpora) /\ Answered(u, corpora)
      BY <1>a, <2>4, <3>1, <3>2, SeedKeeps
    <3>4. QED BY <2>2, <3>3
  <2>7. QED BY <2>2, <2>5, <2>6
<1>9. ASSUME seed_contested(r) PROVE Moved
  <2>1. t.pc \in SeedPcs
    BY <1>9 DEF seed_contested, Reads, SeedPcs
  <2>2. PICK u : /\ Step(r, u)
                 /\ \E c, pc : /\ u = [t EXCEPT !.contested = c, !.pc = pc]
                               /\ pc = "get_many" \/ (pc = "seed" /\ t.tosee # {})
    BY <1>9 DEF seed_contested
  <2>3. /\ SameHits(t, u) /\ u.graph = t.graph /\ u.tosee = t.tosee
        /\ u.pc \in SeedPcs /\ (u.pc = "seed" => u.tosee # {})
    BY <1>1, <2>2 DEF SameHits, SameQuery, Fields, SeedPcs
  <2>4. Found(u, corpora) /\ Answered(u, corpora)
    BY <1>a, <1>7, <2>1, <2>3, SeedKeeps
  <2>5. QED BY <2>2, <2>4
<1>10. ASSUME seed(r) PROVE Moved
  <2>1. t.pc = "seed" /\ t.pc \in SeedPcs
    BY <1>10 DEF seed, Reads, SeedPcs
  <2>2. t.tosee # {}
    BY <1>3, <2>1 DEF Found
  <2>3. PICK m : m = Best(t.tosee)
    OBVIOUS
  <2>4. m \in t.tosee
    BY <1>a, <2>2, <2>3, BestIsAHit
  <2>5. PICK u : /\ Step(r, u)
                 /\ \/ u = [t EXCEPT !.pc = "graph"]
                    \/ u = [t EXCEPT !.tosee = t.tosee \ {m},
                                     !.pc = IF t.tosee = {m} THEN "get_many" ELSE "seed"]
    BY <1>10, <2>3 DEF seed
  <2>6. CASE u = [t EXCEPT !.pc = "graph"]
    <3>1. SameHits(t, u) /\ u.graph = t.graph /\ u.tosee = t.tosee /\ u.pc = "graph"
      BY <1>1, <2>6 DEF SameHits, SameQuery, Fields
    <3>2. KeywordRead(u, corpora) /\ VectorRead(u, corpora)
      BY <1>7, <2>1, <3>1 DEF SameHits, SameQuery, KeywordRead, VectorRead
    <3>3. Found(u, corpora) /\ Answered(u, corpora)
      BY <1>a, <2>2, <3>1, <3>2 DEF Found, Answered, SameHits, KeptPcs, AnswerPcs
    <3>4. QED BY <2>5, <3>3
  <2>7. CASE u = [t EXCEPT !.tosee = t.tosee \ {m},
                           !.pc = IF t.tosee = {m} THEN "get_many" ELSE "seed"]
    <3>1. /\ SameHits(t, u) /\ u.graph = t.graph /\ u.tosee = t.tosee \ {m} /\ u.pc \in SeedPcs
          /\ u.pc = "seed" => t.tosee # {m}
      BY <1>1, <2>7 DEF SameHits, SameQuery, Fields, SeedPcs
    <3>2. u.tosee \subseteq Memories /\ (u.pc = "seed" => u.tosee # {})
      BY <1>a, <2>4, <3>1
    <3>3. Found(u, corpora) /\ Answered(u, corpora)
      BY <1>a, <1>7, <2>1, <3>1, <3>2, SeedKeeps
    <3>4. QED BY <2>5, <3>3
  <2>8. QED BY <2>5, <2>6, <2>7
<1>11. ASSUME graph(r) PROVE Moved
  <2>1. t.pc = "graph"
    BY <1>11 DEF graph, Reads
  <2>2. Best(t.tosee) \in Memories
    BY <1>3, <1>a, <2>1, BestIsAHit DEF Found
  <2>3. corpus[Best(t.tosee)].links \subseteq Memories
    BY <1>3, <2>2 DEF Corpus, Note
  <2>4. PICK u : Step(r, u) /\ u = [t EXCEPT !.graph = corpus[Best(t.tosee)].links, !.pc = "get_many"]
    BY <1>11 DEF graph
  <2>5. /\ SameHits(t, u) /\ u.graph = corpus[Best(t.tosee)].links /\ u.tosee = t.tosee
        /\ u.pc \in SeedPcs /\ u.pc # "seed"
    BY <1>1, <2>4 DEF SameHits, SameQuery, Fields, SeedPcs
  <2>6. Found(u, corpora) /\ Answered(u, corpora)
    BY <1>a, <1>7, <2>1, <2>3, <2>5, SeedKeeps
  <2>7. QED BY <2>4, <2>6
<1>12. Moved
  BY <1>4, <1>5, <1>6, <1>8, <1>9, <1>10, <1>11
<1>13. QED BY <1>2, <1>12, OneFound

\* The ranking: whoever proved itself is in the answer, or the answer is full or withheld.
LEMMA RankAnswers ==
    ASSUME NEW cs \in Seq(Corpus), NEW t, DOMAIN t = Fields, t.started \in 1 .. Len(cs),
           t.pc = "rank", t.op = "recall", t.results = <<>>, Found(t, cs),
           NEW results \in ranked(t.mode, build_signals(t)), NEW u,
           u = IF abstains(t.mode, build_signals(t), results)
               THEN [t EXCEPT !.reason = "below_threshold", !.pc = "snapshot"]
               ELSE [t EXCEPT !.results = results, !.pc = "snapshot",
                              !.reason = IF results = <<>> THEN abstain_reason(t) ELSE "none"]
    PROVE  Found(u, cs) /\ Answered(u, cs)
<1>1. /\ t.keyword \subseteq Memories /\ t.vector \subseteq Memories
      /\ t.graph \subseteq Memories /\ t.tosee \subseteq Memories /\ NotesRead(t, cs)
  BY DEF Found, KeptPcs
<1>2. /\ SameQuery(t, u) /\ u.mode = t.mode /\ u.pc = "snapshot"
      /\ u.keyword = t.keyword /\ u.vector = t.vector /\ u.graph = t.graph /\ u.tosee = t.tosee
  BY DEF SameQuery, Fields
<1>3. Found(u, cs)
  BY <1>1, <1>2 DEF Found, SearchPcs, KeptPcs
<1>4. \A m : Proves(u, cs, m) <=> Proves(t, cs, m)
  BY <1>2 DEF SameQuery, Proves, Stands, RowSignals
<1>5. /\ u.reason = "below_threshold"
      \/ /\ u.results = results
         /\ u.reason = IF results = <<>> THEN abstain_reason(t) ELSE "none"
  BY DEF Fields
<1>6. ASSUME t.mode = "linear", NEW m, Proves(t, cs, m)
      PROVE  /\ m \in Range(results) \/ Len(results) = Limit
             /\ results # <<>>
  <2>1. m \in admitted("linear", build_signals(t))
    BY <1>6, ProofIsAdmitted
  <2>2. /\ DOMAIN build_signals(t) \subseteq Memories
        /\ \A k \in DOMAIN build_signals(t) : build_signals(t)[k] \in Signals
    BY <1>1, BuiltSignalTypes DEF NotesRead
  <2>3. results \in ranked("linear", build_signals(t))
    BY <1>6
  <2>4. /\ Len(results) = Limit \/ Range(results) = admitted("linear", build_signals(t))
        /\ results = <<>> => admitted("linear", build_signals(t)) = {}
    BY <2>2, <2>3, FullOrAll
  <2>5. QED BY <2>1, <2>4
<1>7. Answered(u, cs)
  <2>1. CASE u.reason = "below_threshold"
    BY <2>1 DEF Answered
  <2>2. CASE u.results = results /\ u.reason = IF results = <<>> THEN abstain_reason(t) ELSE "none"
    <3>1. u.mode = "linear" => \A m : Proves(u, cs, m) => m \in Range(u.results) \/ Len(u.results) = Limit
      BY <1>2, <1>4, <1>6, <2>2
    <3>2. ASSUME u.mode = "linear", NEW m, Proves(u, cs, m) PROVE u.reason = "none"
      BY <1>2, <1>4, <1>6, <2>2, <3>2
    <3>3. ASSUME u.degraded PROVE u.reason \notin {"no_candidates", "filter_excluded"}
      BY <1>2, <2>2, <3>3 DEF SameQuery, abstain_reason
    <3>4. QED BY <3>1, <3>2, <3>3 DEF Answered
  <2>3. QED BY <1>5, <2>1, <2>2
<1>8. QED BY <1>3, <1>7

\* The steps from the batch fetch to the answer keep it, and the ranking earns Answered.
LEMMA FoundAnswer ==
    ASSUME RecallInv, FoundInv, NEW r \in Readers,
           \/ get_many(r) \/ contested(r) \/ rank(r) \/ corpus_snapshot(r)
           \/ \E works \in BOOLEAN : annotate(r, works)
    PROVE  FoundInv'
<1> PICK t : t = task[r]
  OBVIOUS
<1>1. /\ DOMAIN t = Fields /\ Generation \in Nat \ {0} /\ Sound(t, corpora)
      /\ Generation = Len(corpora) /\ corpus = corpora[Generation] /\ corpora \in Seq(Corpus)
  BY DEF RecallInv, FoundInv, Sound, Generation, corpus
<1>2. /\ UNCHANGED corpora /\ t.pc \in {"get_many"} \cup KeptPcs \cup AnswerPcs
      /\ t.op = "recall" /\ t.started \in 1 .. Len(corpora)
      /\ Len(corpora) \in t.started .. Len(corpora)
  <2>1. UNCHANGED corpora /\ t.pc \in {"get_many"} \cup KeptPcs \cup AnswerPcs
    BY DEF get_many, contested, rank, corpus_snapshot, annotate, Reads, Local, KeptPcs, AnswerPcs
  <2>2. t.op = "recall" /\ t.started \in 1 .. Len(corpora)
    BY <1>1, <2>1 DEF Sound, RecallSound, SearchPcs, KeptPcs, AnswerPcs
  <2>3. QED BY <1>1, <2>1, <2>2
<1>3. Found(t, corpora) /\ Answered(t, corpora) /\ corpus \in Corpus
  BY <1>1, <1>2 DEF FoundInv
<1>4. /\ t.keyword \subseteq Memories /\ t.vector \subseteq Memories
      /\ t.graph \subseteq Memories /\ t.tosee \subseteq Memories
      /\ Candidates(t) \subseteq Memories
  BY <1>3 DEF Found, Candidates
<1>5. \A m : Stands(t, corpora, m) =>
             corpus[m] = corpora[t.started][m] /\ m \in eligible(t.filter, corpus)
  BY <1>1, <1>2 DEF Stands
<1> DEFINE Moved == \E u : Step(r, u) /\ Found(u, corpora) /\ Answered(u, corpora)
\* A step that hands the hits on to the next look at them
<1>6. ASSUME NEW u, SameHits(t, u), u.graph = t.graph, u.tosee = t.tosee, u.pc \in KeptPcs,
             u.pc = "contested" => u.filter = "contested",
             DOMAIN u.notes \subseteq Memories, \A m \in DOMAIN u.notes : u.notes[m] \in Note,
             \A m \in Candidates(t) :
                 Stands(t, corpora, m) => m \in DOMAIN u.notes /\ u.notes[m] = corpora[t.started][m],
             KeywordRead(t, corpora), VectorRead(t, corpora)
      PROVE  Found(u, corpora) /\ Answered(u, corpora)
  <2>1. KeywordRead(u, corpora) /\ VectorRead(u, corpora)
    BY <1>6 DEF SameHits, SameQuery, KeywordRead, VectorRead
  <2>2. \A m : Stands(u, corpora, m) <=> Stands(t, corpora, m)
    BY <1>6 DEF SameHits, SameQuery, Stands
  <2>3. Candidates(u) = Candidates(t) /\ u.started = t.started
    BY <1>6 DEF SameHits, SameQuery, Candidates
  <2>4. NotesRead(u, corpora)
    BY <1>6, <2>2, <2>3 DEF NotesRead
  <2>5. QED BY <1>4, <1>6, <2>1, <2>4 DEF SameHits, Found, Answered, KeptPcs, AnswerPcs
<1>7. ASSUME get_many(r) PROVE Moved
  <2> PICK kept : kept = {m \in Candidates(t) : matches(t.filter, corpus[m]) /\ trusted(corpus[m])}
    OBVIOUS
  <2> PICK d : d = (t.dropped \/ \E m \in Candidates(t) : ~matches(t.filter, corpus[m]))
    OBVIOUS
  <2> PICK pc \in KeptPcs : pc = IF t.filter = "contested" THEN "contested" ELSE "rank"
    BY DEF KeptPcs
  <2> PICK u : u = [t EXCEPT !.notes = [m \in kept |-> corpus[m]], !.dropped = d, !.pc = pc]
    OBVIOUS
  <2>1. Step(r, u)
    <3>1. Step(r, [t EXCEPT !.notes = [m \in kept |-> corpus[m]],
                            !.dropped = @ \/ \E m \in Candidates(t) : ~matches(t.filter, corpus[m]),
                            !.pc = IF t.filter = "contested" THEN "contested" ELSE "rank"])
      BY <1>7, Zenon DEF get_many
    <3>2. QED BY <1>1, <3>1 DEF Fields
  <2>2. /\ SameHits(t, u) /\ u.graph = t.graph /\ u.tosee = t.tosee /\ u.pc \in KeptPcs
        /\ u.pc = "contested" => u.filter = "contested"
        /\ u.notes = [m \in kept |-> corpus[m]]
    BY <1>1 DEF SameHits, SameQuery, Fields
  <2>3. DOMAIN u.notes \subseteq Memories /\ \A m \in DOMAIN u.notes : u.notes[m] \in Note
    BY <1>3, <1>4, <2>2 DEF Corpus
  <2>4. \A m \in Candidates(t) : Stands(t, corpora, m) =>
            m \in DOMAIN u.notes /\ u.notes[m] = corpora[t.started][m]
    BY <1>5, <2>2 DEF eligible
  <2>5. KeywordRead(t, corpora) /\ VectorRead(t, corpora)
    <3>1. t.pc = "get_many"
      BY <1>7 DEF get_many, Reads
    <3>2. QED BY <1>3, <3>1 DEF Found, SearchPcs
  <2>6. Found(u, corpora) /\ Answered(u, corpora)
    BY <1>6, <2>2, <2>3, <2>4, <2>5
  <2>7. QED BY <2>1, <2>6
<1>8. ASSUME contested(r) PROVE Moved
  <2> PICK kept : kept = DOMAIN t.notes \cap active_contradicts(corpus)
    OBVIOUS
  <2> PICK d : d = (t.dropped \/ kept # DOMAIN t.notes)
    OBVIOUS
  <2> PICK u : u = [t EXCEPT !.contested = kept, !.pc = "rank",
                             !.notes = [m \in kept |-> t.notes[m]], !.dropped = d]
    OBVIOUS
  <2>1. Step(r, u)
    <3>1. Step(r, [t EXCEPT !.contested = kept, !.pc = "rank",
                            !.notes = [m \in kept |-> t.notes[m]],
                            !.dropped = @ \/ kept # DOMAIN t.notes])
      BY <1>8, Zenon DEF contested
    <3>2. QED BY <1>1, <3>1 DEF Fields
  <2>2. /\ SameHits(t, u) /\ u.graph = t.graph /\ u.tosee = t.tosee /\ u.pc = "rank"
        /\ u.pc \in KeptPcs /\ u.notes = [m \in kept |-> t.notes[m]]
    BY <1>1 DEF SameHits, SameQuery, Fields, KeptPcs
  <2>3. /\ KeywordRead(t, corpora) /\ VectorRead(t, corpora) /\ NotesRead(t, corpora)
        /\ t.filter = "contested"
    <3>1. t.pc = "contested"
      BY <1>8 DEF contested, Reads
    <3>2. QED BY <1>3, <3>1 DEF Found, SearchPcs, KeptPcs
  <2>4. DOMAIN u.notes \subseteq Memories /\ \A m \in DOMAIN u.notes : u.notes[m] \in Note
    BY <2>2, <2>3 DEF NotesRead
  <2>5. \A m : Stands(t, corpora, m) => m \in active_contradicts(corpus)
    BY <1>5, <2>3 DEF eligible, wanted
  <2>6. \A m \in Candidates(t) : Stands(t, corpora, m) =>
            m \in DOMAIN u.notes /\ u.notes[m] = corpora[t.started][m]
    BY <2>2, <2>3, <2>5 DEF NotesRead
  <2>7. Found(u, corpora) /\ Answered(u, corpora)
    BY <1>6, <2>2, <2>3, <2>4, <2>6
  <2>8. QED BY <2>1, <2>7
<1>9. ASSUME rank(r) PROVE Moved
  <2>1. t.pc = "rank"
    BY <1>9 DEF rank, Local
  <2>2. t.results = <<>>
    BY <1>1, <2>1 DEF Sound, RecallSound, KeptPcs
  <2> PICK results \in ranked(t.mode, build_signals(t)) :
          Step(r, IF abstains(t.mode, build_signals(t), results)
                  THEN [t EXCEPT !.reason = "below_threshold", !.pc = "snapshot"]
                  ELSE [t EXCEPT !.results = results, !.pc = "snapshot",
                                 !.reason = IF results = <<>> THEN abstain_reason(t) ELSE "none"])
    BY <1>9, Zenon DEF rank
  <2>3. PICK u :
          /\ Step(r, u)
          /\ u = IF abstains(t.mode, build_signals(t), results)
                 THEN [t EXCEPT !.reason = "below_threshold", !.pc = "snapshot"]
                 ELSE [t EXCEPT !.results = results, !.pc = "snapshot",
                                !.reason = IF results = <<>> THEN abstain_reason(t) ELSE "none"]
    OBVIOUS
  <2>4. Found(u, corpora) /\ Answered(u, corpora)
    BY <1>1, <1>2, <1>3, <2>1, <2>2, <2>3, RankAnswers
  <2>5. QED BY <2>3, <2>4
<1>10. ASSUME corpus_snapshot(r) \/ \E works \in BOOLEAN : annotate(r, works) PROVE Moved
  <2>1. t.pc \in AnswerPcs
    BY <1>10 DEF corpus_snapshot, annotate, Reads, AnswerPcs
  <2>2. PICK u, v :
          /\ Step(r, u)
          /\ (\E n : v = [t EXCEPT !.snapshot = n]) \/ \E c : v = [t EXCEPT !.contested = c]
          /\ u = Done(v) \/ u = [v EXCEPT !.pc = "annotate"]
    BY <1>10 DEF corpus_snapshot, annotate
  <2>3. /\ SameHits(t, v) /\ v.mode = t.mode /\ v.results = t.results /\ v.reason = t.reason
        /\ v.graph = t.graph /\ v.tosee = t.tosee
    BY <1>1, <2>2 DEF SameHits, SameQuery, Fields
  <2>4. /\ SameQuery(t, u) /\ u.mode = t.mode /\ u.results = t.results /\ u.reason = t.reason
        /\ u.pc \in {"annotate", "done"}
        /\ u.keyword \subseteq Memories /\ u.vector \subseteq Memories
        /\ u.graph \subseteq Memories /\ u.tosee \subseteq Memories
    <3>1. CASE u = Done(v)
      BY <2>3, <3>1 DEF SameHits, SameQuery, Fields, Done, NoTask
    <3>2. CASE u = [v EXCEPT !.pc = "annotate"]
      BY <1>4, <2>3, <3>2 DEF SameHits, SameQuery, Fields
    <3>3. QED BY <2>2, <3>1, <3>2
  <2>5. Found(u, corpora)
    BY <2>4 DEF Found, SearchPcs, KeptPcs
  <2>6. \A m : Proves(u, corpora, m) <=> Proves(t, corpora, m)
    BY <2>4 DEF SameQuery, Proves, Stands, RowSignals
  <2>7. Answered(u, corpora)
    BY <1>3, <2>1, <2>4, <2>6 DEF Answered, SameQuery
  <2>8. QED BY <2>2, <2>5, <2>7
<1>11. Moved
  BY <1>7, <1>8, <1>9, <1>10
<1>12. QED BY <1>2, <1>11, OneFound

\* A task that begins or ends has nothing in hand.
LEMMA FoundOther ==
    ASSUME RecallInv, FoundInv, NEW r \in Readers,
           \/ \E f \in Filters, mode \in Modes : recall(r, f, mode)
           \/ context(r) \/ before(r) \/ list(r) \/ disputes(r) \/ after(r)
           \/ get(r) \/ get_scoped(r) \/ contested_set(r) \/ aborted(r)
    PROVE  FoundInv'
<1> PICK t : t = task[r]
  OBVIOUS
<1>1. DOMAIN t = Fields /\ Sound(t, corpora)
  BY DEF RecallInv, Sound
<1>2. UNCHANGED corpora
  BY DEF recall, context, before, list, disputes, after, get, get_scoped, contested_set, aborted,
         Local, Reads
<1> DEFINE Moved ==
        \E u : Step(r, u) /\ (u.op = "recall" => Found(u, corpora) /\ Answered(u, corpora))
<1>3. ASSUME NEW f \in Filters, NEW mode \in Modes, recall(r, f, mode) PROVE Moved
  <2>1. PICK u : Step(r, u) /\ u = [NoTask EXCEPT !.op = "recall", !.pc = "embed", !.filter = f,
                                                  !.mode = mode, !.started = Generation]
    BY <1>3 DEF recall
  <2>2. u.pc = "embed" /\ u.keyword = {} /\ u.vector = {} /\ u.graph = {} /\ u.tosee = {}
    BY <2>1 DEF NoTask
  <2>3. Found(u, corpora) /\ Answered(u, corpora)
    BY <2>2 DEF Found, Answered, KeptPcs, AnswerPcs
  <2>4. QED BY <2>1, <2>3
<1>4. ASSUME before(r) \/ list(r) \/ disputes(r) \/ after(r) PROVE Moved
  <2>1. t.op = "context"
    BY <1>1, <1>4 DEF before, list, disputes, after, Reads, Sound, ContextSound, ContextPcs
  <2>2. PICK u : Step(r, u) /\ u.op = "context"
    <3>1. CASE before(r)
      <4>1. PICK u : Step(r, u) /\ u = [t EXCEPT !.snapshot = Generation, !.pc = "list"]
        BY <3>1 DEF before
      <4>2. u.op = "context"
        BY <1>1, <2>1, <4>1 DEF Fields
      <4>3. QED BY <4>1, <4>2
    <3>2. CASE list(r)
      <4>1. PICK u : Step(r, u) /\ u = [t EXCEPT !.graph = EntriesOf(corpus),
                                                 !.pc = "active_contradicts"]
        BY <3>2 DEF list, EntriesOf
      <4>2. u.op = "context"
        BY <1>1, <2>1, <4>1 DEF Fields
      <4>3. QED BY <4>1, <4>2
    <3>3. CASE disputes(r)
      <4>1. PICK u : Step(r, u) /\ u = [t EXCEPT !.contested = active_contradicts(corpus) \cap t.graph,
                                                 !.pc = "after"]
        BY <3>3 DEF disputes
      <4>2. u.op = "context"
        BY <1>1, <2>1, <4>1 DEF Fields
      <4>3. QED BY <4>1, <4>2
    <3>4. CASE after(r)
      <4>1. PICK u :
              /\ Step(r, u)
              /\ \/ u = [Done(t) EXCEPT !.vector = Entries(t)]
                 \/ u = [t EXCEPT !.pc = "before", !.attempt = t.attempt + 1, !.graph = {}, !.contested = {}]
                 \/ u = [Done(t) EXCEPT !.reason = "stale_plan", !.contested = {}]
        BY <3>4 DEF after
      <4>2. u.op = "context"
        BY <1>1, <2>1, <4>1 DEF Done, NoTask, Fields
      <4>3. QED BY <4>1, <4>2
    <3>5. QED BY <1>4, <3>1, <3>2, <3>3, <3>4
  <2>3. QED BY <2>2
<1>5. ASSUME get_scoped(r) PROVE Moved
  <2>1. PICK u : Step(r, u) /\ u = [t EXCEPT !.pc = "contested_set"]
    BY <1>5 DEF get_scoped
  <2>2. /\ u.pc = "contested_set" /\ u.op = t.op /\ u.keyword = t.keyword /\ u.vector = t.vector
        /\ u.graph = t.graph /\ u.tosee = t.tosee
    BY <1>1, <2>1 DEF Fields
  <2>3. t.op = "recall" => Found(t, corpora)
    BY DEF FoundInv
  <2>4. u.op = "recall" => Found(u, corpora) /\ Answered(u, corpora)
    BY <2>2, <2>3 DEF Found, Answered, SearchPcs, KeptPcs, AnswerPcs
  <2>5. QED BY <2>1, <2>4
<1>6. ASSUME context(r) \/ get(r) \/ contested_set(r) \/ aborted(r) PROVE Moved
  <2>1. PICK u :
          /\ Step(r, u)
          /\ \/ u = NoTask \/ u = [NoTask EXCEPT !.pc = "done"]
             \/ u = [NoTask EXCEPT !.op = "get", !.pc = "get_scoped"]
             \/ u = [NoTask EXCEPT !.op = "context", !.pc = "before", !.attempt = 1,
                                   !.started = Generation]
    BY <1>6 DEF context, get, contested_set, aborted
  <2>2. u.op \in {"none", "get", "context"}
    <3>1. CASE u = NoTask
      BY <3>1 DEF NoTask
    <3>2. CASE u = [NoTask EXCEPT !.pc = "done"]
      BY <3>2 DEF NoTask
    <3>3. CASE u = [NoTask EXCEPT !.op = "get", !.pc = "get_scoped"]
      BY <3>3 DEF NoTask
    <3>4. CASE u = [NoTask EXCEPT !.op = "context", !.pc = "before", !.attempt = 1,
                                  !.started = Generation]
      BY <3>4 DEF NoTask
    <3>5. QED BY <2>1, <3>1, <3>2, <3>3, <3>4
  <2>3. QED BY <2>1, <2>2
<1>7. Moved
  BY <1>3, <1>4, <1>5, <1>6
<1>8. QED BY <1>2, <1>7, OneFound

\* A write leaves a row a row.
LEMMA NotesChange ==
    ASSUME NEW n \in Note, NEW b \in BOOLEAN
    PROVE  /\ [n EXCEPT !.live = b] \in Note
           /\ [n EXCEPT !.contested = b] \in Note
           /\ [n EXCEPT !.confidence = 10] \in Note
<1>1. [n EXCEPT !.live = b] \in Note
  BY DEF Note
<1>2. [n EXCEPT !.contested = b] \in Note
  BY DEF Note
<1>3. [n EXCEPT !.confidence = 10] \in Note
  BY DEF Note
<1>4. QED BY <1>1, <1>2, <1>3

\* A write by another client, one case per command.
LEMMA FoundWrite ==
    ASSUME RecallInv, FoundInv, NEW m \in Memories,
           archive(m) \/ memory_feedback_wrong(m) \/ link_contradicts(m) \/ unlink(m)
    PROVE  FoundInv'
<1>1. /\ corpora \in Seq(Corpus) /\ corpus \in Corpus
  <2>1. corpora \in Seq(Corpus) /\ Len(corpora) \in Nat \ {0} /\ corpus = corpora[Len(corpora)]
    BY DEF RecallInv, FoundInv, Generation, corpus
  <2>2. QED BY <2>1
<1>2. PICK c : Writes(c) /\ c \in Corpus
  <2>1. ASSUME NEW c, c \in {[corpus EXCEPT ![m].live = FALSE], [corpus EXCEPT ![m].confidence = 10],
                             [corpus EXCEPT ![m].contested = TRUE],
                             [corpus EXCEPT ![m].contested = FALSE]}
        PROVE  c \in Corpus
    <3>1. corpus[m] \in Note /\ DOMAIN corpus = Memories
      BY <1>1 DEF Corpus
    <3>2. PICK n : n \in {[corpus[m] EXCEPT !.live = FALSE], [corpus[m] EXCEPT !.confidence = 10],
                          [corpus[m] EXCEPT !.contested = TRUE],
                          [corpus[m] EXCEPT !.contested = FALSE]}
                   /\ c = [corpus EXCEPT ![m] = n]
      BY <2>1
    <3>3. n \in Note
      BY <3>1, <3>2, NotesChange
    <3>4. QED BY <1>1, <3>2, <3>3 DEF Corpus
  <2>2. QED BY <2>1 DEF archive, memory_feedback_wrong, link_contradicts, unlink
<1>3. corpora' = Append(corpora, c) /\ UNCHANGED task
  BY <1>2 DEF Writes
<1>4. corpora' \in Seq(Corpus)
  BY <1>1, <1>2, <1>3
<1>5. ASSUME NEW r \in Readers, task[r].op = "recall"
      PROVE  Found(task[r], corpora') /\ Answered(task[r], corpora')
  <2>1. task[r].started \in 1 .. Len(corpora)
    BY <1>5 DEF RecallInv, Sound, RecallSound
  <2>2. Found(task[r], corpora) /\ Answered(task[r], corpora)
    BY <1>5 DEF FoundInv
  <2>3. QED BY <1>1, <1>2, <1>3, <2>1, <2>2, WritesKeepFound
<1>6. QED BY <1>3, <1>4, <1>5 DEF FoundInv

\* Every step of every reader and of the writer.
LEMMA FoundStep == RecallInv /\ FoundInv /\ [RecallNext]_allvars => FoundInv'
<1> SUFFICES ASSUME RecallInv, FoundInv, [RecallNext]_allvars PROVE FoundInv'
  OBVIOUS
<1>1. ASSUME NEW r \in Readers,
             \/ \E f \in Filters, mode \in Modes : recall(r, f, mode)
             \/ \E works \in BOOLEAN : embed(r, works) \/ annotate(r, works)
             \/ keyword(r) \/ vector(r) \/ probe_keyword(r) \/ probe_vector(r)
             \/ seed_contested(r) \/ seed(r) \/ graph(r)
             \/ get_many(r) \/ contested(r) \/ rank(r) \/ corpus_snapshot(r)
             \/ context(r) \/ before(r) \/ list(r) \/ disputes(r) \/ after(r)
             \/ get(r) \/ get_scoped(r) \/ contested_set(r)
             \/ pool(r) \/ aborted(r)
      PROVE  FoundInv'
  <2>1. CASE pool(r)
    BY <2>1 DEF pool, FoundInv
  <2>2. QED BY <1>1, <2>1, FoundSearch, FoundAnswer, FoundOther
<1>2. CASE UNCHANGED allvars
  BY <1>2 DEF allvars, FoundInv
<1>3. QED BY <1>1, <1>2, FoundWrite DEF RecallNext

\* What stood all along, within the candidate_limit of every channel that hits it, and reaches
\* its floor by its own row is in the answer, unless the answer is full or withheld, and an
\* empty answer is never blamed on the corpus when there is such a memory or when the vectors
\* were not searched: for any corpora, filters, scores and cutoffs, however many writes fall
\* between the reads of recall_with_status.
THEOREM EvidenceIsReturned == RecallSpec => []EvidenceReturned
<1>1. RecallInit => FoundInv
  <2> SUFFICES ASSUME RecallInit PROVE FoundInv
    OBVIOUS
  <2>1. PICK c \in Corpora : corpora = <<c>>
    BY DEF RecallInit
  <2>2. c \in Corpus
    BY RecallAssumption DEF Corpus
  <2>3. corpora \in Seq(Corpus)
    BY <2>1, <2>2
  <2>4. \A r \in Readers : task[r].op # "recall"
    BY DEF RecallInit, NoTask
  <2>5. QED BY <2>3, <2>4 DEF FoundInv
<1>2. FoundInv => EvidenceReturned
  <2> SUFFICES ASSUME FoundInv, NEW r \in Finished("recall")
               PROVE  /\ task[r].mode = "linear" =>
                             \/ Evident(r) \subseteq Range(task[r].results)
                             \/ Len(task[r].results) = Limit
                             \/ task[r].reason = "below_threshold"
                      /\ task[r].degraded \/ (task[r].mode = "linear" /\ Evident(r) # {}) =>
                             task[r].reason \notin {"no_candidates", "filter_excluded"}
    BY DEF EvidenceReturned
  <2>1. r \in Readers /\ task[r].pc = "done" /\ Answered(task[r], corpora)
    BY DEF Finished, FoundInv
  <2>2. \A m : m \in Evident(r) <=> Proves(task[r], corpora, m)
    BY DEF Evident, Proves, Stands, OwnSignals, RowSignals, During, Generation
  <2>3. QED BY <2>1, <2>2 DEF Answered
<1>3. QED BY <1>1, <1>2, FoundStep, RecallAlways, PTL DEF RecallSpec

=============================================================================
