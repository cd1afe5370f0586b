------------------------------- MODULE Recall -------------------------------
(***************************************************************************)
(* The engine's two composite reads, recall_with_status and context: each  *)
(* is a sequence of reads through the pool (ReadPool), between any two of  *)
(* which the writer may commit.  corpora[g] is the namespace as of         *)
(* generation g, and every committed write appends one.                    *)
(***************************************************************************)
EXTENDS ReadPool, Ranking, Sequences, SequencesExt

CONSTANTS
    Recallers,  \* readers that recall and prepare contexts; the others get memories
    Memories,   \* numbers, in the order bm25 ranks them for the query; they break ties
    Corpora,    \* the corpora a run starts from
    Filters,    \* the filters asked for: none, tagged, contested, archived
    Modes,      \* fusion modes: linear, rrf
    Limit,      \* results asked for
    Headroom,   \* candidates a channel gives for each of them: 4
    ContextLimit, \* entries of a context: 50
    MaxWrites   \* bound: writes by other clients

\* A memory with what the query's words and vector make of it
Note == [matches : BOOLEAN, similarity : {Absent} \cup 0 .. 100, importance : 0 .. 10,
         recency : 0 .. 100, confidence : 0 .. 100, session : BOOLEAN, trust : 70 .. 100,
         quarantined : BOOLEAN, tagged : BOOLEAN, contested : BOOLEAN, live : BOOLEAN,
         links : SUBSET Memories]

ASSUME RecallAssumption ==
    /\ Recallers \subseteq Readers
    /\ Memories \subseteq Nat \ {0} /\ IsFiniteSet(Memories)
    /\ Corpora \subseteq [Memories -> Note]
    /\ Filters \subseteq {"none", "tagged", "contested", "archived"}
    /\ Modes \subseteq {"linear", "rrf"}
    /\ Limit \in Nat \ {0} /\ Headroom \in Nat \ {0} /\ ContextLimit \in Nat \ {0}
    /\ MaxWrites \in Nat

VARIABLES
    corpora,   \* the states of the namespace, the last one present
    task       \* what each reader is doing

allvars == <<vars, corpora, task>>

Generation == Len(corpora)
corpus == corpora[Generation]

NoTask == [op |-> "none", pc |-> "none", filter |-> "none", mode |-> "linear",
           degraded |-> FALSE, keyword |-> {}, vector |-> {}, tosee |-> {},
           contested |-> {}, graph |-> {}, notes |-> <<>>, dropped |-> FALSE,
           results |-> <<>>, reason |-> "none", snapshot |-> 0, attempt |-> 0, started |-> 0]

RecallInit ==
    /\ Init
    /\ \E c \in Corpora : corpora = <<c>>
    /\ task = [r \in Readers |-> NoTask]

-----------------------------------------------------------------------------
(* What a read finds in a corpus c *)

\* RecallFilter::matches: the metadata and the state; contested needs the links.
matches(f, n) == (f = "tagged" => n.tagged) /\ n.live = (f # "archived")

\* not is_quarantined and not below_recall_confidence_floor
trusted(n) == ~n.quarantined /\ n.confidence > 10

active_contradicts(c) == {m \in Memories : c[m].contested /\ c[m].live}

wanted(f, m, contested) == f = "contested" => m \in contested

\* the eligibility every direct channel applies before its cutoff
eligible(f, c) ==
    {m \in Memories : matches(f, c[m]) /\ trusted(c[m]) /\ wanted(f, m, active_contradicts(c))}

\* The order bm25 gives to a set of hits: its first, and the rank of m among them
Best(hits) == CHOOSE m \in hits : \A k \in hits : m <= k
Rank(hits, m) == Cardinality({k \in hits : k < m})

keyword_hits(f, c) == {m \in eligible(f, c) : c[m].matches}
vector_hits(f, c) == {m \in eligible(f, c) : c[m].live /\ c[m].similarity # Absent}

Nearer(c, k, m) ==
    c[k].similarity > c[m].similarity \/ (c[k].similarity = c[m].similarity /\ k < m)

\* A direct channel gives the best of its hits, as many as candidate_limit.
candidate_limit == Limit * Headroom

keyword_search(f, c) ==
    LET hits == keyword_hits(f, c)
    IN {m \in hits : Rank(hits, m) < candidate_limit}

vector_search(f, c) ==
    LET hits == vector_hits(f, c)
    IN {m \in hits : Cardinality({k \in hits : Nearer(c, k, m)}) < candidate_limit}

-----------------------------------------------------------------------------
(* recall_with_status *)

Step(r, new) == task' = [task EXCEPT ![r] = new]

\* The read a task waits for happens, and its connection goes back to the pool.
Reads(r, pc) == task[r].pc = pc /\ drop_guard(r) /\ UNCHANGED corpora

Local(r, pc) == task[r].pc = pc /\ phase[r] = "idle" /\ UNCHANGED <<vars, corpora>>

recall(r, f, mode) ==
    /\ r \in Recallers /\ Local(r, "none")
    /\ Step(r, [NoTask EXCEPT !.op = "recall", !.pc = "embed", !.filter = f, !.mode = mode,
                              !.started = Generation])

\* The query is embedded, or recall goes on without the vector channel.
embed(r, works) ==
    /\ Local(r, "embed")
    /\ Step(r, [task[r] EXCEPT !.pc = "keyword", !.degraded = ~works])

\* After the direct channels: the probe for why a filter found nothing, or the seed of the
\* graph expansion, which a contested filter looks up the links for.
Seeding(t) ==
    IF t.filter = "contested" THEN [t EXCEPT !.pc = "seed_contested", !.tosee = t.keyword]
    ELSE IF t.keyword = {} THEN [t EXCEPT !.pc = "get_many"]
    ELSE [t EXCEPT !.pc = "seed", !.tosee = t.keyword]

Searched(t) ==
    IF t.filter # "none" /\ t.keyword = {} /\ t.vector = {} /\ ~t.degraded
    THEN [t EXCEPT !.pc = "probe_keyword"] ELSE Seeding(t)

keyword(r) ==
    /\ Reads(r, "keyword")
    /\ LET found == [task[r] EXCEPT !.keyword = keyword_search(task[r].filter, corpus)]
       IN Step(r, IF found.degraded \/ found.filter = "archived" THEN Searched(found)
                  ELSE [found EXCEPT !.pc = "vector"])

vector(r) ==
    /\ Reads(r, "vector")
    /\ Step(r, Searched([task[r] EXCEPT !.vector = vector_search(task[r].filter, corpus)]))

\* The keyword channel without the filter, the state apart, and if that finds nothing the
\* vector channel, which has no archived rows
probe_keyword(r) ==
    /\ Reads(r, "probe_keyword")
    /\ LET found == keyword_search(IF task[r].filter = "archived" THEN "archived" ELSE "none", corpus)
           probed == [task[r] EXCEPT !.dropped = found # {}]
       IN Step(r, IF probed.dropped \/ task[r].filter = "archived" THEN Seeding(probed)
                  ELSE [probed EXCEPT !.pc = "probe_vector"])

probe_vector(r) ==
    /\ Reads(r, "probe_vector")
    /\ Step(r, Seeding([task[r] EXCEPT !.dropped = vector_search("none", corpus) # {}]))

seed_contested(r) ==
    /\ Reads(r, "seed_contested")
    /\ Step(r, [task[r] EXCEPT !.contested = active_contradicts(corpus) \cap task[r].keyword,
                               !.pc = IF task[r].tosee = {} THEN "get_many" ELSE "seed"])

\* The keyword hits are fetched one by one until one is still eligible.
seed(r) ==
    /\ Reads(r, "seed")
    /\ LET m == Best(task[r].tosee)
           good == /\ matches(task[r].filter, corpus[m]) /\ trusted(corpus[m])
                   /\ wanted(task[r].filter, m, task[r].contested)
       IN Step(r, IF good THEN [task[r] EXCEPT !.pc = "graph"]
                  ELSE [task[r] EXCEPT !.tosee = @ \ {m},
                                       !.pc = IF task[r].tosee = {m} THEN "get_many" ELSE "seed"])

\* graph_neighbors at depth 1, whatever the state of the neighbours
graph(r) ==
    /\ Reads(r, "graph")
    /\ Step(r, [task[r] EXCEPT !.graph = corpus[Best(task[r].tosee)].links, !.pc = "get_many"])

Candidates(t) == t.keyword \cup t.vector \cup t.graph

\* Mutant: what a channel found is not looked at again
get_many_trusting(r) ==
    /\ Reads(r, "get_many")
    /\ LET t == task[r]
       IN Step(r, [t EXCEPT !.notes = [m \in Candidates(t) |-> corpus[m]],
                            !.pc = IF t.filter = "contested" THEN "contested" ELSE "rank"])

\* The batch fetch; a candidate that no longer matches is dropped by the filter, one that
\* is not trusted is dropped without a word.
get_many(r) ==
    /\ Reads(r, "get_many")
    /\ LET t == task[r]
           kept == {m \in Candidates(t) : matches(t.filter, corpus[m]) /\ trusted(corpus[m])}
       IN Step(r, [t EXCEPT
              !.notes = [m \in kept |-> corpus[m]],
              !.dropped = @ \/ \E m \in Candidates(t) : ~matches(t.filter, corpus[m]),
              !.pc = IF t.filter = "contested" THEN "contested" ELSE "rank"])

contested(r) ==
    /\ Reads(r, "contested")
    /\ LET t == task[r]
           kept == DOMAIN t.notes \cap active_contradicts(corpus)
       IN Step(r, [t EXCEPT !.contested = kept, !.pc = "rank",
                            !.notes = [m \in kept |-> t.notes[m]],
                            !.dropped = @ \/ kept # DOMAIN t.notes])

\* build_signals over the notes that are left: ranks close up over dropped hits.
build_signals(t) ==
    LET hits == t.keyword \cap DOMAIN t.notes
    IN [m \in DOMAIN t.notes |->
           [keyword |-> IF m \in hits THEN Rank(hits, m) ELSE Absent,
            vector |-> IF m \in t.vector THEN t.notes[m].similarity ELSE Absent,
            hops |-> IF m \in t.graph THEN 1 ELSE Absent,
            importance |-> t.notes[m].importance, recency |-> t.notes[m].recency,
            confidence |-> t.notes[m].confidence,
            session |-> t.notes[m].session, trust |-> t.notes[m].trust]]

score(mode, signals, m) ==
    IF mode = "linear" THEN linear_score(signals[m]) ELSE rrf_score(signals, m)

admitted(mode, signals) ==
    {m \in DOMAIN signals :
        mode = "linear" => linear_score(signals[m]) >= candidate_floor(signals[m])}

\* The answers there may be: the best Limit of those admitted, the higher score first.
\* Equal scores keep the order of the memories, so there is one.
ranked(mode, signals) ==
    LET before(a, b) == \/ score(mode, signals, a) > score(mode, signals, b)
                        \/ score(mode, signals, a) = score(mode, signals, b) /\ a < b
        all == admitted(mode, signals)
        n == IF Cardinality(all) > Limit THEN Limit ELSE Cardinality(all)
    IN {best \in [1 .. n -> all] :
           /\ \A i, j \in 1 .. n : i < j => before(best[i], best[j])
           /\ \A i \in 1 .. n, m \in all \ Range(best) : before(best[i], m)}

\* The gate judges the first result alone.
abstains(mode, signals, results) ==
    /\ mode = "linear" /\ results # <<>>
    /\ linear_score(signals[results[1]]) < abstain_bar(signals[results[1]])

abstain_reason(t) ==
    IF t.degraded THEN "degraded_backend"
    ELSE IF t.dropped THEN "filter_excluded"
    ELSE IF DOMAIN t.notes = {} THEN "no_candidates"
    ELSE "below_threshold"

rank(r) ==
    /\ Local(r, "rank")
    /\ LET t == task[r]
           signals == build_signals(t)
       IN \E results \in ranked(t.mode, signals) :
             Step(r, IF abstains(t.mode, signals, results)
                     THEN [t EXCEPT !.reason = "below_threshold", !.pc = "snapshot"]
                     ELSE [t EXCEPT !.results = results, !.pc = "snapshot",
                                    !.reason = IF results = <<>> THEN abstain_reason(t) ELSE "none"])

\* What is kept of a task that is done
Done(t) == [NoTask EXCEPT !.op = t.op, !.pc = "done", !.filter = t.filter, !.mode = t.mode,
                          !.degraded = t.degraded, !.results = t.results, !.reason = t.reason,
                          !.snapshot = t.snapshot, !.contested = t.contested,
                          !.started = t.started]

corpus_snapshot(r) ==
    /\ Reads(r, "snapshot")
    /\ LET t == [task[r] EXCEPT !.snapshot = Generation]
       IN Step(r, IF t.results = <<>> \/ t.filter = "contested" THEN Done(t)
                  ELSE [t EXCEPT !.pc = "annotate"])

\* contested_set: results are flagged, or not when the lookup fails
annotate(r, works) ==
    /\ Reads(r, "annotate")
    /\ Step(r, Done([task[r] EXCEPT !.contested =
                         IF works THEN active_contradicts(corpus) \cap Range(task[r].results)
                         ELSE {}]))

-----------------------------------------------------------------------------
(* context: the stable entries, with their disputes, as of one generation *)

Stable(c) == {m \in Memories : c[m].live /\ c[m].tagged /\ trusted(c[m])}

\* The most important ContextLimit of them
list_filtered(c) ==
    {m \in Stable(c) :
        Cardinality({k \in Stable(c) : \/ c[k].importance > c[m].importance
                                       \/ c[k].importance = c[m].importance /\ k < m}) < ContextLimit}

Project(c) ==
    {[entry |-> m, contested |-> m \in active_contradicts(c)] : m \in list_filtered(c)}

context(r) ==
    /\ r \in Recallers /\ Local(r, "none")
    /\ Step(r, [NoTask EXCEPT !.op = "context", !.pc = "before", !.attempt = 1,
                              !.started = Generation])

before(r) ==
    /\ Reads(r, "before")
    /\ Step(r, [task[r] EXCEPT !.snapshot = Generation, !.pc = "list"])

list(r) ==
    /\ Reads(r, "list")
    /\ Step(r, [task[r] EXCEPT !.graph = {e.entry : e \in Project(corpus)},
                               !.pc = "active_contradicts"])

disputes(r) ==
    /\ Reads(r, "active_contradicts")
    /\ Step(r, [task[r] EXCEPT !.contested = active_contradicts(corpus) \cap task[r].graph,
                               !.pc = "after"])

Entries(t) == {[entry |-> m, contested |-> m \in t.contested] : m \in t.graph}

\* Mutant: the generation is not read again
after_unchecked(r) ==
    /\ Reads(r, "after")
    /\ Step(r, [Done(task[r]) EXCEPT !.vector = Entries(task[r])])

\* Three attempts, then StalePlan
after(r) ==
    /\ Reads(r, "after")
    /\ Step(r, IF task[r].snapshot = Generation
               THEN [Done(task[r]) EXCEPT !.vector = Entries(task[r])]
               ELSE IF task[r].attempt < 3
               THEN [task[r] EXCEPT !.pc = "before", !.attempt = @ + 1, !.graph = {}, !.contested = {}]
               ELSE [Done(task[r]) EXCEPT !.reason = "stale_plan", !.contested = {}])

-----------------------------------------------------------------------------
(* get: the row and then its disputes, over and over; only its use of the pool matters *)

get(r) ==
    /\ r \notin Recallers /\ Local(r, "none")
    /\ Step(r, [NoTask EXCEPT !.op = "get", !.pc = "get_scoped"])

get_scoped(r) == Reads(r, "get_scoped") /\ Step(r, [task[r] EXCEPT !.pc = "contested_set"])

contested_set(r) == Reads(r, "contested_set") /\ Step(r, NoTask)

-----------------------------------------------------------------------------
(* The pool under the reads, and the writer *)

Waiting(r) == task[r].pc \notin {"none", "embed", "rank", "done"}

pool(r) ==
    /\ \/ with_read(r) /\ Waiting(r)
       \/ acquire_owned(r) \/ spawn_blocking(r) \/ take_store(r) \/ drop_permit(r)
    /\ UNCHANGED <<corpora, task>>

\* The client went away and its connection's task was dropped.
aborted(r) ==
    /\ cancel(r)
    /\ Step(r, IF r \in Recallers THEN [NoTask EXCEPT !.pc = "done"] ELSE NoTask)
    /\ UNCHANGED corpora

Writes(c) ==
    /\ Generation <= MaxWrites /\ c # corpus
    /\ corpora' = Append(corpora, c)
    /\ UNCHANGED <<vars, task>>

archive(m) == Writes([corpus EXCEPT ![m].live = FALSE])
memory_feedback_wrong(m) == Writes([corpus EXCEPT ![m].confidence = 10])
link_contradicts(m) == Writes([corpus EXCEPT ![m].contested = TRUE])
unlink(m) == Writes([corpus EXCEPT ![m].contested = FALSE])

RecallNext ==
    \/ \E r \in Readers :
           \/ \E f \in Filters, mode \in Modes : recall(r, f, mode)
           \/ \E works \in BOOLEAN : embed(r, works) \/ annotate(r, works)
           \/ keyword(r) \/ vector(r) \/ probe_keyword(r) \/ probe_vector(r)
           \/ seed_contested(r) \/ seed(r) \/ graph(r)
           \/ get_many(r) \/ contested(r) \/ rank(r) \/ corpus_snapshot(r)
           \/ context(r) \/ before(r) \/ list(r) \/ disputes(r) \/ after(r)
           \/ get(r) \/ get_scoped(r) \/ contested_set(r)
           \/ pool(r) \/ aborted(r)
    \/ \E m \in Memories :
           archive(m) \/ memory_feedback_wrong(m) \/ link_contradicts(m) \/ unlink(m)

\* One step of a reader's task or of the blocking task that reads for it
Progress(r) ==
    \/ \E works \in BOOLEAN : embed(r, works) \/ annotate(r, works)
    \/ keyword(r) \/ vector(r) \/ probe_keyword(r) \/ probe_vector(r)
    \/ seed_contested(r) \/ seed(r) \/ graph(r)
    \/ get_many(r) \/ contested(r) \/ rank(r) \/ corpus_snapshot(r)
    \/ before(r) \/ list(r) \/ disputes(r) \/ after(r) \/ get_scoped(r) \/ contested_set(r)
    \/ (with_read(r) \/ spawn_blocking(r) \/ take_store(r) \/ drop_permit(r)) /\ pool(r)

\* Tokio's semaphore serves its waiters in order; tasks that can run do.
RecallFairness ==
    \A r \in Readers :
        /\ SF_allvars(acquire_owned(r) /\ pool(r))
        /\ WF_allvars(Progress(r))

RecallSpec == RecallInit /\ [][RecallNext]_allvars
FairRecall == RecallSpec /\ RecallFairness

-----------------------------------------------------------------------------
(* Properties *)

Finished(op) == {r \in Readers : task[r].pc = "done" /\ task[r].op = op}
During(r) == task[r].started .. Generation

\* A recall returns nothing that was already archived, distrusted or outside the filter
\* when it began, whichever channel brought it up.
RetiredNeverRecalled ==
    \A r \in Finished("recall") : \A m \in Range(task[r].results) :
        \E g \in During(r) : matches(task[r].filter, corpora[g][m]) /\ trusted(corpora[g][m])

\* the signals of memory m's own row, as a search of generation g finds it
OwnSignals(r, g, m) ==
    LET c == corpora[g]
    IN [keyword |-> IF c[m].matches THEN Rank(keyword_search(task[r].filter, c), m) ELSE Absent,
        vector |-> IF task[r].degraded \/ task[r].filter = "archived" THEN Absent ELSE c[m].similarity,
        hops |-> Absent, importance |-> c[m].importance, recency |-> c[m].recency,
        confidence |-> c[m].confidence, session |-> c[m].session, trust |-> c[m].trust]

Evidence(s) == (s.keyword # Absent \/ s.vector # Absent) /\ score_one(s) >= BaseFloor(s)

\* no channel with m among its hits cuts it off
WithinCutoff(f, c, m) ==
    /\ m \in keyword_hits(f, c) => m \in keyword_search(f, c)
    /\ m \in vector_hits(f, c) => m \in vector_search(f, c)

\* memories nobody wrote to during the recall, that each search it could have made finds;
\* a row archived or contested meanwhile may still come before them in the ranking
Evident(r) ==
    {m \in Memories : \A g \in During(r) :
        /\ corpora[g][m] = corpora[task[r].started][m]
        /\ m \in eligible(task[r].filter, corpora[g])
        /\ WithinCutoff(task[r].filter, corpora[g], m)
        /\ Evidence(OwnSignals(r, g, m))}

\* Whatever is written meanwhile, a memory that nobody touched, that is within each channel's
\* cutoff and whose own score, free of priors, reaches its floor in every state of the corpus
\* is returned, unless the answer is full or the gate withheld it all.  It is never said
\* that the corpus has no candidate when there is one, or when the vectors were not searched.
EvidenceReturned ==
    \A r \in Finished("recall") :
        /\ task[r].mode = "linear" =>
               \/ Evident(r) \subseteq Range(task[r].results)
               \/ Len(task[r].results) = Limit
               \/ task[r].reason = "below_threshold"
        /\ task[r].degraded \/ (task[r].mode = "linear" /\ Evident(r) # {}) =>
               task[r].reason \notin {"no_candidates", "filter_excluded"}

\* A context is the project at one generation, the one it carries, disputes included.
ContextIsOneState ==
    \A r \in Finished("context") :
        task[r].reason = "none" => task[r].vector = Project(corpora[task[r].snapshot])

\* Every recall and every context ends, however long it waits for a connection.
EveryRecallEnds == \A r \in Recallers : task[r].pc # "none" ~> task[r].pc = "done"
=============================================================================
