---------------------------- MODULE MemoryStore ----------------------------
(***************************************************************************)
(* The tables of rb-store and the transactions the single writer runs on   *)
(* them.  Every action is one committed transaction (or, for the retention *)
(* sweep, one command made of a transaction per row); a transaction whose  *)
(* checks fail rolls back and is no step at all.  Callers form their plans *)
(* on pooled readers and hand them over later, so an action's arguments    *)
(* are arbitrary: nothing says that a plan still fits the rows it meets.   *)
(*                                                                         *)
(* A table is a function whose domain is the set of keys that have a row.  *)
(***************************************************************************)
EXTENDS Integers, FiniteSets

CONSTANTS
    Ids,          \* memory ids
    Namespaces,   \* namespaces
    Null,         \* the SQL NULL of superseded_by
    Texts,        \* what the embedding is computed from: content, context, keywords, tags
    Redact,       \* rb_redact::redact on those texts
    Importances,  \* importance values
    ConfMax,      \* confidence 1.0 in units of 0.05
    MaxAge,       \* bound: age in days, rounded up, at which time stops mattering
    MaxLinks,     \* bound: no link is added to a graph of this many links
    LinkTypes,    \* edge types; "similar" is the linker's references/similar edge
    Policies,     \* retention policies a Forget request or the job may carry
    Notes,        \* the new memories the engine may compose
    Updates       \* the partial updates an author may send

ASSUME IdsAssumption == Null \notin Ids
ASSUME RedactAssumption ==
    /\ Redact \in [Texts -> Texts]
    /\ \A t \in Texts : Redact[Redact[t]] = Redact[t]
ASSUME NumbersAssumption ==
    /\ Importances \subseteq Nat
    /\ ConfMax \in Nat /\ MaxAge \in Nat \ {0} /\ MaxLinks \in Nat

Ages == 1 .. MaxAge
Confidences == 0 .. ConfMax

Row == [ns : Namespaces, archived : BOOLEAN, supersededBy : Ids \cup {Null},
        text : Texts, stamped : BOOLEAN, curated : BOOLEAN,
        importance : Importances, base : Importances,
        confidence : Confidences, age : Ages]

\* A composed note: the authored columns, whether the embedder returned a vector,
\* and whether it carries code anchors.
Note == [ns : Namespaces, text : Texts, importance : Importances,
         confidence : Confidences, curated : BOOLEAN,
         embedded : BOOLEAN, anchored : BOOLEAN]

\* MemoryUpdates: Null is a field left alone
Update == [text : Texts \cup {Null}, importance : Importances \cup {Null},
           confidence : Confidences \cup {Null}, curated : BOOLEAN \cup {Null}]
NoUpdate == [text |-> Null, importance |-> Null, confidence |-> Null, curated |-> Null]

ASSUME RequestsAssumption == Notes \subseteq Note /\ Updates \subseteq Update

Vector == [ns : Namespaces, text : Texts]

Link == Ids \X Ids \X LinkTypes

LifecycleOps == {"insert", "archive", "supersede", "purge"}

VARIABLES
    memories,   \* memories
    vectors,    \* memory_vectors: partition key and the text the embedding came from
    anchors,    \* memory_anchors: the namespace column of an anchored memory's rows
    links,      \* memory_links
    oplog,      \* memory_oplog: the newest lifecycle row naming a memory
    blocked     \* the last retention sweep stopped at a row the schema kept

vars == <<memories, vectors, anchors, links, oplog, blocked>>

-----------------------------------------------------------------------------
(* Tables *)

EmptyTable == [k \in {} |-> k]
Put(t, k, v) == [x \in DOMAIN t \cup {k} |-> IF x = k THEN v ELSE t[x]]
Without(t, K) == [x \in DOMAIN t \ K |-> t[x]]

Present == DOMAIN memories
Live(m) == m \in Present /\ ~memories[m].archived
In(m, ns) == m \in Present /\ memories[m].ns = ns
Current(m) == Live(m) /\ memories[m].supersededBy = Null

Touches(l, m) == l[1] = m \/ l[2] = m

\* active_contradicts: an edge between two live rows of one namespace
Contested(m) ==
    \E l \in links :
        /\ l[3] = "contradicts" /\ Touches(l, m)
        /\ Live(l[1]) /\ Live(l[2])
        /\ memories[l[1]].ns = memories[l[2]].ns

NewRow(n) ==
    [ns |-> n.ns, archived |-> FALSE, supersededBy |-> Null, text |-> n.text,
     stamped |-> TRUE, curated |-> n.curated, importance |-> n.importance,
     base |-> n.importance, confidence |-> n.confidence, age |-> 1]

\* the pointer UPDATE of supersede_guarded_in_tx
Superseded(t, old, new) ==
    [t EXCEPT ![old] = [@ EXCEPT !.archived = TRUE, !.supersededBy = new]]

\* archive_with_details on a set of rows
Archived(t, A) ==
    [m \in DOMAIN t |-> IF m \in A THEN [t[m] EXCEPT !.archived = TRUE] ELSE t[m]]

\* purge_memory_for_retention: the rows go, and pointers at them become NULL
Purged(t, P) ==
    [m \in DOMAIN t \ P |->
        IF t[m].supersededBy \in P THEN [t[m] EXCEPT !.supersededBy = Null] ELSE t[m]]

Logged(log, A, op) == [m \in DOMAIN log \cup A |-> IF m \in A THEN op ELSE log[m]]

\* Mutant: no clamp
ClampMissing(n) == n

\* the .clamp(0.0, 1.0) of record_feedback
Clamp(n) == IF n < 0 THEN 0 ELSE IF n > ConfMax THEN ConfMax ELSE n

Or(x, y) == IF x = Null THEN y ELSE x

Init ==
    /\ memories = EmptyTable /\ vectors = EmptyTable /\ anchors = EmptyTable
    /\ links = {} /\ oplog = EmptyTable /\ blocked = FALSE

-----------------------------------------------------------------------------
(* Writes on behalf of an author *)

\* insert_memory_tx_body: the row, its anchors and its vector.  The engine composes
\* notes without links and adds those one by one afterwards.
InsertedMemories(m, n) == Put(memories, m, NewRow(n))
InsertedVectors(m, n) ==
    IF n.embedded THEN Put(vectors, m, [ns |-> n.ns, text |-> n.text]) ELSE vectors
InsertedAnchors(m, n) == IF n.anchored THEN Put(anchors, m, n.ns) ELSE anchors
InsertLogged(m) == Logged(oplog, {m}, "insert")

insert_memory(m, n) ==
    /\ m \notin Present
    /\ memories' = InsertedMemories(m, n)
    /\ vectors' = InsertedVectors(m, n)
    /\ anchors' = InsertedAnchors(m, n)
    /\ oplog' = InsertLogged(m)
    /\ UNCHANGED <<links, blocked>>

\* The replacement is kept even when the row it replaces is missing or resolved;
\* a foreign or a protected curated row refuses the whole transaction.
insert_superseding_memory(m, n, old, allowCurated) ==
    /\ m \notin Present /\ m # old
    /\ old \in Present =>
        /\ memories[old].ns = n.ns
        /\ memories[old].curated => allowCurated
    /\ \/ /\ Current(old)
          /\ memories' = Superseded(InsertedMemories(m, n), old, m)
          /\ vectors' = Without(InsertedVectors(m, n), {old})
          /\ oplog' = Logged(InsertLogged(m), {old}, "supersede")
       \/ /\ ~Current(old)
          /\ memories' = InsertedMemories(m, n)
          /\ vectors' = InsertedVectors(m, n)
          /\ oplog' = InsertLogged(m)
    /\ anchors' = InsertedAnchors(m, n)
    /\ UNCHANGED <<links, blocked>>

\* An edit of an embedded field blanks the stamp, even one that writes the same text;
\* an explicit importance also moves the author's prior.
Updated(r, u) ==
    [r EXCEPT !.text = Or(u.text, @), !.stamped = @ /\ u.text = Null,
              !.importance = Or(u.importance, @), !.base = Or(u.importance, @),
              !.confidence = Or(u.confidence, @), !.curated = Or(u.curated, @)]

update_memory(ns, m, u) ==
    /\ In(m, ns) /\ u # NoUpdate
    /\ memories' = [memories EXCEPT ![m] = Updated(@, u)]
    /\ UNCHANGED <<vectors, anchors, links, oplog, blocked>>

\* Mutant: the oplog row is missing
ArchiveUnlogged(m) ==
    /\ memories' = Archived(memories, {m})
    /\ vectors' = Without(vectors, {m})
    /\ UNCHANGED <<anchors, links, oplog, blocked>>

\* archive_with_details, when the row is still live
ArchiveOne(m) ==
    /\ memories' = Archived(memories, {m})
    /\ vectors' = Without(vectors, {m})
    /\ oplog' = Logged(oplog, {m}, "archive")
    /\ UNCHANGED <<anchors, links, blocked>>

archive_memory(ns, m) == In(m, ns) /\ Live(m) /\ ArchiveOne(m)

\* Mutants: the target may be resolved; the old row may be resolved
SupersedeGuardNewUnchecked(old, new) == old # new /\ new \in Present /\ Current(old)
SupersedeGuardOldUnchecked(old, new) == old # new /\ old \in Present /\ Current(new)

\* supersede_guarded_in_tx: the one guard every supersede passes
SupersedeGuard(old, new) == old # new /\ Current(new) /\ Current(old)

supersede_in_tx(old, new) ==
    /\ SupersedeGuard(old, new)
    /\ memories' = Superseded(memories, old, new)
    /\ vectors' = Without(vectors, {old})
    /\ oplog' = Logged(oplog, {old}, "supersede")
    /\ UNCHANGED <<anchors, links, blocked>>

supersede(ns, old, new) == In(old, ns) /\ In(new, ns) /\ supersede_in_tx(old, new)

\* External edges of the originals, copied in both directions onto the combined memory.
CopiedLinks(m, a, b) ==
    {<<m, l[2], l[3]>> : l \in {k \in links : k[1] \in {a, b} /\ k[2] \notin {m, a, b}
                                                  /\ k[3] # "supersedes"}}
    \cup
    {<<l[1], m, l[3]>> : l \in {k \in links : k[2] \in {a, b} /\ k[1] \notin {m, a, b}
                                                  /\ k[3] # "supersedes"}}

\* Whether the stored vectors are still similar enough depends on the vectors alone,
\* so a merge that meets the other conditions may be refused or not.
review_merge(ns, a, b, m, n, allowCurated) ==
    /\ a # b /\ m \notin Present /\ n.ns = ns
    /\ \A o \in {a, b} :
        /\ In(o, ns) /\ Current(o)
        /\ memories[o].curated => allowCurated
        /\ o \in DOMAIN vectors
    /\ memories' = Superseded(Superseded(InsertedMemories(m, n), a, m), b, m)
    /\ vectors' = Without(InsertedVectors(m, n), {a, b})
    /\ anchors' = InsertedAnchors(m, n)
    /\ links' = links \cup CopiedLinks(m, a, b)
    /\ oplog' = Logged(InsertLogged(m), {a, b}, "supersede")
    /\ UNCHANGED blocked

add_link(a, b, type) ==
    /\ Cardinality(links) < MaxLinks
    /\ {a, b} \subseteq Present /\ a # b /\ <<a, b, type>> \notin links
    /\ links' = links \cup {<<a, b, type>>}
    /\ UNCHANGED <<memories, vectors, anchors, oplog, blocked>>

\* FeedbackKind::confidence_delta in units of 0.05: helpful, wrong, stale
ConfidenceDeltas == {1, -6, -3}

record_feedback(ns, m, delta) ==
    /\ In(m, ns) /\ Live(m)
    /\ memories' = [memories EXCEPT ![m].confidence = Clamp(@ + delta)]
    /\ UNCHANGED <<vectors, anchors, links, oplog, blocked>>

-----------------------------------------------------------------------------
(* Writes of the review policy and of the background jobs *)

archive_unattended(ns, m) ==
    In(m, ns) /\ Live(m) /\ ~memories[m].curated /\ ArchiveOne(m)

\* Only the authored fields and edges kept here are compared; the others may differ.
automatically_equivalent(a, b) ==
    /\ memories[a].ns = memories[b].ns
    /\ memories[a].text = memories[b].text
    /\ memories[a].confidence = memories[b].confidence
    /\ (a \in DOMAIN anchors) = (b \in DOMAIN anchors)
    /\ \A l \in links : Touches(l, a) \/ Touches(l, b) => l[3] = "similar"

\* Mutant: the direction never flips
DuplicateRolesAsPlanned(old, new) == <<old, new>>

\* Who is archived and who survives: a curated row survives
DuplicateRoles(old, new) == IF memories[old].curated THEN <<new, old>> ELSE <<old, new>>

\* Returns None, changing nothing, for a pair that is not provably the same.
supersede_duplicate(ns, old, new) ==
    /\ In(old, ns) /\ In(new, ns)
    /\ automatically_equivalent(old, new)
    /\ ~(memories[old].curated /\ memories[new].curated)
    /\ supersede_in_tx(DuplicateRoles(old, new)[1], DuplicateRoles(old, new)[2])

set_recalibrated_importance(ns, m, importance) ==
    /\ In(m, ns) /\ ~memories[m].curated
    /\ memories' = [memories EXCEPT ![m].importance = importance]
    /\ UNCHANGED <<vectors, anchors, links, oplog, blocked>>

set_confidence(ns, m, confidence) ==
    /\ In(m, ns) /\ ~memories[m].curated
    /\ memories' = [memories EXCEPT ![m].confidence = confidence]
    /\ UNCHANGED <<vectors, anchors, links, oplog, blocked>>

delete_link(l) ==
    /\ l \in links
    /\ links' = links \ {l}
    /\ UNCHANGED <<memories, vectors, anchors, oplog, blocked>>

\* Mutants: an archived row is written; an edited row is written
ReembedGuardAnyRow(m, expected) == m \in Present /\ memories[m].text = expected
ReembedGuardAnyText(m, expected) == Live(m)

\* expected is the fingerprint of the text the reembed pass read before it called the
\* embedder: the row must still be live and must still have that text.
ReembedGuard(m, expected) == Live(m) /\ memories[m].text = expected

update_vector(m, expected) ==
    /\ m \in Present /\ ReembedGuard(m, expected)
    /\ memories' = [memories EXCEPT ![m].stamped = TRUE]
    /\ vectors' = Put(vectors, m,
                      [ns |-> IF m \in DOMAIN vectors THEN vectors[m].ns ELSE memories[m].ns,
                       text |-> expected])
    /\ UNCHANGED <<anchors, links, oplog, blocked>>

-----------------------------------------------------------------------------
(* Retention *)

\* RetentionPolicy::validate
ValidPolicy(p) ==
    /\ p.floor \in 1 .. 10 /\ p.batch >= 1 /\ p.maxAge # 0 /\ p.archiveAfter # 0
    /\ p.archiveAfter # Null /\ p.maxAge # Null => p.archiveAfter <= p.maxAge
    /\ p.enabled => p.archiveAfter # Null \/ p.maxAge # Null

\* The age past which a mode takes a row: apply uses the earlier horizon
Horizon(p, mode) == IF mode = "apply" THEN Or(p.archiveAfter, p.maxAge) ELSE p.maxAge

\* Mutant: only outgoing edges count
OpenContradictionOut(m, ns) ==
    Live(m) /\ \E l \in links : l[3] = "contradicts" /\ l[1] = m /\ Live(l[2]) /\ In(l[2], ns)

\* retention_where's own copy of the contested predicate
OpenContradiction(m, ns) ==
    Live(m) /\ \E l \in links :
        /\ l[3] = "contradicts"
        /\ \/ l[1] = m /\ Live(l[2]) /\ In(l[2], ns)
           \/ l[2] = m /\ Live(l[1]) /\ In(l[1], ns)

\* retention_where
Eligible(m, ns, p, mode) ==
    /\ In(m, ns) /\ ~memories[m].curated
    /\ memories[m].age > Horizon(p, mode)
    /\ mode = "apply" => Live(m)
    /\ memories[m].importance < p.floor /\ memories[m].base < p.floor
    /\ memories[m].text \notin p.protected
    /\ ~OpenContradiction(m, ns)

\* The candidates in processing order: oldest first, ties in any order
Oldest(S) == {m \in S : \A n \in S : memories[m].age >= memories[n].age}
OldestFirst(Done, Cand) ==
    \A m \in Done : \A n \in Cand \ Done : memories[m].age >= memories[n].age

\* memory_anchors.memory_id REFERENCES memories(memory_id), and purging a memory
\* leaves its anchor rows: the DELETE of an anchored memory violates the constraint.
PurgeViolatesForeignKey(m) == m \in DOMAIN anchors

\* One command: the plan, then a transaction per candidate until the plan is done or
\* an item fails, on the constraint or on a storage error; the failed item's own
\* transaction rolls back, the earlier ones stay.
retention_sweep(ns, p, mode) ==
    /\ ValidPolicy(p) /\ p.enabled /\ Horizon(p, mode) # Null
    /\ LET Cand == {m \in Present : Eligible(m, ns, p, mode)}
       IN \E Done \in SUBSET Cand :
            /\ Cardinality(Done) <= p.batch /\ OldestFirst(Done, Cand)
            /\ mode = "hard" => \A m \in Done : ~PurgeViolatesForeignKey(m)
            /\ blocked' \in BOOLEAN
            /\ blocked' => /\ mode = "hard" /\ Cardinality(Done) < p.batch
                           /\ \E m \in Oldest(Cand \ Done) : PurgeViolatesForeignKey(m)
            /\ vectors' = Without(vectors, Done)
            /\ \/ /\ mode = "apply"
                  /\ memories' = Archived(memories, Done)
                  /\ oplog' = Logged(oplog, Done, "archive")
                  /\ UNCHANGED links
               \/ /\ mode = "hard"
                  /\ memories' = Purged(memories, Done)
                  /\ oplog' = Logged(oplog, Done, "purge")
                  /\ links' = {l \in links : l[1] \notin Done /\ l[2] \notin Done}
            /\ UNCHANGED anchors

-----------------------------------------------------------------------------
(* Administration *)

\* Mutant: anchors are stranded
RenamedAnchorsStranded(old, new) == anchors

RenamedAnchors(old, new) ==
    [m \in DOMAIN anchors |-> IF anchors[m] = old THEN new ELSE anchors[m]]

rename_namespace(old, new, merge) ==
    /\ old # new
    /\ (\E m \in Present : In(m, new)) => merge
    /\ \E m \in Present : In(m, old)
    /\ memories' = [m \in Present |->
                      IF In(m, old) THEN [memories[m] EXCEPT !.ns = new] ELSE memories[m]]
    /\ anchors' = RenamedAnchors(old, new)
    /\ vectors' = [m \in DOMAIN vectors |->
                      IF In(m, old) THEN [vectors[m] EXCEPT !.ns = new] ELSE vectors[m]]
    /\ UNCHANGED <<links, oplog, blocked>>

\* An archived row keeps its stamp: reembed never revisits it.
Scrubbed(r) ==
    [r EXCEPT !.text = Redact[@],
              !.stamped = @ /\ (r.archived \/ Redact[r.text] = r.text)]

scrub ==
    /\ \E m \in Present : Redact[memories[m].text] # memories[m].text
    /\ memories' = [m \in Present |-> Scrubbed(memories[m])]
    /\ UNCHANGED <<vectors, anchors, links, oplog, blocked>>

\* At daemon start, before any connection is open: the vector table is replaced and
\* every stamp blanked.
accept_embedding_space_change ==
    /\ Present # {}
    /\ memories' = [m \in Present |-> [memories[m] EXCEPT !.stamped = FALSE]]
    /\ vectors' = EmptyTable
    /\ UNCHANGED <<anchors, links, oplog, blocked>>

\* Time passes for every row at once.
Tick ==
    /\ \E m \in Present : memories[m].age < MaxAge
    /\ memories' = [m \in Present |->
                      [memories[m] EXCEPT !.age = IF @ < MaxAge THEN @ + 1 ELSE @]]
    /\ UNCHANGED <<vectors, anchors, links, oplog, blocked>>

-----------------------------------------------------------------------------
AuthorNext ==
    \/ \E m \in Ids, n \in Notes :
        \/ insert_memory(m, n)
        \/ \E old \in Ids : insert_superseding_memory(m, n, old, TRUE)
        \/ \E ns \in Namespaces, a, b \in Ids : review_merge(ns, a, b, m, n, TRUE)
    \/ \E ns \in Namespaces, m \in Ids :
        \/ \E u \in Updates : update_memory(ns, m, u)
        \/ archive_memory(ns, m)
        \/ \E new \in Ids : supersede(ns, m, new)
        \/ \E d \in ConfidenceDeltas : record_feedback(ns, m, d)
    \/ \E a, b \in Ids, type \in LinkTypes : add_link(a, b, type)

AutomaticNext ==
    \/ \E ns \in Namespaces, m \in Ids :
        \/ archive_unattended(ns, m)
        \/ \E new \in Ids : supersede_duplicate(ns, m, new)
        \/ \E i \in Importances : set_recalibrated_importance(ns, m, i)
        \/ \E c \in Confidences : set_confidence(ns, m, c)
    \/ \E m \in Ids, n \in Notes :
        \/ \E old \in Ids : insert_superseding_memory(m, n, old, FALSE)
        \/ \E ns \in Namespaces, a, b \in Ids : review_merge(ns, a, b, m, n, FALSE)
    \/ \E l \in links : delete_link(l)
    \/ \E m \in Ids, t \in Texts : update_vector(m, t)

SweepNext ==
    \E ns \in Namespaces, p \in Policies, mode \in {"apply", "hard"} :
        retention_sweep(ns, p, mode)

AdminNext ==
    \/ \E old, new \in Namespaces, merge \in BOOLEAN : rename_namespace(old, new, merge)
    \/ scrub
    \/ accept_embedding_space_change
    \/ Tick

Next == AuthorNext \/ AutomaticNext \/ SweepNext \/ AdminNext

Spec == Init /\ [][Next]_vars

-----------------------------------------------------------------------------
(* Properties *)

\* Every column of every table has its type.
TypeOK ==
    /\ Present \subseteq Ids /\ memories \in [Present -> Row]
    /\ DOMAIN vectors \subseteq Ids /\ vectors \in [DOMAIN vectors -> Vector]
    /\ DOMAIN anchors \subseteq Ids /\ anchors \in [DOMAIN anchors -> Namespaces]
    /\ links \subseteq Link
    /\ DOMAIN oplog \subseteq Ids /\ oplog \in [DOMAIN oplog -> LifecycleOps]
    /\ blocked \in BOOLEAN

\* The vector index holds live rows only, each under the namespace its row has now:
\* what vector_search assumes of archive, supersede, purge, rename and a reembed
\* that was planned before them.
VectorsLiveOnly ==
    \A m \in DOMAIN vectors : Live(m) /\ vectors[m].ns = memories[m].ns

\* No side table names a memory that is gone, and anchors are scoped to the row's
\* namespace: what purge_memory_for_retention and rename_namespace promise.
NoDanglingReference ==
    /\ \A l \in links : l[1] \in Present /\ l[2] \in Present
    /\ \A m \in Present : memories[m].supersededBy \in Present \cup {Null}
    /\ DOMAIN anchors \subseteq Present
    /\ \A m \in DOMAIN anchors : anchors[m] = memories[m].ns

Successor(m) == IF m \in Present THEN memories[m].supersededBy ELSE Null

\* Following superseded_by never returns to a memory already passed, whatever order
\* stale supersede plans, merges and purges arrive in: no set of memories is closed
\* under a successor.
LineageAcyclic ==
    \A S \in SUBSET Ids : S # {} => \E m \in S : Successor(m) \notin S

\* A stamp that says "current" is telling the truth about the vector of a live row:
\* an edit or a scrub that overtakes a reembed leaves the row marked stale.
StampTellsTruth ==
    \A m \in DOMAIN vectors :
        memories[m].stamped => vectors[m].text = memories[m].text

\* A consumer that replays the oplog ends with the live set the store has.
ReplayAgrees ==
    \A m \in Ids :
        /\ m \in DOMAIN oplog /\ oplog[m] = "insert" <=> Live(m)
        /\ m \in DOMAIN oplog /\ oplog[m] # "purge" <=> m \in Present

\* The life of a memory as the tables tell it
StateOf(m) ==
    IF m \notin Present THEN "absent" ELSE IF memories[m].archived THEN "retired" ELSE "live"

Abstract == INSTANCE Lifecycle WITH
    state <- [m \in Ids |-> StateOf(m)], successor <- [m \in Ids |-> Successor(m)]

\* The transactions implement the lifecycle: whatever plans arrive late, a memory is
\* created, retired, replaced by one in use, or forgotten with the pointers at it.
ImplementsLifecycle == Abstract!Spec

\* No unattended write retires a curated memory or moves its importance, its author's
\* prior or its confidence, however stale the plan it carries out.
CuratedSurvivesAutomation ==
    [][\/ \A m \in Present : memories[m].curated =>
            /\ m \in Present'
            /\ [memories'[m] EXCEPT !.stamped = TRUE, !.supersededBy = Null]
                 = [memories[m] EXCEPT !.stamped = TRUE, !.supersededBy = Null]
       \/ ~(AutomaticNext \/ SweepNext)]_vars

\* Automatic deduplication never loses the last live copy of a text: when it retires
\* a row, an equal live one is left in the namespace.
DedupKeepsContent ==
    [][\/ \A m \in Ids : Live(m) =>
            \E n \in Ids : /\ Live(n)' /\ memories'[n].ns = memories[m].ns
                           /\ memories'[n].text = memories[m].text
       \/ ~\E ns \in Namespaces, old, new \in Ids : supersede_duplicate(ns, old, new)]_vars

\* A retention pass never settles an open contradiction by forgetting one side of it.
ContestedSurvivesSweep ==
    [][(\A m \in Ids : Contested(m) => Contested(m)') \/ ~SweepNext]_vars

\* No pass of the hard forget fails on a constraint of the schema itself, the
\* promise of the anchor migration ("the FK cannot block a delete path").
ForeignKeyNeverBlocksPurge == ~blocked
=============================================================================
