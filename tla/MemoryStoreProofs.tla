------------------------- MODULE MemoryStoreProofs -------------------------
(***************************************************************************)
(* Theorems about MemoryStore, for every set of memories, namespaces,      *)
(* notes, links and policies: first the types and the lineage, then what   *)
(* the tables say about each other.  The eighteen transactions have only a *)
(* few effects between them; each is shown to have its effect once         *)
(* (EveryStepHasAnEffect), and the invariants, the action properties and   *)
(* the refinement of Lifecycle are proved from the effects.                *)
(***************************************************************************)
EXTENDS MemoryStore, TLAPS

\* What the transactions write is a row again.
LEMMA RowTypes ==
    ASSUME TypeOK
    PROVE  /\ \A n \in Note : NewRow(n) \in Row
           /\ \A r \in Row, u \in Update : Updated(r, u) \in Row
           /\ \A r \in Row : Scrubbed(r) \in Row
           /\ \A c \in Confidences, d \in ConfidenceDeltas : Clamp(c + d) \in Confidences
<1>1. \A n \in Note : NewRow(n) \in Row
  BY NumbersAssumption DEF NewRow, Note, Row, Ages, Confidences
<1>2. ASSUME NEW r \in Row, NEW u \in Update
      PROVE  Updated(r, u) \in Row
  <2>1. \A S : \A x \in S \cup {Null}, y \in S : Or(x, y) \in S
    BY DEF Or
  <2>2. /\ Or(u.text, r.text) \in Texts
        /\ Or(u.importance, r.importance) \in Importances
        /\ Or(u.importance, r.base) \in Importances
        /\ Or(u.confidence, r.confidence) \in Confidences
        /\ Or(u.curated, r.curated) \in BOOLEAN
    BY <2>1 DEF Update, Row
  <2>3. (r.stamped /\ u.text = Null) \in BOOLEAN
    OBVIOUS
  <2>4. QED BY <2>2, <2>3 DEF Updated, Row
<1>3. \A r \in Row : Scrubbed(r) \in Row
  BY RedactAssumption DEF Scrubbed, Row
<1>4. \A c \in Confidences, d \in ConfidenceDeltas : Clamp(c + d) \in Confidences
  BY NumbersAssumption DEF Confidences, ConfidenceDeltas, Clamp
<1>5. QED BY <1>1, <1>2, <1>3, <1>4

\* The edits the transactions make to a row keep it a row.
LEMMA RowEdits ==
    \A r \in Row, new \in Ids \cup {Null} :
        /\ [r EXCEPT !.archived = TRUE] \in Row
        /\ [r EXCEPT !.supersededBy = new] \in Row
        /\ [r EXCEPT !.archived = TRUE, !.supersededBy = new] \in Row
  BY DEF Row

\* What a supersede does to a table, and to nothing else in it.
LEMMA SupersededTable ==
    ASSUME NEW D, NEW t \in [D -> Row], NEW old \in D, NEW new \in Ids
    PROVE  /\ Superseded(t, old, new) \in [D -> Row]
           /\ DOMAIN Superseded(t, old, new) = D
           /\ Superseded(t, old, new)[old].supersededBy = new
           /\ Superseded(t, old, new)[old].archived
           /\ Superseded(t, old, new)[old].ns = t[old].ns
           /\ \A k \in D \ {old} : Superseded(t, old, new)[k] = t[k]
<1>1. t[old] \in Row
  OBVIOUS
<1> DEFINE r == [t[old] EXCEPT !.archived = TRUE, !.supersededBy = new]
<1>2. r \in Row /\ r.supersededBy = new /\ r.archived /\ r.ns = t[old].ns
  BY <1>1 DEF Row
<1>3. Superseded(t, old, new) = [t EXCEPT ![old] = r]
  BY DEF Superseded
<1> HIDE DEF r
<1>4. QED BY <1>2, <1>3

\* What one note writes, before anything is superseded
LEMMA InsertTypes ==
    ASSUME TypeOK, NEW m \in Ids, NEW n \in Notes
    PROVE  /\ DOMAIN InsertedMemories(m, n) = Present \cup {m}
           /\ InsertedMemories(m, n) \in [Present \cup {m} -> Row]
           /\ DOMAIN InsertedVectors(m, n) \subseteq Ids
           /\ InsertedVectors(m, n) \in [DOMAIN InsertedVectors(m, n) -> Vector]
           /\ DOMAIN InsertedAnchors(m, n) \subseteq Ids
           /\ InsertedAnchors(m, n) \in [DOMAIN InsertedAnchors(m, n) -> Namespaces]
           /\ DOMAIN InsertLogged(m) \subseteq Ids
           /\ InsertLogged(m) \in [DOMAIN InsertLogged(m) -> LifecycleOps]
<1>1. n \in Note /\ NewRow(n) \in Row
  BY RowTypes, RequestsAssumption
<1>2. [ns |-> n.ns, text |-> n.text] \in Vector /\ n.ns \in Namespaces
  BY <1>1 DEF Note, Vector
<1>3. /\ DOMAIN InsertedMemories(m, n) = Present \cup {m}
      /\ InsertedMemories(m, n) \in [Present \cup {m} -> Row]
  BY <1>1 DEF TypeOK, Put, InsertedMemories, Present
<1>4. /\ DOMAIN InsertedVectors(m, n) \subseteq Ids
      /\ InsertedVectors(m, n) \in [DOMAIN InsertedVectors(m, n) -> Vector]
  BY <1>2 DEF TypeOK, InsertedVectors, Put
<1>5. /\ DOMAIN InsertedAnchors(m, n) \subseteq Ids
      /\ InsertedAnchors(m, n) \in [DOMAIN InsertedAnchors(m, n) -> Namespaces]
  BY <1>2 DEF TypeOK, InsertedAnchors, Put
<1>6. /\ DOMAIN InsertLogged(m) \subseteq Ids
      /\ InsertLogged(m) \in [DOMAIN InsertLogged(m) -> LifecycleOps]
  BY DEF TypeOK, InsertLogged, Logged, LifecycleOps
<1>7. QED BY <1>3, <1>4, <1>5, <1>6

\* Every transaction keeps the type of every table.
LEMMA TypeOKStep == TypeOK /\ [Next]_vars => TypeOK'
<1> SUFFICES ASSUME TypeOK, [Next]_vars PROVE TypeOK'
  OBVIOUS
<1>1. ASSUME NEW m \in Ids, NEW n \in Notes, insert_memory(m, n)
      PROVE  TypeOK'
  <2>1. /\ DOMAIN memories' = Present \cup {m} /\ memories' \in [Present \cup {m} -> Row]
        /\ DOMAIN vectors' \subseteq Ids /\ vectors' \in [DOMAIN vectors' -> Vector]
        /\ DOMAIN anchors' \subseteq Ids /\ anchors' \in [DOMAIN anchors' -> Namespaces]
        /\ DOMAIN oplog' \subseteq Ids /\ oplog' \in [DOMAIN oplog' -> LifecycleOps]
    BY <1>1, InsertTypes, Zenon DEF insert_memory
  <2>2. QED BY <1>1, <2>1 DEF insert_memory, TypeOK, Present
<1>2. ASSUME NEW m \in Ids, NEW n \in Notes, NEW old \in Ids, NEW allow \in BOOLEAN,
             insert_superseding_memory(m, n, old, allow)
      PROVE  TypeOK'
  <2>1. CASE ~Current(old)
    <3>1. /\ DOMAIN memories' = Present \cup {m} /\ memories' \in [Present \cup {m} -> Row]
          /\ DOMAIN vectors' \subseteq Ids /\ vectors' \in [DOMAIN vectors' -> Vector]
          /\ DOMAIN anchors' \subseteq Ids /\ anchors' \in [DOMAIN anchors' -> Namespaces]
          /\ DOMAIN oplog' \subseteq Ids /\ oplog' \in [DOMAIN oplog' -> LifecycleOps]
      BY <1>2, <2>1, InsertTypes, Zenon DEF insert_superseding_memory
    <3>2. QED BY <1>2, <3>1 DEF insert_superseding_memory, TypeOK, Present
  <2>2. CASE Current(old)
    <3>1. old \in Present
      BY <2>2 DEF Current, Live
    <3> DEFINE im == InsertedMemories(m, n)
               iv == InsertedVectors(m, n)
               ia == InsertedAnchors(m, n)
               il == InsertLogged(m)
    <3>2. /\ DOMAIN im = Present \cup {m} /\ im \in [Present \cup {m} -> Row]
          /\ DOMAIN iv \subseteq Ids /\ iv \in [DOMAIN iv -> Vector]
          /\ DOMAIN ia \subseteq Ids /\ ia \in [DOMAIN ia -> Namespaces]
          /\ DOMAIN il \subseteq Ids /\ il \in [DOMAIN il -> LifecycleOps]
      BY InsertTypes, Zenon
    <3>3. /\ memories' = Superseded(im, old, m) /\ vectors' = Without(iv, {old})
          /\ oplog' = Logged(il, {old}, "supersede")
          /\ anchors' = ia /\ UNCHANGED <<links, blocked>>
      BY <1>2, <2>2 DEF insert_superseding_memory
    <3> HIDE DEF im, iv, ia, il
    <3>4. DOMAIN memories' = Present \cup {m} /\ memories' \in [Present \cup {m} -> Row]
      BY <3>1, <3>2, <3>3, RowEdits DEF Superseded
    <3>5. DOMAIN vectors' \subseteq Ids /\ vectors' \in [DOMAIN vectors' -> Vector]
      BY <3>2, <3>3 DEF Without
    <3>6. DOMAIN oplog' \subseteq Ids /\ oplog' \in [DOMAIN oplog' -> LifecycleOps]
      BY <3>2, <3>3 DEF Logged, LifecycleOps
    <3>7. QED
      BY <3>2, <3>3, <3>4, <3>5, <3>6 DEF TypeOK, Present
  <2>3. QED BY <2>1, <2>2
<1>3. ASSUME NEW ns \in Namespaces, NEW a \in Ids, NEW b \in Ids, NEW m \in Ids,
             NEW n \in Notes, NEW allow \in BOOLEAN, review_merge(ns, a, b, m, n, allow)
      PROVE  TypeOK'
  <2>1. {a, b} \subseteq Present
    BY <1>3 DEF review_merge, In
  <2> DEFINE im == InsertedMemories(m, n)
             sm == Superseded(im, a, m)
             iv == InsertedVectors(m, n)
             ia == InsertedAnchors(m, n)
             il == InsertLogged(m)
  <2>2. /\ DOMAIN im = Present \cup {m} /\ im \in [Present \cup {m} -> Row]
        /\ DOMAIN iv \subseteq Ids /\ iv \in [DOMAIN iv -> Vector]
        /\ DOMAIN ia \subseteq Ids /\ ia \in [DOMAIN ia -> Namespaces]
        /\ DOMAIN il \subseteq Ids /\ il \in [DOMAIN il -> LifecycleOps]
    BY InsertTypes, Zenon
  <2>3. /\ memories' = Superseded(sm, b, m) /\ vectors' = Without(iv, {a, b})
        /\ oplog' = Logged(il, {a, b}, "supersede")
        /\ anchors' = ia /\ UNCHANGED blocked
    BY <1>3 DEF review_merge
  <2>4. links' \subseteq Link
    BY <1>3 DEF review_merge, CopiedLinks, TypeOK, Link
  <2> HIDE DEF im, iv, ia, il
  <2>5. DOMAIN sm = Present \cup {m} /\ sm \in [Present \cup {m} -> Row]
    BY <2>1, <2>2, RowEdits DEF Superseded
  <2> HIDE DEF sm
  <2>6. DOMAIN memories' = Present \cup {m} /\ memories' \in [Present \cup {m} -> Row]
    BY <2>1, <2>3, <2>5, RowEdits DEF Superseded
  <2>7. DOMAIN vectors' \subseteq Ids /\ vectors' \in [DOMAIN vectors' -> Vector]
    BY <2>2, <2>3 DEF Without
  <2>8. DOMAIN oplog' \subseteq Ids /\ oplog' \in [DOMAIN oplog' -> LifecycleOps]
    BY <2>2, <2>3 DEF Logged, LifecycleOps
  <2>9. QED
    BY <2>2, <2>3, <2>4, <2>6, <2>7, <2>8 DEF TypeOK, Present
<1>4. ASSUME NEW ns \in Namespaces, NEW m \in Ids, NEW u \in Updates, update_memory(ns, m, u)
      PROVE  TypeOK'
  <2>1. Updated(memories[m], u) \in Row
    BY <1>4, RowTypes, RequestsAssumption DEF update_memory, In, TypeOK
  <2>2. QED BY <1>4, <2>1 DEF update_memory, TypeOK, Present
<1>5. ASSUME NEW m \in Ids, m \in Present, ArchiveOne(m)
      PROVE  TypeOK'
  <2>1. DOMAIN memories' = Present /\ memories' \in [Present -> Row]
    BY <1>5, RowEdits DEF ArchiveOne, Archived, TypeOK, Present
  <2>2. DOMAIN vectors' \subseteq Ids /\ vectors' \in [DOMAIN vectors' -> Vector]
    BY <1>5 DEF ArchiveOne, TypeOK, Without
  <2>3. DOMAIN oplog' \subseteq Ids /\ oplog' \in [DOMAIN oplog' -> LifecycleOps]
    BY <1>5 DEF ArchiveOne, TypeOK, Logged, LifecycleOps
  <2>4. QED BY <1>5, <2>1, <2>2, <2>3 DEF ArchiveOne, TypeOK, Present
<1>6. ASSUME NEW old \in Ids, NEW new \in Ids, supersede_in_tx(old, new)
      PROVE  TypeOK'
  <2>1. old \in Present
    BY <1>6 DEF supersede_in_tx, SupersedeGuard, Current, Live
  <2>2. DOMAIN memories' = Present /\ memories' \in [Present -> Row]
    BY <1>6, <2>1, RowEdits DEF supersede_in_tx, Superseded, TypeOK, Present
  <2>3. DOMAIN vectors' \subseteq Ids /\ vectors' \in [DOMAIN vectors' -> Vector]
    BY <1>6 DEF supersede_in_tx, TypeOK, Without
  <2>4. DOMAIN oplog' \subseteq Ids /\ oplog' \in [DOMAIN oplog' -> LifecycleOps]
    BY <1>6 DEF supersede_in_tx, TypeOK, Logged, LifecycleOps
  <2>5. QED BY <1>6, <2>2, <2>3, <2>4 DEF supersede_in_tx, TypeOK, Present
<1>7. ASSUME NEW a \in Ids, NEW b \in Ids, NEW type \in LinkTypes, add_link(a, b, type)
      PROVE  TypeOK'
  BY <1>7 DEF add_link, TypeOK, Link, Present
<1>8. ASSUME NEW l \in links, delete_link(l)
      PROVE  TypeOK'
  BY <1>8 DEF delete_link, TypeOK, Present
<1>9. ASSUME NEW ns \in Namespaces, NEW m \in Ids, NEW d \in ConfidenceDeltas,
             record_feedback(ns, m, d)
      PROVE  TypeOK'
  <2>1. m \in Present /\ memories[m] \in Row /\ memories[m].confidence \in Confidences
    BY <1>9 DEF record_feedback, In, TypeOK, Row
  <2>2. Clamp(memories[m].confidence + d) \in Confidences
    BY <2>1, RowTypes
  <2>3. [memories[m] EXCEPT !.confidence = Clamp(memories[m].confidence + d)] \in Row
    BY <2>1, <2>2 DEF Row
  <2>4. QED BY <1>9, <2>1, <2>3 DEF record_feedback, TypeOK, Present
<1>10. ASSUME NEW ns \in Namespaces, NEW m \in Ids, NEW i \in Importances,
              set_recalibrated_importance(ns, m, i)
       PROVE  TypeOK'
  <2>1. m \in Present /\ [memories[m] EXCEPT !.importance = i] \in Row
    BY <1>10 DEF set_recalibrated_importance, In, TypeOK, Row
  <2>2. QED BY <1>10, <2>1 DEF set_recalibrated_importance, TypeOK, Present
<1>11. ASSUME NEW ns \in Namespaces, NEW m \in Ids, NEW c \in Confidences,
              set_confidence(ns, m, c)
       PROVE  TypeOK'
  <2>1. m \in Present /\ [memories[m] EXCEPT !.confidence = c] \in Row
    BY <1>11 DEF set_confidence, In, TypeOK, Row
  <2>2. QED BY <1>11, <2>1 DEF set_confidence, TypeOK, Present
<1>12. ASSUME NEW m \in Ids, NEW t \in Texts, update_vector(m, t)
       PROVE  TypeOK'
  <2>1. m \in Present /\ [memories[m] EXCEPT !.stamped = TRUE] \in Row
    BY <1>12 DEF update_vector, TypeOK, Row
  <2>2. [ns |-> IF m \in DOMAIN vectors THEN vectors[m].ns ELSE memories[m].ns,
         text |-> t] \in Vector
    BY <2>1 DEF TypeOK, Row, Vector
  <2>3. DOMAIN vectors' \subseteq Ids /\ vectors' \in [DOMAIN vectors' -> Vector]
    BY <1>12, <2>2 DEF update_vector, TypeOK, Put
  <2>4. QED BY <1>12, <2>1, <2>3 DEF update_vector, TypeOK, Present
<1>13. ASSUME NEW ns \in Namespaces, NEW p \in Policies, NEW mode \in {"apply", "hard"},
              retention_sweep(ns, p, mode)
       PROVE  TypeOK'
  <2>1. PICK Done \in SUBSET {m \in Present : Eligible(m, ns, p, mode)} :
            /\ vectors' = Without(vectors, Done)
            /\ \/ /\ memories' = Archived(memories, Done)
                  /\ oplog' = Logged(oplog, Done, "archive")
                  /\ UNCHANGED links
               \/ /\ memories' = Purged(memories, Done)
                  /\ oplog' = Logged(oplog, Done, "purge")
                  /\ links' = {l \in links : l[1] \notin Done /\ l[2] \notin Done}
            /\ blocked' \in BOOLEAN /\ UNCHANGED anchors
    BY <1>13 DEF retention_sweep
  <2>2. Done \subseteq Ids /\ Done \subseteq Present
    BY DEF TypeOK
  <2>3. /\ DOMAIN memories' \subseteq Ids
        /\ memories' \in [DOMAIN memories' -> Row]
    <3>1. CASE memories' = Archived(memories, Done)
      BY <2>2, <3>1, RowEdits DEF Archived, TypeOK, Present
    <3>2. CASE memories' = Purged(memories, Done)
      BY <2>2, <3>2, RowEdits DEF Purged, TypeOK, Present
    <3>3. QED BY <2>1, <3>1, <3>2
  <2>4. DOMAIN vectors' \subseteq Ids /\ vectors' \in [DOMAIN vectors' -> Vector]
    BY <2>1, <2>2 DEF TypeOK, Without
  <2>5. DOMAIN oplog' \subseteq Ids /\ oplog' \in [DOMAIN oplog' -> LifecycleOps]
    BY <2>1, <2>2 DEF TypeOK, Logged, LifecycleOps
  <2>6. links' \subseteq Link
    BY <2>1 DEF TypeOK
  <2>7. QED BY <2>1, <2>3, <2>4, <2>5, <2>6 DEF TypeOK, Present
<1>14. ASSUME NEW old \in Namespaces, NEW new \in Namespaces, NEW merge \in BOOLEAN,
              rename_namespace(old, new, merge)
       PROVE  TypeOK'
  <2>1. \A r \in Row : [r EXCEPT !.ns = new] \in Row
    BY DEF Row
  <2>2. \A v \in Vector : [v EXCEPT !.ns = new] \in Vector
    BY DEF Vector
  <2>3. DOMAIN memories' = Present /\ memories' \in [Present -> Row]
    BY <1>14, <2>1 DEF rename_namespace, TypeOK
  <2>4. DOMAIN vectors' = DOMAIN vectors /\ vectors' \in [DOMAIN vectors -> Vector]
    BY <1>14, <2>2 DEF rename_namespace, TypeOK
  <2>5. QED
    BY <1>14, <2>3, <2>4 DEF rename_namespace, RenamedAnchors, TypeOK, Present
<1>15. CASE scrub
  BY <1>15, RowTypes DEF scrub, TypeOK, Present
<1>16. CASE accept_embedding_space_change
  <2>1. \A r \in Row : [r EXCEPT !.stamped = FALSE] \in Row
    BY DEF Row
  <2>2. QED
    BY <1>16, <2>1 DEF accept_embedding_space_change, EmptyTable, TypeOK, Present
<1>17. CASE Tick
  <2>1. \A r \in Row : [r EXCEPT !.age = IF r.age < MaxAge THEN r.age + 1 ELSE r.age] \in Row
    BY NumbersAssumption DEF Row, Ages
  <2>2. QED BY <1>17, <2>1 DEF Tick, TypeOK, Present
<1>18. CASE UNCHANGED vars
  BY <1>18 DEF vars, TypeOK, Present
<1>19. ASSUME NEW ns \in Namespaces, NEW m \in Ids, archive_memory(ns, m) \/ archive_unattended(ns, m)
       PROVE  TypeOK'
  BY <1>5, <1>19 DEF archive_memory, archive_unattended, In
<1>20. ASSUME NEW ns \in Namespaces, NEW old \in Ids, NEW new \in Ids,
              supersede(ns, old, new) \/ supersede_duplicate(ns, old, new)
       PROVE  TypeOK'
  BY <1>6, <1>20 DEF supersede, supersede_duplicate, DuplicateRoles
<1>21. QED
  BY <1>1, <1>2, <1>3, <1>4, <1>7, <1>8, <1>9, <1>10, <1>11, <1>12, <1>13, <1>14, <1>15,
     <1>16, <1>17, <1>18, <1>19, <1>20
  DEF Next, AuthorNext, AutomaticNext, SweepNext, AdminNext

\* Type correctness of every table under every sequence of transactions.
THEOREM TypeCorrect == Spec => []TypeOK
<1>1. Init => TypeOK
  BY DEF Init, TypeOK, EmptyTable, Present
<1>2. QED BY <1>1, TypeOKStep, PTL DEF Spec
-----------------------------------------------------------------------------
\* One step gives a memory a new successor only if that successor has none itself:
\* what keeps every lineage finite.
LineageStep ==
    \A m \in Ids :
        \/ Successor(m)' = Successor(m)
        \/ Successor(m)' = Null
        \/ \E w \in Ids : Successor(m)' = w /\ Successor(w)' = Null

LEMMA AcyclicStep == LineageAcyclic /\ LineageStep => LineageAcyclic'
<1> SUFFICES ASSUME LineageAcyclic, LineageStep, NEW S \in SUBSET Ids, S # {}
             PROVE  \E m \in S : Successor(m)' \notin S
  BY DEF LineageAcyclic
<1>1. Null \notin S
  BY IdsAssumption
<1>2. CASE \A m \in S : Successor(m)' = Successor(m)
  BY <1>2 DEF LineageAcyclic
<1>3. CASE \E m \in S : Successor(m)' # Successor(m)
  <2>1. PICK m \in S : Successor(m)' # Successor(m)
    BY <1>3
  <2>2. CASE Successor(m)' = Null
    BY <1>1, <2>2
  <2>3. CASE \E w \in Ids : Successor(m)' = w /\ Successor(w)' = Null
    <3>1. PICK w \in Ids : Successor(m)' = w /\ Successor(w)' = Null
      BY <2>3
    <3>2. CASE w \in S
      BY <1>1, <3>1, <3>2
    <3>3. CASE w \notin S
      BY <3>1, <3>3
    <3>4. QED BY <3>2, <3>3
  <2>4. QED BY <2>1, <2>2, <2>3 DEF LineageStep
<1>4. QED BY <1>2, <1>3

\* Every transaction is such a step: a supersede looks at the target it writes.
LEMMA EveryStepLineage == TypeOK /\ [Next]_vars => LineageStep
<1> SUFFICES ASSUME TypeOK, [Next]_vars PROVE LineageStep
  OBVIOUS
<1>1. ASSUME NEW m \in Ids, NEW n \in Notes, insert_memory(m, n)
      PROVE  LineageStep
  BY <1>1 DEF insert_memory, InsertedMemories, Put, NewRow, LineageStep, Successor, Present
<1>2. ASSUME NEW m \in Ids, NEW n \in Notes, NEW old \in Ids, NEW allow \in BOOLEAN,
             insert_superseding_memory(m, n, old, allow)
      PROVE  LineageStep
  <2>1. CASE memories' = InsertedMemories(m, n)
    BY <2>1 DEF InsertedMemories, Put, NewRow, LineageStep, Successor, Present
  <2>2. CASE /\ m # old /\ m \notin Present /\ Current(old)
             /\ memories' = Superseded(InsertedMemories(m, n), old, m)
    BY <2>2 DEF TypeOK, Current, Live, Superseded, InsertedMemories, Put, NewRow, LineageStep,
                Successor, Present, Row
  <2>3. QED BY <1>2, <2>1, <2>2 DEF insert_superseding_memory
<1>3. ASSUME NEW ns \in Namespaces, NEW a \in Ids, NEW b \in Ids, NEW m \in Ids,
             NEW n \in Notes, NEW allow \in BOOLEAN, review_merge(ns, a, b, m, n, allow)
      PROVE  LineageStep
  <2>1. /\ {a, b} \subseteq Present /\ m \notin Present
        /\ memories' = Superseded(Superseded(InsertedMemories(m, n), a, m), b, m)
    BY <1>3 DEF review_merge, In
  <2> DEFINE im == InsertedMemories(m, n)
             sm == Superseded(im, a, m)
  <2>2. /\ DOMAIN im = Present \cup {m} /\ im[m].supersededBy = Null
        /\ im \in [Present \cup {m} -> Row]
        /\ \A k \in Present : im[k] = memories[k]
    BY <2>1, InsertTypes DEF InsertedMemories, Put, NewRow, Present
  <2> HIDE DEF im
  <2>3. /\ DOMAIN sm = Present \cup {m} /\ sm \in [Present \cup {m} -> Row]
        /\ sm[m].supersededBy = Null /\ sm[a].supersededBy = m
        /\ \A k \in Present \ {a} : sm[k] = memories[k]
    <3> DEFINE D == Present \cup {m}
    <3>1. /\ im \in [D -> Row] /\ a \in D
          /\ m \in D \ {a} /\ \A k \in Present \ {a} : k \in D \ {a} /\ im[k] = memories[k]
      BY <2>1, <2>2
    <3> HIDE DEF D
    <3>2. /\ sm \in [D -> Row] /\ DOMAIN sm = D /\ sm[a].supersededBy = m
          /\ \A k \in D \ {a} : sm[k] = im[k]
      BY <3>1, SupersededTable
    <3>3. QED BY <2>2, <3>1, <3>2 DEF D
  <2>4. /\ DOMAIN memories' = Present \cup {m}
        /\ memories'[m].supersededBy = Null
        /\ memories'[b].supersededBy = m
        /\ \A k \in Present \ {b} : memories'[k] = sm[k]
    <3>1. memories' = Superseded(sm, b, m) /\ b \in Present \cup {m} /\ m # b
      BY <2>1 DEF im
    <3> HIDE DEF sm
    <3>2. QED BY <2>1, <2>3, <3>1, SupersededTable
  <2> HIDE DEF sm
  <2>5. QED
    BY <2>1, <2>3, <2>4 DEF LineageStep, Successor, Present
<1>4. ASSUME NEW old \in Ids, NEW new \in Ids, supersede_in_tx(old, new)
      PROVE  LineageStep
  BY <1>4 DEF TypeOK, supersede_in_tx, SupersedeGuard, Current, Live, Superseded,
              LineageStep, Successor, Present, Row
<1>5. ASSUME NEW ns \in Namespaces, NEW p \in Policies, NEW mode \in {"apply", "hard"},
             retention_sweep(ns, p, mode)
      PROVE  LineageStep
  <2>1. PICK Done : memories' = Archived(memories, Done) \/ memories' = Purged(memories, Done)
    BY <1>5 DEF retention_sweep
  <2>2. CASE memories' = Archived(memories, Done)
    BY <2>2 DEF TypeOK, Archived, LineageStep, Successor, Present, Row
  <2>3. CASE memories' = Purged(memories, Done)
    BY <2>3 DEF TypeOK, Purged, LineageStep, Successor, Present, Row
  <2>4. QED BY <2>1, <2>2, <2>3
<1>6. ASSUME DOMAIN memories' = Present,
             \A m \in Present : memories'[m].supersededBy = memories[m].supersededBy
      PROVE  LineageStep
  BY <1>6 DEF LineageStep, Successor, Present
<1>7. ASSUME NEW ns \in Namespaces, NEW m \in Ids
      PROVE  /\ \A u \in Updates : update_memory(ns, m, u) => LineageStep
             /\ archive_memory(ns, m) \/ archive_unattended(ns, m) => LineageStep
             /\ \A d \in ConfidenceDeltas : record_feedback(ns, m, d) => LineageStep
             /\ \A i \in Importances : set_recalibrated_importance(ns, m, i) => LineageStep
             /\ \A c \in Confidences : set_confidence(ns, m, c) => LineageStep
  <2>1. \A u \in Updates : update_memory(ns, m, u) => LineageStep
    BY <1>6 DEF TypeOK, update_memory, Updated, In, Present, Row
  <2>2. archive_memory(ns, m) \/ archive_unattended(ns, m) => LineageStep
    BY <1>6 DEF TypeOK, archive_memory, archive_unattended, ArchiveOne, Archived, Present, Row
  <2>3. \A d \in ConfidenceDeltas : record_feedback(ns, m, d) => LineageStep
    BY <1>6 DEF TypeOK, record_feedback, Present, Row
  <2>4. /\ \A i \in Importances : set_recalibrated_importance(ns, m, i) => LineageStep
        /\ \A c \in Confidences : set_confidence(ns, m, c) => LineageStep
    BY <1>6 DEF TypeOK, set_recalibrated_importance, set_confidence, Present, Row
  <2>5. QED BY <2>1, <2>2, <2>3, <2>4
<1>8. ASSUME NEW old \in Namespaces, NEW new \in Namespaces, NEW merge \in BOOLEAN,
             rename_namespace(old, new, merge)
      PROVE  LineageStep
  BY <1>6, <1>8 DEF TypeOK, rename_namespace, Present, Row
<1>9. CASE scrub
  BY <1>6, <1>9 DEF TypeOK, scrub, Scrubbed, Present, Row
<1>10. CASE accept_embedding_space_change \/ Tick
  BY <1>6, <1>10 DEF TypeOK, accept_embedding_space_change, Tick, Present, Row
<1>11. CASE UNCHANGED memories
  BY <1>6, <1>11 DEF Present
<1>12. ASSUME NEW ns \in Namespaces, NEW old \in Ids, NEW new \in Ids,
              supersede(ns, old, new) \/ supersede_duplicate(ns, old, new)
       PROVE  LineageStep
  BY <1>4, <1>12 DEF supersede, supersede_duplicate, DuplicateRoles
<1>13. CASE \/ \E a, b \in Ids, type \in LinkTypes : add_link(a, b, type)
            \/ \E l \in links : delete_link(l)
            \/ UNCHANGED vars
  BY <1>11, <1>13 DEF add_link, delete_link, vars
<1>14. ASSUME NEW m \in Ids, NEW t \in Texts, update_vector(m, t)
       PROVE  LineageStep
  BY <1>6, <1>14 DEF TypeOK, update_vector, Present, Row
<1>15. CASE AuthorNext
  BY <1>1, <1>2, <1>3, <1>7, <1>12, <1>13, <1>15 DEF AuthorNext
<1>16. CASE AutomaticNext
  BY <1>2, <1>3, <1>7, <1>12, <1>13, <1>16, <1>14 DEF AutomaticNext
<1>17. QED
  BY <1>5, <1>8, <1>9, <1>10, <1>13, <1>15, <1>16 DEF Next, SweepNext, AdminNext

\* Whatever order stale supersede plans, merges and purges arrive in, no lineage ever
\* runs into itself: for any number of memories.
THEOREM LineageNeverCycles == Spec => []LineageAcyclic
<1>1. Init => LineageAcyclic
  BY IdsAssumption DEF Init, LineageAcyclic, Successor, EmptyTable, Present
<1>2. TypeOK /\ LineageAcyclic /\ [Next]_vars => LineageAcyclic'
  BY AcyclicStep, EveryStepLineage
<1>3. QED BY <1>1, <1>2, TypeCorrect, PTL DEF Spec

-----------------------------------------------------------------------------
(* The effects of a transaction on the tables *)

\* A row that another took the place of
ReplacedBy(r, w) == [r EXCEPT !.archived = TRUE, !.supersededBy = w]

\* A note is written as m and takes the place of the rows R, with none of their links
\* but those copied onto it.
Adds(m, n, R) ==
    /\ m \in Ids \ Present /\ n \in Notes /\ R \subseteq Present
    /\ \A k \in R : Current(k)
    /\ DOMAIN memories' = Present \cup {m}
    /\ memories'[m] = NewRow(n)
    /\ \A k \in R : memories'[k] = ReplacedBy(memories[k], m)
    /\ \A k \in Present \ R : memories'[k] = memories[k]
    /\ vectors' = Without(InsertedVectors(m, n), R)
    /\ anchors' = InsertedAnchors(m, n)
    /\ oplog' = Logged(InsertLogged(m), R, "supersede")
    /\ \A l \in links' : \/ l \in links
                         \/ \E k \in links : {l[1], l[2]} \subseteq {m, k[1], k[2]}

\* One row takes the place of another.
Supersedes(old, new) ==
    /\ old \in Ids /\ new \in Ids /\ old # new /\ Current(old) /\ Current(new)
    /\ DOMAIN memories' = Present
    /\ memories'[old] = ReplacedBy(memories[old], new)
    /\ \A k \in Present \ {old} : memories'[k] = memories[k]
    /\ vectors' = Without(vectors, {old})
    /\ oplog' = Logged(oplog, {old}, "supersede")
    /\ UNCHANGED <<anchors, links>>

\* Live rows leave the index and stay.
Retires(A) ==
    /\ A \subseteq Present /\ \A m \in A : Live(m)
    /\ memories' = Archived(memories, A)
    /\ vectors' = Without(vectors, A)
    /\ oplog' = Logged(oplog, A, "archive")
    /\ UNCHANGED <<anchors, links>>

\* Rows without anchors go, with what points at them.
Purges(P) ==
    /\ P \subseteq Present /\ P \cap DOMAIN anchors = {}
    /\ memories' = Purged(memories, P)
    /\ vectors' = Without(vectors, P)
    /\ oplog' = Logged(oplog, P, "purge")
    /\ links' = {l \in links : l[1] \notin P /\ l[2] \notin P}
    /\ UNCHANGED anchors

\* What an edit leaves of a row: its place, and a stamp only where the text is the one
\* the stamp was given for (or the row is archived).
Edited(r, s) ==
    /\ s.ns = r.ns /\ s.archived = r.archived /\ s.supersededBy = r.supersededBy
    /\ s.stamped => r.archived \/ (r.stamped /\ s.text = r.text)

\* Columns of rows change and no other table does.
EditsRows ==
    /\ DOMAIN memories' = Present
    /\ \A m \in Present : Edited(memories[m], memories'[m])
    /\ UNCHANGED <<vectors, anchors, links, oplog>>

\* Edges between present rows come and go.
EditsLinks ==
    /\ \A l \in links' : l \in links \/ {l[1], l[2]} \subseteq Present
    /\ UNCHANGED <<memories, vectors, anchors, oplog>>

Effect ==
    \/ \E m \in Ids, n \in Notes, R \in SUBSET Present : Adds(m, n, R)
    \/ \E old, new \in Ids : Supersedes(old, new)
    \/ \E A \in SUBSET Present : Retires(A) \/ Purges(A)
    \/ EditsRows \/ EditsLinks
    \/ \E m \in Ids, t \in Texts : update_vector(m, t)
    \/ \E old, new \in Namespaces, merge \in BOOLEAN : rename_namespace(old, new, merge)
    \/ accept_embedding_space_change

-----------------------------------------------------------------------------
(* Every transaction has one of the effects *)

\* The table with the note's row in it
LEMMA InsertedRow ==
    ASSUME TypeOK, NEW m \in Ids, NEW n \in Notes, m \notin Present
    PROVE  /\ DOMAIN InsertedMemories(m, n) = Present \cup {m}
           /\ InsertedMemories(m, n) \in [Present \cup {m} -> Row]
           /\ InsertedMemories(m, n)[m] = NewRow(n)
           /\ \A k \in Present : InsertedMemories(m, n)[k] = memories[k]
  BY InsertTypes DEF InsertedMemories, Put, Present

\* The pointer UPDATE on a table, as equations between rows
LEMMA SupersededRow ==
    ASSUME NEW t, NEW old, NEW new, new \in Ids, t \in [DOMAIN t -> Row], old \in DOMAIN t
    PROVE  /\ Superseded(t, old, new) \in [DOMAIN t -> Row]
           /\ DOMAIN Superseded(t, old, new) = DOMAIN t
           /\ Superseded(t, old, new)[old]
                = ReplacedBy(t[old], new)
           /\ \A k \in DOMAIN t : k # old => Superseded(t, old, new)[k] = t[k]
<1> DEFINE r == ReplacedBy(t[old], new)
<1>1. r \in Row
  BY RowEdits DEF ReplacedBy
<1>2. Superseded(t, old, new) = [t EXCEPT ![old] = r]
  BY DEF Superseded, ReplacedBy
<1> HIDE DEF r
<1>3. /\ Superseded(t, old, new) \in [DOMAIN t -> Row]
      /\ DOMAIN Superseded(t, old, new) = DOMAIN t
      /\ Superseded(t, old, new)[old] = r
      /\ \A k \in DOMAIN t : k # old => Superseded(t, old, new)[k] = t[k]
  BY <1>1, <1>2
<1>4. QED BY <1>3 DEF r

LEMMA ReplacedColumns ==
    \A r \in Row : \A w :
        /\ ReplacedBy(r, w).archived /\ ReplacedBy(r, w).supersededBy = w
        /\ ReplacedBy(r, w).ns = r.ns /\ ReplacedBy(r, w).text = r.text
        /\ ReplacedBy(r, w).curated = r.curated
  BY DEF ReplacedBy, Row

LEMMA InsertAdds ==
    ASSUME TypeOK, NEW m \in Ids, NEW n \in Notes, insert_memory(m, n)
    PROVE  Adds(m, n, {})
<1>1. /\ DOMAIN memories' = Present \cup {m} /\ memories'[m] = NewRow(n)
      /\ \A k \in Present : memories'[k] = memories[k]
  BY InsertedRow, Zenon DEF insert_memory
<1>2. vectors' = Without(InsertedVectors(m, n), {})
  <2>1. InsertedVectors(m, n) = [x \in DOMAIN InsertedVectors(m, n) |-> InsertedVectors(m, n)[x]]
    BY InsertTypes
  <2>2. QED BY <2>1 DEF insert_memory, Without
<1>3. oplog' = Logged(InsertLogged(m), {}, "supersede")
  BY DEF insert_memory, Logged, InsertLogged
<1>4. QED BY <1>1, <1>2, <1>3 DEF insert_memory, Adds

LEMMA SupersedingInsertAdds ==
    ASSUME TypeOK, NEW m \in Ids, NEW n \in Notes, NEW old \in Ids, NEW allow,
           insert_superseding_memory(m, n, old, allow)
    PROVE  \E R \in SUBSET Present :
              Adds(m, n, R) /\ \A k \in R : memories[k].curated => allow
<1>1. CASE Current(old)
  <2>1. old \in Present /\ old # m /\ m \notin Present
    BY <1>1 DEF Current, Live, insert_superseding_memory
  <2> DEFINE im == InsertedMemories(m, n)
  <2>2. /\ DOMAIN im = Present \cup {m} /\ im \in [Present \cup {m} -> Row]
        /\ im[m] = NewRow(n) /\ \A k \in Present : im[k] = memories[k]
    BY <2>1, InsertedRow
  <2>3. /\ memories' = Superseded(im, old, m)
        /\ vectors' = Without(InsertedVectors(m, n), {old})
        /\ oplog' = Logged(InsertLogged(m), {old}, "supersede")
        /\ anchors' = InsertedAnchors(m, n) /\ links' = links
        /\ memories[old].curated => allow
    BY <1>1, <2>1 DEF insert_superseding_memory
  <2> HIDE DEF im
  <2>4. /\ DOMAIN memories' = Present \cup {m} /\ memories'[m] = NewRow(n)
        /\ memories'[old] = ReplacedBy(memories[old], m)
        /\ \A k \in Present \ {old} : memories'[k] = memories[k]
    <3>1. im \in [DOMAIN im -> Row] /\ old \in DOMAIN im
      BY <2>1, <2>2
    <3>2. /\ DOMAIN memories' = DOMAIN im
          /\ memories'[old] = ReplacedBy(im[old], m)
          /\ \A k \in DOMAIN im : k # old => memories'[k] = im[k]
      BY <2>3, <3>1, SupersededRow
    <3>3. QED BY <2>1, <2>2, <3>2
  <2>5. Adds(m, n, {old})
    BY <1>1, <2>1, <2>3, <2>4 DEF Adds
  <2>6. QED BY <2>1, <2>3, <2>5
<1>2. CASE ~Current(old)
  <2>1. insert_memory(m, n)
    BY <1>2 DEF insert_superseding_memory, insert_memory
  <2>2. QED BY <2>1, InsertAdds
<1>3. QED BY <1>1, <1>2

LEMMA MergeAdds ==
    ASSUME TypeOK, NEW ns, NEW a \in Ids, NEW b \in Ids, NEW m \in Ids, NEW n \in Notes,
           NEW allow, review_merge(ns, a, b, m, n, allow)
    PROVE  Adds(m, n, {a, b}) /\ \A k \in {a, b} : memories[k].curated => allow
<1>1. /\ {a, b} \subseteq Present /\ a # b /\ m \notin Present
      /\ \A k \in {a, b} : Current(k) /\ (memories[k].curated => allow)
  BY DEF review_merge, In
<1> DEFINE im == InsertedMemories(m, n)
           sm == Superseded(im, a, m)
<1>2. /\ DOMAIN im = Present \cup {m} /\ im \in [Present \cup {m} -> Row]
      /\ im[m] = NewRow(n) /\ \A k \in Present : im[k] = memories[k]
  BY <1>1, InsertedRow
<1>3. /\ memories' = Superseded(sm, b, m)
      /\ vectors' = Without(InsertedVectors(m, n), {a, b})
      /\ oplog' = Logged(InsertLogged(m), {a, b}, "supersede")
      /\ anchors' = InsertedAnchors(m, n)
      /\ links' = links \cup CopiedLinks(m, a, b)
  BY DEF review_merge
<1> HIDE DEF im
<1>4. /\ DOMAIN sm = Present \cup {m} /\ sm \in [Present \cup {m} -> Row]
      /\ sm[a] = ReplacedBy(memories[a], m)
      /\ \A k \in (Present \cup {m}) \ {a} : sm[k] = im[k]
  <2>1. im \in [DOMAIN im -> Row] /\ a \in DOMAIN im
    BY <1>1, <1>2
  <2>2. /\ sm \in [DOMAIN im -> Row] /\ DOMAIN sm = DOMAIN im
        /\ sm[a] = ReplacedBy(im[a], m)
        /\ \A k \in DOMAIN im : k # a => sm[k] = im[k]
    BY <2>1, SupersededRow
  <2>3. QED BY <1>1, <1>2, <2>2
<1> HIDE DEF sm
<1>5. /\ DOMAIN memories' = Present \cup {m}
      /\ memories'[b] = ReplacedBy(sm[b], m)
      /\ \A k \in (Present \cup {m}) \ {b} : memories'[k] = sm[k]
  <2>1. sm \in [DOMAIN sm -> Row] /\ b \in DOMAIN sm
    BY <1>1, <1>4
  <2>2. /\ DOMAIN memories' = DOMAIN sm
        /\ memories'[b] = ReplacedBy(sm[b], m)
        /\ \A k \in DOMAIN sm : k # b => memories'[k] = sm[k]
    BY <1>3, <2>1, SupersededRow
  <2>3. QED BY <1>1, <1>4, <2>2
<1>6. /\ memories'[m] = NewRow(n)
      /\ \A k \in {a, b} :
            memories'[k] = ReplacedBy(memories[k], m)
      /\ \A k \in Present \ {a, b} : memories'[k] = memories[k]
  BY <1>1, <1>2, <1>4, <1>5
<1>7. ASSUME NEW l \in links'
      PROVE  l \in links \/ \E k \in links : {l[1], l[2]} \subseteq {m, k[1], k[2]}
  BY <1>3, <1>7 DEF CopiedLinks
<1>8. QED BY <1>1, <1>3, <1>5, <1>6, <1>7 DEF Adds

LEMMA SupersedeInTx ==
    ASSUME TypeOK, NEW old \in Ids, NEW new \in Ids, supersede_in_tx(old, new)
    PROVE  Supersedes(old, new)
<1>1. old \in Present /\ old # new /\ Current(old) /\ Current(new)
  BY DEF supersede_in_tx, SupersedeGuard, Current, Live
<1>2. memories \in [DOMAIN memories -> Row] /\ old \in DOMAIN memories
  BY <1>1 DEF TypeOK, Present
<1>3. /\ DOMAIN memories' = DOMAIN memories
      /\ memories'[old] = ReplacedBy(memories[old], new)
      /\ \A k \in DOMAIN memories : k # old => memories'[k] = memories[k]
  BY <1>2, SupersededRow DEF supersede_in_tx
<1>4. QED BY <1>1, <1>3 DEF supersede_in_tx, Supersedes, Present

\* A sweep retires or purges candidates, and purges none with anchors.
LEMMA SweepEffect ==
    ASSUME TypeOK, NEW ns, NEW p, NEW mode \in {"apply", "hard"}, retention_sweep(ns, p, mode)
    PROVE  \E Done \in SUBSET Present :
              /\ \A m \in Done : Eligible(m, ns, p, mode)
              /\ Retires(Done) \/ Purges(Done)
<1>1. PICK Done \in SUBSET {m \in Present : Eligible(m, ns, p, mode)} :
          /\ mode = "hard" => \A m \in Done : ~PurgeViolatesForeignKey(m)
          /\ vectors' = Without(vectors, Done)
          /\ \/ /\ mode = "apply"
                /\ memories' = Archived(memories, Done)
                /\ oplog' = Logged(oplog, Done, "archive")
                /\ UNCHANGED links
             \/ /\ mode = "hard"
                /\ memories' = Purged(memories, Done)
                /\ oplog' = Logged(oplog, Done, "purge")
                /\ links' = {l \in links : l[1] \notin Done /\ l[2] \notin Done}
          /\ UNCHANGED anchors
  BY DEF retention_sweep
<1>2. Done \in SUBSET Present /\ \A m \in Done : Eligible(m, ns, p, mode)
  OBVIOUS
<1>3. CASE mode = "apply"
  <2>1. \A m \in Done : Live(m)
    BY <1>2, <1>3 DEF Eligible
  <2>2. QED BY <1>1, <1>2, <1>3, <2>1 DEF Retires
<1>4. CASE mode = "hard"
  <2>1. Done \cap DOMAIN anchors = {}
    BY <1>1, <1>4 DEF PurgeViolatesForeignKey
  <2>2. QED BY <1>1, <1>2, <1>4, <2>1 DEF Purges
<1>5. QED BY <1>3, <1>4

\* Writes to the columns of rows
LEMMA RowWritesEdit ==
    ASSUME TypeOK, NEW ns, NEW m \in Ids
    PROVE  /\ \A u \in Updates : update_memory(ns, m, u) => EditsRows
           /\ \A d \in ConfidenceDeltas : record_feedback(ns, m, d) => EditsRows
           /\ \A i \in Importances : set_recalibrated_importance(ns, m, i) => EditsRows
           /\ \A c \in Confidences : set_confidence(ns, m, c) => EditsRows
           /\ scrub => EditsRows
           /\ Tick => EditsRows
<1>1. \A u \in Updates : update_memory(ns, m, u) => EditsRows
  <2> SUFFICES ASSUME NEW u \in Updates, update_memory(ns, m, u) PROVE EditsRows
    OBVIOUS
  <2>1. m \in Present /\ memories[m] \in Row /\ memories' = [memories EXCEPT ![m] = Updated(memories[m], u)]
    BY DEF update_memory, In, TypeOK
  <2>2. u.text = Null => Updated(memories[m], u).text = memories[m].text
    BY <2>1 DEF Updated, Or, Row
  <2>3. Edited(memories[m], Updated(memories[m], u))
    BY <2>1, <2>2 DEF Edited, Updated, Row
  <2>4. \A k \in Present \ {m} : Edited(memories[k], memories'[k])
    BY <2>1 DEF TypeOK, Edited
  <2>5. QED BY <2>1, <2>3, <2>4 DEF update_memory, EditsRows, TypeOK
<1>2. \A d \in ConfidenceDeltas : record_feedback(ns, m, d) => EditsRows
  BY DEF record_feedback, In, TypeOK, EditsRows, Edited, Row, Present
<1>3. \A i \in Importances : set_recalibrated_importance(ns, m, i) => EditsRows
  BY DEF set_recalibrated_importance, In, TypeOK, EditsRows, Edited, Row, Present
<1>4. \A c \in Confidences : set_confidence(ns, m, c) => EditsRows
  BY DEF set_confidence, In, TypeOK, EditsRows, Edited, Row, Present
<1>5. scrub => EditsRows
  <2>1. \A r \in Row : Edited(r, Scrubbed(r))
    BY DEF Edited, Scrubbed, Row
  <2>2. QED BY <2>1 DEF scrub, TypeOK, EditsRows, Present
<1>6. Tick => EditsRows
  BY DEF Tick, TypeOK, EditsRows, Edited, Row, Present
<1>7. QED BY <1>1, <1>2, <1>3, <1>4, <1>5, <1>6

LEMMA EveryStepHasAnEffect == TypeOK /\ [Next]_vars => Effect
<1> SUFFICES ASSUME TypeOK, [Next]_vars PROVE Effect
  OBVIOUS
<1>1. ASSUME NEW m \in Ids, NEW n \in Notes
      PROVE  /\ insert_memory(m, n) => Effect
             /\ \A old \in Ids, allow \in BOOLEAN :
                    insert_superseding_memory(m, n, old, allow) => Effect
             /\ \A ns \in Namespaces, a, b \in Ids, allow \in BOOLEAN :
                    review_merge(ns, a, b, m, n, allow) => Effect
  <2>1. insert_memory(m, n) => Effect
    BY InsertAdds DEF Effect
  <2>2. ASSUME NEW old \in Ids, NEW allow \in BOOLEAN,
               insert_superseding_memory(m, n, old, allow)
        PROVE  Effect
    BY <2>2, SupersedingInsertAdds DEF Effect
  <2>3. ASSUME NEW ns \in Namespaces, NEW a \in Ids, NEW b \in Ids, NEW allow \in BOOLEAN,
               review_merge(ns, a, b, m, n, allow)
        PROVE  Effect
    <3>1. Adds(m, n, {a, b})
      BY <2>3, MergeAdds
    <3>2. {a, b} \in SUBSET Present
      BY <3>1 DEF Adds
    <3>3. QED BY <3>1, <3>2 DEF Effect
  <2>4. QED BY <2>1, <2>2, <2>3
<1>2. ASSUME NEW m \in Ids, ArchiveOne(m), Live(m)
      PROVE  Effect
  <2>1. {m} \in SUBSET Present
    BY <1>2 DEF Live
  <2>2. Retires({m})
    BY <1>2, <2>1 DEF ArchiveOne, Retires
  <2>3. QED BY <2>1, <2>2 DEF Effect
<1>3. ASSUME NEW ns \in Namespaces, NEW m \in Ids, archive_memory(ns, m) \/ archive_unattended(ns, m)
      PROVE  Effect
  BY <1>2, <1>3 DEF archive_memory, archive_unattended
<1>4. ASSUME NEW old \in Ids, NEW new \in Ids, supersede_in_tx(old, new)
      PROVE  Effect
  BY <1>4, SupersedeInTx DEF Effect
<1>5. ASSUME NEW ns \in Namespaces, NEW old \in Ids, NEW new \in Ids,
             supersede(ns, old, new) \/ supersede_duplicate(ns, old, new)
      PROVE  Effect
  BY <1>4, <1>5 DEF supersede, supersede_duplicate, DuplicateRoles
<1>6. ASSUME NEW ns \in Namespaces, NEW m \in Ids
      PROVE  /\ \A u \in Updates : update_memory(ns, m, u) => Effect
             /\ \A d \in ConfidenceDeltas : record_feedback(ns, m, d) => Effect
             /\ \A i \in Importances : set_recalibrated_importance(ns, m, i) => Effect
             /\ \A c \in Confidences : set_confidence(ns, m, c) => Effect
  BY RowWritesEdit DEF Effect
<1>7. \A a, b \in Ids, type \in LinkTypes : add_link(a, b, type) => EditsLinks
  BY DEF add_link, EditsLinks
<1>8. \A l \in links : delete_link(l) => EditsLinks
  BY DEF delete_link, EditsLinks
<1>9. SweepNext => Effect
  BY SweepEffect DEF SweepNext, Effect
<1>10. CASE AdminNext
  <2>1. CASE scrub \/ Tick
    <3>1. PICK m \in Present : TRUE
      BY <2>1 DEF scrub, Tick
    <3>2. m \in Ids
      BY DEF TypeOK
    <3>3. EditsRows
      BY <2>1, <3>2, RowWritesEdit
    <3>4. QED BY <3>3 DEF Effect
  <2>2. QED BY <1>10, <2>1 DEF AdminNext, Effect
<1>11. CASE UNCHANGED vars
  <2>1. EditsLinks
    BY <1>11 DEF vars, EditsLinks
  <2>2. QED BY <2>1 DEF Effect
<1>12. CASE AuthorNext
  BY <1>1, <1>3, <1>5, <1>6, <1>7, <1>12 DEF AuthorNext, Effect
<1>13. CASE AutomaticNext
  BY <1>1, <1>3, <1>5, <1>6, <1>8, <1>13 DEF AutomaticNext, Effect
<1>14. QED BY <1>9, <1>10, <1>11, <1>12, <1>13 DEF Next

-----------------------------------------------------------------------------
(* The vector index *)

\* What an insert leaves in the index
LEMMA InsertedVector ==
    ASSUME TypeOK, NEW m \in Ids, NEW n \in Notes
    PROVE  /\ DOMAIN InsertedVectors(m, n) \subseteq DOMAIN vectors \cup {m}
           /\ \A k \in DOMAIN vectors : k # m => InsertedVectors(m, n)[k] = vectors[k]
           /\ m \in DOMAIN InsertedVectors(m, n) =>
                 \/ m \in DOMAIN vectors
                 \/ InsertedVectors(m, n)[m] = [ns |-> n.ns, text |-> n.text]
  BY DEF TypeOK, InsertedVectors, Put

\* The two halves are preserved together: a stamp is about the vector of a live row.
IndexInv == VectorsLiveOnly /\ StampTellsTruth

LEMMA IndexStep == TypeOK /\ IndexInv /\ Effect => IndexInv'
<1> SUFFICES ASSUME TypeOK, IndexInv, Effect,
                    NEW k \in DOMAIN vectors'
             PROVE  /\ Live(k)' /\ vectors'[k].ns = memories'[k].ns
                    /\ memories'[k].stamped => vectors'[k].text = memories'[k].text
  BY DEF IndexInv, VectorsLiveOnly, StampTellsTruth
<1>0. \A j \in DOMAIN vectors :
          /\ j \in Present /\ memories[j] \in Row /\ ~memories[j].archived
          /\ vectors[j].ns = memories[j].ns
          /\ memories[j].stamped => vectors[j].text = memories[j].text
  BY DEF IndexInv, VectorsLiveOnly, StampTellsTruth, Live, TypeOK
<1>1. ASSUME NEW m \in Ids, NEW n \in Notes, NEW R \in SUBSET Present, Adds(m, n, R)
      PROVE  /\ Live(k)' /\ vectors'[k].ns = memories'[k].ns
             /\ memories'[k].stamped => vectors'[k].text = memories'[k].text
  <2>1. /\ k \in DOMAIN InsertedVectors(m, n) /\ k \notin R
        /\ vectors'[k] = InsertedVectors(m, n)[k]
    BY <1>1 DEF Adds, Without
  <2>2. m \notin DOMAIN vectors
    BY <1>0, <1>1 DEF Adds
  <2>3. CASE k = m
    <3>1. vectors'[k] = [ns |-> n.ns, text |-> n.text] /\ memories'[k] = NewRow(n) /\ k \in Present'
      BY <1>1, <2>1, <2>2, <2>3, InsertedVector DEF Adds, Present
    <3>2. QED BY <3>1 DEF NewRow, Live
  <2>4. CASE k # m
    <3>1. k \in DOMAIN vectors /\ vectors'[k] = vectors[k]
      <4>1. /\ DOMAIN InsertedVectors(m, n) \subseteq DOMAIN vectors \cup {m}
            /\ \A j \in DOMAIN vectors : j # m => InsertedVectors(m, n)[j] = vectors[j]
        BY InsertedVector
      <4>2. QED BY <2>1, <2>4, <4>1
    <3>2. k \in Present' /\ memories'[k] = memories[k]
      BY <1>0, <1>1, <2>1, <3>1 DEF Adds, Present
    <3>3. QED BY <1>0, <3>1, <3>2 DEF Live
  <2>5. QED BY <2>3, <2>4
<1>2. ASSUME NEW old \in Ids, NEW new \in Ids, Supersedes(old, new)
      PROVE  /\ Live(k)' /\ vectors'[k].ns = memories'[k].ns
             /\ memories'[k].stamped => vectors'[k].text = memories'[k].text
  BY <1>0, <1>2 DEF Supersedes, Without, Live, Present
<1>3. ASSUME NEW A \in SUBSET Present, Retires(A) \/ Purges(A)
      PROVE  /\ Live(k)' /\ vectors'[k].ns = memories'[k].ns
             /\ memories'[k].stamped => vectors'[k].text = memories'[k].text
  <2>1. k \in DOMAIN vectors /\ k \notin A /\ vectors'[k] = vectors[k]
    BY <1>3 DEF Retires, Purges, Without
  <2>2. k \in Present' /\ memories'[k].archived = memories[k].archived
        /\ memories'[k].ns = memories[k].ns /\ memories'[k].stamped = memories[k].stamped
        /\ memories'[k].text = memories[k].text
    BY <1>0, <1>3, <2>1 DEF Retires, Purges, Archived, Purged, Present, Row
  <2>3. QED BY <1>0, <2>1, <2>2 DEF Live
<1>4. CASE EditsRows
  BY <1>0, <1>4 DEF EditsRows, Edited, Live, Present
<1>5. CASE EditsLinks
  BY <1>0, <1>5 DEF EditsLinks, Live, Present
<1>6. ASSUME NEW m \in Ids, NEW t \in Texts, update_vector(m, t)
      PROVE  /\ Live(k)' /\ vectors'[k].ns = memories'[k].ns
             /\ memories'[k].stamped => vectors'[k].text = memories'[k].text
  <2>1. /\ m \in Present /\ memories[m] \in Row /\ ~memories[m].archived
        /\ memories[m].text = t
    BY <1>6 DEF update_vector, ReembedGuard, Live, TypeOK
  <2>2. /\ DOMAIN memories' = Present /\ memories'[m] = [memories[m] EXCEPT !.stamped = TRUE]
        /\ \A j \in Present \ {m} : memories'[j] = memories[j]
    BY <1>6, <2>1 DEF update_vector, TypeOK, Present
  <2>3. CASE k = m
    <3>1. vectors'[k] = [ns |-> IF m \in DOMAIN vectors THEN vectors[m].ns ELSE memories[m].ns,
                         text |-> t]
      BY <1>6, <2>3 DEF update_vector, Put
    <3>2. vectors'[k].ns = memories[m].ns /\ vectors'[k].text = t
      BY <1>0, <3>1
    <3>3. /\ memories'[m].ns = memories[m].ns /\ memories'[m].text = t
          /\ memories'[m].archived = FALSE
      BY <2>1, <2>2 DEF Row
    <3>4. QED BY <2>1, <2>2, <2>3, <3>2, <3>3 DEF Live, Present
  <2>4. CASE k # m
    <3>1. k \in DOMAIN vectors /\ vectors'[k] = vectors[k]
      BY <1>6, <2>4 DEF update_vector, Put
    <3>2. QED BY <1>0, <2>2, <2>4, <3>1 DEF Live, Present
  <2>5. QED BY <2>3, <2>4
<1>7. ASSUME NEW old \in Namespaces, NEW new \in Namespaces, NEW merge \in BOOLEAN,
             rename_namespace(old, new, merge)
      PROVE  /\ Live(k)' /\ vectors'[k].ns = memories'[k].ns
             /\ memories'[k].stamped => vectors'[k].text = memories'[k].text
  <2>1. /\ k \in DOMAIN vectors /\ k \in Present /\ k \in Present'
        /\ memories[k] \in Row /\ vectors[k] \in Vector
    BY <1>0, <1>7 DEF rename_namespace, Present, TypeOK
  <2>2. CASE In(k, old)
    <3>1. /\ memories'[k] = [memories[k] EXCEPT !.ns = new]
          /\ vectors'[k] = [vectors[k] EXCEPT !.ns = new]
      BY <1>7, <2>1, <2>2 DEF rename_namespace
    <3>2. QED BY <1>0, <2>1, <3>1 DEF Live, Row, Vector
  <2>3. CASE ~In(k, old)
    <3>1. memories'[k] = memories[k] /\ vectors'[k] = vectors[k]
      BY <1>7, <2>1, <2>3 DEF rename_namespace
    <3>2. QED BY <1>0, <2>1, <3>1 DEF Live
  <2>4. QED BY <2>2, <2>3
<1>8. ~accept_embedding_space_change
  BY DEF accept_embedding_space_change, EmptyTable
<1>9. QED BY <1>1, <1>2, <1>3, <1>4, <1>5, <1>6, <1>7, <1>8 DEF Effect

LEMMA IndexAlways == Spec => []IndexInv
<1>1. Init => IndexInv
  BY DEF Init, IndexInv, VectorsLiveOnly, StampTellsTruth, EmptyTable
<1>2. TypeOK /\ IndexInv /\ [Next]_vars => IndexInv'
  BY IndexStep, EveryStepHasAnEffect
<1>3. QED BY <1>1, <1>2, TypeCorrect, PTL DEF Spec

\* vector_search may take every row of the index for a live one of the namespace it is
\* filed under: no archive, supersede, purge, rename or overtaken reembed leaves another.
THEOREM IndexHoldsLiveRows == Spec => []VectorsLiveOnly
<1>1. IndexInv => VectorsLiveOnly
  BY DEF IndexInv
<1>2. QED BY <1>1, IndexAlways, PTL

\* A row stamped current has the vector of the text it has now, whatever edit or scrub
\* came between the reading of a text and the writing of its vector.
THEOREM StampIsTrue == Spec => []StampTellsTruth
<1>1. IndexInv => StampTellsTruth
  BY DEF IndexInv
<1>2. QED BY <1>1, IndexAlways, PTL

-----------------------------------------------------------------------------
(* References between tables *)

LEMMA ReferenceStep == TypeOK /\ NoDanglingReference /\ Effect => NoDanglingReference'
<1> SUFFICES ASSUME TypeOK, NoDanglingReference, Effect PROVE NoDanglingReference'
  OBVIOUS
<1>0. /\ \A l \in links : l[1] \in Present /\ l[2] \in Present
      /\ \A m \in Present : memories[m] \in Row /\ memories[m].supersededBy \in Present \cup {Null}
      /\ DOMAIN anchors \subseteq Present
      /\ \A m \in DOMAIN anchors : anchors[m] = memories[m].ns
  BY DEF NoDanglingReference, TypeOK
<1>1. ASSUME NEW m \in Ids, NEW n \in Notes, NEW R \in SUBSET Present, Adds(m, n, R)
      PROVE  NoDanglingReference'
  <2>1. Present' = Present \cup {m} /\ m \notin Present
    BY <1>1 DEF Adds, Present
  <2>2. \A l \in links' : l[1] \in Present' /\ l[2] \in Present'
    BY <1>0, <1>1, <2>1 DEF Adds
  <2>3. /\ \A k \in Present' : memories'[k].supersededBy \in Present' \cup {Null}
        /\ memories'[m].ns = n.ns
        /\ \A k \in Present : memories'[k].ns = memories[k].ns
    <3>1. memories'[m] = NewRow(n) /\ NewRow(n).ns = n.ns /\ NewRow(n).supersededBy = Null
      BY <1>1 DEF Adds, NewRow
    <3>2. \A k \in R : memories'[k].supersededBy = m /\ memories'[k].ns = memories[k].ns
      BY <1>0, <1>1, ReplacedColumns DEF Adds
    <3>3. \A k \in Present \ R : memories'[k] = memories[k]
      BY <1>1 DEF Adds
    <3>4. QED BY <1>0, <2>1, <3>1, <3>2, <3>3
  <2>4. /\ DOMAIN anchors' \subseteq DOMAIN anchors \cup {m}
        /\ \A k \in DOMAIN anchors' :
              anchors'[k] = IF k = m THEN n.ns ELSE anchors[k]
    BY <1>0, <1>1, <2>1 DEF Adds, InsertedAnchors, Put
  <2>5. QED BY <1>0, <2>1, <2>2, <2>3, <2>4 DEF NoDanglingReference
<1>2. ASSUME NEW old \in Ids, NEW new \in Ids, Supersedes(old, new)
      PROVE  NoDanglingReference'
  <2>1. Present' = Present /\ old \in Present /\ new \in Present
    BY <1>2 DEF Supersedes, Present, Current, Live
  <2>2. \A k \in Present : /\ memories'[k].supersededBy \in Present \cup {Null}
                           /\ memories'[k].ns = memories[k].ns
    BY <1>0, <1>2, <2>1, ReplacedColumns DEF Supersedes
  <2>3. QED BY <1>0, <1>2, <2>1, <2>2 DEF Supersedes, NoDanglingReference
<1>3. ASSUME NEW A \in SUBSET Present, Retires(A)
      PROVE  NoDanglingReference'
  <2>1. /\ Present' = Present
        /\ \A k \in Present : /\ memories'[k].supersededBy = memories[k].supersededBy
                              /\ memories'[k].ns = memories[k].ns
    BY <1>0, <1>3 DEF Retires, Archived, Present, Row
  <2>2. QED BY <1>0, <1>3, <2>1 DEF Retires, NoDanglingReference
<1>4. ASSUME NEW P \in SUBSET Present, Purges(P)
      PROVE  NoDanglingReference'
  <2>1. /\ Present' = Present \ P
        /\ \A k \in Present' : /\ memories'[k].supersededBy \in Present' \cup {Null}
                               /\ memories'[k].ns = memories[k].ns
    BY <1>0, <1>4 DEF Purges, Purged, Present, Row
  <2>2. QED BY <1>0, <1>4, <2>1 DEF Purges, NoDanglingReference
<1>5. CASE EditsRows
  BY <1>0, <1>5 DEF EditsRows, Edited, NoDanglingReference, Present
<1>6. CASE EditsLinks
  BY <1>0, <1>6 DEF EditsLinks, NoDanglingReference, Present
<1>7. ASSUME NEW m \in Ids, NEW t \in Texts, update_vector(m, t)
      PROVE  NoDanglingReference'
  <2>1. /\ Present' = Present
        /\ \A k \in Present : /\ memories'[k].supersededBy = memories[k].supersededBy
                              /\ memories'[k].ns = memories[k].ns
    BY <1>0, <1>7 DEF update_vector, TypeOK, Present, Row
  <2>2. QED BY <1>0, <1>7, <2>1 DEF update_vector, NoDanglingReference
<1>8. ASSUME NEW old \in Namespaces, NEW new \in Namespaces, NEW merge \in BOOLEAN,
             rename_namespace(old, new, merge)
      PROVE  NoDanglingReference'
  <2>1. /\ Present' = Present
        /\ \A k \in Present :
              /\ memories'[k].supersededBy = memories[k].supersededBy
              /\ memories'[k].ns = IF memories[k].ns = old THEN new ELSE memories[k].ns
    BY <1>0, <1>8 DEF rename_namespace, In, Present, Row
  <2>2. QED
    BY <1>0, <1>8, <2>1 DEF rename_namespace, RenamedAnchors, NoDanglingReference
<1>9. CASE accept_embedding_space_change
  <2>1. /\ Present' = Present
        /\ \A k \in Present : /\ memories'[k].supersededBy = memories[k].supersededBy
                              /\ memories'[k].ns = memories[k].ns
    BY <1>0, <1>9 DEF accept_embedding_space_change, Present, Row
  <2>2. QED BY <1>0, <1>9, <2>1 DEF accept_embedding_space_change, NoDanglingReference
<1>10. QED BY <1>1, <1>2, <1>3, <1>4, <1>5, <1>6, <1>7, <1>8, <1>9 DEF Effect

\* No link, pointer or anchor names a memory that is gone, and anchors are filed under
\* the namespace their memory has: for any history of merges, purges and renames.
THEOREM NothingDangles == Spec => []NoDanglingReference
<1>1. Init => NoDanglingReference
  BY DEF Init, NoDanglingReference, EmptyTable, Present
<1>2. TypeOK /\ NoDanglingReference /\ [Next]_vars => NoDanglingReference'
  BY ReferenceStep, EveryStepHasAnEffect
<1>3. QED BY <1>1, <1>2, TypeCorrect, PTL DEF Spec

-----------------------------------------------------------------------------
(* The oplog *)

\* What the log says of m and what the table says of it
Agrees(m) ==
    /\ m \in DOMAIN oplog /\ oplog[m] = "insert" <=> Live(m)
    /\ m \in DOMAIN oplog /\ oplog[m] # "purge" <=> m \in Present

LEMMA ReplayStep == TypeOK /\ ReplayAgrees /\ Effect => ReplayAgrees'
<1> SUFFICES ASSUME TypeOK, ReplayAgrees, Effect, NEW k \in Ids PROVE Agrees(k)'
  BY DEF ReplayAgrees, Agrees
<1>0. Agrees(k) /\ (k \in Present => memories[k] \in Row)
  BY DEF ReplayAgrees, Agrees, TypeOK
<1>1. ASSUME NEW m \in Ids, NEW n \in Notes, NEW R \in SUBSET Present, Adds(m, n, R)
      PROVE  Agrees(k)'
  <2>1. /\ Present' = Present \cup {m} /\ m \notin Present /\ m \notin R
        /\ oplog' = Logged(InsertLogged(m), R, "supersede")
    BY <1>1 DEF Adds, Present
  <2>2. CASE k = m
    <3>1. k \in DOMAIN oplog' /\ oplog'[k] = "insert"
      BY <2>1, <2>2 DEF Logged, InsertLogged
    <3>2. ~memories'[k].archived
      BY <1>1, <2>2 DEF Adds, NewRow
    <3>3. QED BY <2>1, <2>2, <3>1, <3>2 DEF Agrees, Live
  <2>3. CASE k \in R
    <3>1. k \in DOMAIN oplog' /\ oplog'[k] = "supersede"
      BY <2>1, <2>3 DEF Logged, InsertLogged
    <3>2. k \in Present /\ memories'[k].archived
      BY <1>0, <1>1, <2>3 DEF Adds, ReplacedBy, Row
    <3>3. QED BY <2>1, <3>1, <3>2 DEF Agrees, Live
  <2>4. CASE k # m /\ k \notin R
    <3>1. /\ k \in DOMAIN oplog' <=> k \in DOMAIN oplog
          /\ k \in DOMAIN oplog => oplog'[k] = oplog[k]
      BY <2>1, <2>4 DEF Logged, InsertLogged
    <3>2. k \in Present' <=> k \in Present
      BY <2>1, <2>4
    <3>3. k \in Present => memories'[k] = memories[k]
      BY <1>1, <2>4 DEF Adds
    <3>4. QED BY <1>0, <3>1, <3>2, <3>3 DEF Agrees, Live
  <2>5. QED BY <2>2, <2>3, <2>4
<1>2. ASSUME NEW old \in Ids, NEW new \in Ids, Supersedes(old, new)
      PROVE  Agrees(k)'
  <2>1. Present' = Present /\ old \in Present
    BY <1>2 DEF Supersedes, Present, Current, Live
  <2>2. CASE k = old
    <3>1. k \in DOMAIN oplog' /\ oplog'[k] = "supersede"
      BY <1>2, <2>2 DEF Supersedes, Logged
    <3>2. memories'[k].archived
      BY <1>0, <1>2, <2>1, <2>2 DEF Supersedes, ReplacedBy, Row
    <3>3. QED BY <2>1, <2>2, <3>1, <3>2 DEF Agrees, Live
  <2>3. CASE k # old
    <3>1. /\ k \in DOMAIN oplog' <=> k \in DOMAIN oplog
          /\ k \in DOMAIN oplog => oplog'[k] = oplog[k]
      BY <1>2, <2>3 DEF Supersedes, Logged
    <3>2. k \in Present => memories'[k] = memories[k]
      BY <1>2, <2>3 DEF Supersedes
    <3>3. QED BY <1>0, <2>1, <3>1, <3>2 DEF Agrees, Live
  <2>4. QED BY <2>2, <2>3
<1>3. ASSUME NEW A \in SUBSET Present, Retires(A)
      PROVE  Agrees(k)'
  <2>1. Present' = Present
    BY <1>3 DEF Retires, Archived, Present
  <2>2. CASE k \in A
    <3>1. k \in DOMAIN oplog' /\ oplog'[k] = "archive"
      BY <1>3, <2>2 DEF Retires, Logged
    <3>2. memories'[k].archived
      BY <1>0, <1>3, <2>2 DEF Retires, Archived, Row, Present
    <3>3. QED BY <2>1, <2>2, <3>1, <3>2 DEF Agrees, Live
  <2>3. CASE k \notin A
    <3>1. /\ k \in DOMAIN oplog' <=> k \in DOMAIN oplog
          /\ k \in DOMAIN oplog => oplog'[k] = oplog[k]
      BY <1>3, <2>3 DEF Retires, Logged
    <3>2. k \in Present => memories'[k] = memories[k]
      BY <1>3, <2>3 DEF Retires, Archived, Present
    <3>3. QED BY <1>0, <2>1, <3>1, <3>2 DEF Agrees, Live
  <2>4. QED BY <2>2, <2>3
<1>4. ASSUME NEW P \in SUBSET Present, Purges(P)
      PROVE  Agrees(k)'
  <2>1. Present' = Present \ P
    BY <1>4 DEF Purges, Purged, Present
  <2>2. CASE k \in P
    <3>1. k \in DOMAIN oplog' /\ oplog'[k] = "purge"
      BY <1>4, <2>2 DEF Purges, Logged
    <3>2. QED BY <2>1, <2>2, <3>1 DEF Agrees, Live
  <2>3. CASE k \notin P
    <3>1. /\ k \in DOMAIN oplog' <=> k \in DOMAIN oplog
          /\ k \in DOMAIN oplog => oplog'[k] = oplog[k]
      BY <1>4, <2>3 DEF Purges, Logged
    <3>2. k \in Present => memories'[k].archived = memories[k].archived
      BY <1>0, <1>4, <2>3 DEF Purges, Purged, Present, Row
    <3>3. QED BY <1>0, <2>1, <2>3, <3>1, <3>2 DEF Agrees, Live
  <2>4. QED BY <2>2, <2>3
<1>5. ASSUME Present' = Present, oplog' = oplog,
             \A m \in Present : memories'[m].archived = memories[m].archived
      PROVE  Agrees(k)'
  BY <1>0, <1>5 DEF Agrees, Live
<1>6. CASE EditsRows
  BY <1>5, <1>6 DEF EditsRows, Edited, Present
<1>7. CASE EditsLinks
  BY <1>5, <1>7 DEF EditsLinks, Present
<1>8. ASSUME NEW m \in Ids, NEW t \in Texts, update_vector(m, t)
      PROVE  Agrees(k)'
  BY <1>5, <1>8 DEF update_vector, TypeOK, Present, Row
<1>9. ASSUME NEW old \in Namespaces, NEW new \in Namespaces, NEW merge \in BOOLEAN,
             rename_namespace(old, new, merge)
      PROVE  Agrees(k)'
  BY <1>5, <1>9 DEF rename_namespace, TypeOK, Present, Row
<1>10. CASE accept_embedding_space_change
  BY <1>5, <1>10 DEF accept_embedding_space_change, TypeOK, Present, Row
<1>11. QED BY <1>1, <1>2, <1>3, <1>4, <1>6, <1>7, <1>8, <1>9, <1>10 DEF Effect

\* A consumer that replays the oplog ends with the memories and the live set the store
\* has: every transaction that moves a memory through its life logs the move.
THEOREM ReplayIsFaithful == Spec => []ReplayAgrees
<1>1. Init => ReplayAgrees
  BY DEF Init, ReplayAgrees, EmptyTable, Present, Live
<1>2. TypeOK /\ ReplayAgrees /\ [Next]_vars => ReplayAgrees'
  BY ReplayStep, EveryStepHasAnEffect
<1>3. QED BY <1>1, <1>2, TypeCorrect, PTL DEF Spec

-----------------------------------------------------------------------------
(* What a step may never do *)

\* A row whatever its stamp and its pointer
Settled(r) == [r EXCEPT !.stamped = TRUE, !.supersededBy = Null]

LEMMA SettledEdits ==
    \A r \in Row : /\ Settled([r EXCEPT !.stamped = TRUE]) = Settled(r)
                   /\ Settled([r EXCEPT !.supersededBy = Null]) = Settled(r)
  BY DEF Settled, Row

\* The curated rows are all there, as they were.
CuratedKept ==
    \A m \in Present : memories[m].curated =>
        m \in Present' /\ Settled(memories'[m]) = Settled(memories[m])

LEMMA AddsKeepCurated ==
    ASSUME NEW m \in Ids, NEW n \in Notes, NEW R, Adds(m, n, R),
           \A k \in R : ~memories[k].curated
    PROVE  CuratedKept
  BY DEF Adds, CuratedKept, Present

LEMMA AutomaticKeepsCurated == TypeOK /\ (AutomaticNext \/ SweepNext) => CuratedKept
<1> SUFFICES ASSUME TypeOK, AutomaticNext \/ SweepNext PROVE CuratedKept
  OBVIOUS
<1>1. ASSUME NEW ns \in Namespaces, NEW m \in Ids, archive_unattended(ns, m)
      PROVE  CuratedKept
  BY <1>1 DEF archive_unattended, ArchiveOne, Archived, CuratedKept, Present
<1>2. ASSUME NEW ns \in Namespaces, NEW old \in Ids, NEW new \in Ids,
             supersede_duplicate(ns, old, new)
      PROVE  CuratedKept
  <2>1. PICK a \in {old, new}, b \in {old, new} : supersede_in_tx(a, b) /\ ~memories[a].curated
    BY <1>2 DEF supersede_duplicate, DuplicateRoles
  <2>2. Supersedes(a, b)
    BY <2>1, SupersedeInTx
  <2>3. QED BY <2>1, <2>2 DEF Supersedes, CuratedKept, Present
<1>3. ASSUME NEW ns \in Namespaces, NEW m \in Ids
      PROVE  /\ \A i \in Importances : set_recalibrated_importance(ns, m, i) => CuratedKept
             /\ \A c \in Confidences : set_confidence(ns, m, c) => CuratedKept
  <2>1. \A i \in Importances : set_recalibrated_importance(ns, m, i) => CuratedKept
    BY DEF set_recalibrated_importance, CuratedKept, TypeOK, Present
  <2>2. \A c \in Confidences : set_confidence(ns, m, c) => CuratedKept
    BY DEF set_confidence, CuratedKept, TypeOK, Present
  <2>3. QED BY <2>1, <2>2
<1>4. ASSUME NEW m \in Ids, NEW n \in Notes, NEW old \in Ids,
             insert_superseding_memory(m, n, old, FALSE)
      PROVE  CuratedKept
  BY <1>4, SupersedingInsertAdds, AddsKeepCurated
<1>5. ASSUME NEW m \in Ids, NEW n \in Notes, NEW ns \in Namespaces, NEW a \in Ids, NEW b \in Ids,
             review_merge(ns, a, b, m, n, FALSE)
      PROVE  CuratedKept
  <2>1. Adds(m, n, {a, b}) /\ \A k \in {a, b} : ~memories[k].curated
    BY <1>5, MergeAdds
  <2>2. QED BY <2>1, AddsKeepCurated
<1>6. ASSUME NEW l \in links, delete_link(l)
      PROVE  CuratedKept
  BY <1>6 DEF delete_link, CuratedKept, Present
<1>7. ASSUME NEW m \in Ids, NEW t \in Texts, update_vector(m, t)
      PROVE  CuratedKept
  BY <1>7, SettledEdits DEF update_vector, CuratedKept, TypeOK, Present
<1>8. ASSUME SweepNext PROVE CuratedKept
  <2>1. PICK ns \in Namespaces, p \in Policies, mode \in {"apply", "hard"} :
            retention_sweep(ns, p, mode)
    BY <1>8 DEF SweepNext
  <2>2. PICK Done \in SUBSET Present : /\ \A m \in Done : Eligible(m, ns, p, mode)
                                       /\ Retires(Done) \/ Purges(Done)
    BY <2>1, SweepEffect
  <2>3. \A m \in Done : ~memories[m].curated
    BY <2>2 DEF Eligible
  <2>4. CASE Retires(Done)
    BY <2>3, <2>4 DEF Retires, Archived, CuratedKept, Present
  <2>5. CASE Purges(Done)
    BY <2>3, <2>5, SettledEdits DEF Purges, Purged, CuratedKept, TypeOK, Present
  <2>6. QED BY <2>2, <2>4, <2>5
<1>9. QED BY <1>1, <1>2, <1>3, <1>4, <1>5, <1>6, <1>7, <1>8 DEF AutomaticNext

\* No job, no automatic review and no sweep retires a curated memory or changes what its
\* author or a person set, for any plan however stale.
THEOREM CuratedIsSafe == Spec => CuratedSurvivesAutomation
<1>1. TypeOK /\ [Next]_vars =>
          [\/ \A m \in Present : memories[m].curated =>
                 /\ m \in Present'
                 /\ [memories'[m] EXCEPT !.stamped = TRUE, !.supersededBy = Null]
                      = [memories[m] EXCEPT !.stamped = TRUE, !.supersededBy = Null]
           \/ ~(AutomaticNext \/ SweepNext)]_vars
  BY AutomaticKeepsCurated DEF CuratedKept, Settled
<1>2. QED BY <1>1, TypeCorrect, PTL DEF Spec, CuratedSurvivesAutomation

\* When deduplication retires a row, an equal live one stays in its namespace: the last
\* copy of a text is never taken for a duplicate.
THEOREM DedupKeepsACopy == Spec => DedupKeepsContent
<1>1. ASSUME TypeOK, NEW ns \in Namespaces, NEW old \in Ids, NEW new \in Ids,
             supersede_duplicate(ns, old, new), NEW m \in Ids, Live(m)
      PROVE  \E n \in Ids : /\ Live(n)' /\ memories'[n].ns = memories[m].ns
                            /\ memories'[n].text = memories[m].text
  <2>1. PICK a \in {old, new}, b \in {old, new} : a # b /\ Supersedes(a, b)
    <3>1. PICK a \in {old, new}, b \in {old, new} : supersede_in_tx(a, b)
      BY <1>1 DEF supersede_duplicate, DuplicateRoles
    <3>2. Supersedes(a, b)
      BY <1>1, <3>1, SupersedeInTx
    <3>3. QED BY <3>2 DEF Supersedes
  <2>2. memories[a].ns = memories[b].ns /\ memories[a].text = memories[b].text
    BY <1>1, <2>1 DEF supersede_duplicate, automatically_equivalent
  <2>3. \A k \in Ids \ {a} : Live(k) => Live(k)' /\ memories'[k] = memories[k]
    BY <2>1 DEF Supersedes, Live, Present
  <2>4. b \in Ids /\ Live(b)
    BY <2>1 DEF Supersedes, Current
  <2>5. QED BY <1>1, <2>1, <2>2, <2>3, <2>4
<1>2. TypeOK /\ [Next]_vars =>
          [\/ \A m \in Ids : Live(m) =>
                 \E n \in Ids : /\ Live(n)' /\ memories'[n].ns = memories[m].ns
                                /\ memories'[n].text = memories[m].text
           \/ ~\E ns \in Namespaces, old, new \in Ids : supersede_duplicate(ns, old, new)]_vars
  BY <1>1
<1>3. QED BY <1>2, TypeCorrect, PTL DEF Spec, DedupKeepsContent

\* A sweep never decides an open contradiction by forgetting a side of it: the copy of the
\* contested predicate in retention_where protects both ends.
THEOREM SweepSparesContested == Spec => ContestedSurvivesSweep
<1>1. ASSUME TypeOK, SweepNext, NEW m \in Ids, Contested(m)
      PROVE  Contested(m)'
  <2>1. PICK ns \in Namespaces, p \in Policies, mode \in {"apply", "hard"} :
            retention_sweep(ns, p, mode)
    BY <1>1 DEF SweepNext
  <2>2. PICK Done \in SUBSET Present : /\ \A k \in Done : Eligible(k, ns, p, mode)
                                       /\ Retires(Done) \/ Purges(Done)
    BY <1>1, <2>1, SweepEffect
  <2>3. PICK l \in links :
            /\ l[3] = "contradicts" /\ Touches(l, m)
            /\ Live(l[1]) /\ Live(l[2]) /\ memories[l[1]].ns = memories[l[2]].ns
    BY <1>1 DEF Contested
  <2>4. l[1] \notin Done /\ l[2] \notin Done
    BY <2>2, <2>3 DEF Eligible, OpenContradiction, In, Live
  <2>5. l \in links'
    BY <2>2, <2>4 DEF Retires, Purges
  <2>6. \A k \in Present \ Done :
            /\ k \in Present' /\ memories'[k].archived = memories[k].archived
            /\ memories'[k].ns = memories[k].ns
    BY <1>1, <2>2 DEF Retires, Purges, Archived, Purged, TypeOK, Present, Row
  <2>7. QED BY <2>3, <2>4, <2>5, <2>6 DEF Contested, Touches, Live
<1>2. TypeOK /\ [Next]_vars => [(\A m \in Ids : Contested(m) => Contested(m)') \/ ~SweepNext]_vars
  BY <1>1
<1>3. QED BY <1>2, TypeCorrect, PTL DEF Spec, ContestedSurvivesSweep

-----------------------------------------------------------------------------
(* The tables implement the lifecycle *)

\* A step that moves no memory through its life and no pointer is a stutter.
LEMMA LifeUnchanged ==
    ASSUME Present' = Present,
           \A k \in Present : /\ memories'[k].archived = memories[k].archived
                              /\ memories'[k].supersededBy = memories[k].supersededBy
    PROVE  UNCHANGED Abstract!vars
<1>1. \A k \in Ids : StateOf(k)' = StateOf(k) /\ Successor(k)' = Successor(k)
  BY DEF StateOf, Successor
<1>2. QED BY <1>1 DEF Abstract!vars

LEMMA AddsReplace ==
    ASSUME TypeOK, NEW m \in Ids, NEW n \in Notes, NEW R \in SUBSET Present, Adds(m, n, R)
    PROVE  Abstract!Next
<1>1. /\ Present' = Present \cup {m} /\ m \notin Present /\ m \notin R /\ R \in SUBSET Ids
  BY DEF Adds, Present, TypeOK
<1>2. StateOf(m) = "absent" /\ Successor(m) = Null
  BY <1>1 DEF StateOf, Successor
<1>3. \A k \in R : StateOf(k) = "live" /\ Successor(k) = Null
  BY DEF Adds, StateOf, Successor, Current, Live
<1>4. StateOf(m)' = "live" /\ Successor(m)' = Null
  BY <1>1 DEF Adds, NewRow, StateOf, Successor
<1>5. \A k \in R : StateOf(k)' = "retired" /\ Successor(k)' = m
  BY <1>1, ReplacedColumns DEF Adds, StateOf, Successor, TypeOK
<1>6. \A k \in Ids \ (R \cup {m}) : StateOf(k)' = StateOf(k) /\ Successor(k)' = Successor(k)
  BY <1>1 DEF Adds, StateOf, Successor
<1>7. Abstract!Replace(R, m)
  BY <1>1, <1>2, <1>3, <1>4, <1>5, <1>6 DEF Abstract!Replace, Abstract!Set
<1>8. QED BY <1>1, <1>7 DEF Abstract!Next

LEMMA SupersedesReplace ==
    ASSUME TypeOK, NEW old \in Ids, NEW new \in Ids, Supersedes(old, new)
    PROVE  Abstract!Next
<1>1. Present' = Present /\ old \in Present /\ new \in Present /\ old # new
  BY DEF Supersedes, Present, Current, Live
<1>2. /\ StateOf(old) = "live" /\ Successor(old) = Null
      /\ StateOf(new) = "live" /\ Successor(new) = Null
  BY DEF Supersedes, StateOf, Successor, Current, Live
<1>3. StateOf(old)' = "retired" /\ Successor(old)' = new
  BY <1>1, ReplacedColumns DEF Supersedes, StateOf, Successor, TypeOK
<1>4. \A k \in Ids \ {old} : StateOf(k)' = StateOf(k) /\ Successor(k)' = Successor(k)
  BY <1>1 DEF Supersedes, StateOf, Successor
<1>5. Abstract!Replace({old}, new)
  BY <1>1, <1>2, <1>3, <1>4 DEF Abstract!Replace, Abstract!Set
<1>6. {old} \in SUBSET Ids
  OBVIOUS
<1>7. QED BY <1>5, <1>6 DEF Abstract!Next

LEMMA RetiresRetire ==
    ASSUME TypeOK, NEW A \in SUBSET Present, Retires(A)
    PROVE  Abstract!Next
<1>1. Present' = Present /\ A \in SUBSET Ids
  BY DEF Retires, Archived, Present, TypeOK
<1>2. \A k \in A : StateOf(k) = "live"
  BY DEF Retires, StateOf, Live
<1>3. \A k \in A : StateOf(k)' = "retired" /\ Successor(k)' = Successor(k)
  BY <1>1 DEF Retires, Archived, StateOf, Successor, TypeOK, Present, Row
<1>4. \A k \in Ids \ A : StateOf(k)' = StateOf(k) /\ Successor(k)' = Successor(k)
  BY <1>1 DEF Retires, Archived, StateOf, Successor, Present
<1>5. Abstract!Retire(A)
  BY <1>1, <1>2, <1>3, <1>4 DEF Abstract!Retire, Abstract!Set
<1>6. QED BY <1>1, <1>5 DEF Abstract!Next

LEMMA PurgesForget ==
    ASSUME TypeOK, NEW P \in SUBSET Present, Purges(P)
    PROVE  Abstract!Next
<1>1. Present' = Present \ P /\ P \in SUBSET Ids /\ P \subseteq Present
  BY DEF Purges, Purged, Present, TypeOK
<1>2. \A k \in P : StateOf(k) # "absent"
  BY <1>1 DEF StateOf
<1>3. \A k \in P : StateOf(k)' = "absent" /\ Successor(k)' = Null
  BY <1>1 DEF StateOf, Successor
<1>4. \A k \in Ids \ P :
          /\ StateOf(k)' = StateOf(k)
          /\ Successor(k)' = IF Successor(k) \in P THEN Null ELSE Successor(k)
  <2>1. Null \notin P
    BY <1>1, IdsAssumption
  <2>2. \A k \in Present \ P :
            /\ memories'[k].archived = memories[k].archived
            /\ memories'[k].supersededBy =
                  IF memories[k].supersededBy \in P THEN Null ELSE memories[k].supersededBy
    BY DEF Purges, Purged, Present, TypeOK, Row
  <2>3. QED BY <1>1, <2>1, <2>2 DEF StateOf, Successor
<1>5. Abstract!Forget(P)
  BY <1>1, <1>2, <1>3, <1>4 DEF Abstract!Forget, Abstract!Set
<1>6. QED BY <1>1, <1>5 DEF Abstract!Next

\* Every transaction is a step of the lifecycle or none.
LEMMA LifecycleStep == TypeOK /\ Effect => [Abstract!Next]_(Abstract!vars)
<1> SUFFICES ASSUME TypeOK, Effect PROVE [Abstract!Next]_(Abstract!vars)
  OBVIOUS
<1>1. CASE EditsRows
  BY <1>1, LifeUnchanged DEF EditsRows, Edited, Present
<1>2. CASE EditsLinks
  BY <1>2, LifeUnchanged DEF EditsLinks, Present
<1>3. ASSUME NEW m \in Ids, NEW t \in Texts, update_vector(m, t)
      PROVE  UNCHANGED Abstract!vars
  BY <1>3, LifeUnchanged DEF update_vector, TypeOK, Present, Row
<1>4. ASSUME NEW old \in Namespaces, NEW new \in Namespaces, NEW merge \in BOOLEAN,
             rename_namespace(old, new, merge)
      PROVE  UNCHANGED Abstract!vars
  BY <1>4, LifeUnchanged DEF rename_namespace, TypeOK, Present, Row
<1>5. CASE accept_embedding_space_change
  BY <1>5, LifeUnchanged DEF accept_embedding_space_change, TypeOK, Present, Row
<1>6. QED
  BY <1>1, <1>2, <1>3, <1>4, <1>5, AddsReplace, SupersedesReplace, RetiresRetire, PurgesForget
  DEF Effect

\* The store implements the lifecycle of Lifecycle.tla: with any number of memories and
\* any stale plans, a memory is created once, retired once, replaced only by one in use
\* and forgotten with every pointer at it.
THEOREM StoreImplementsLifecycle == Spec => ImplementsLifecycle
<1>1. Init => Abstract!Init
  BY DEF Init, Abstract!Init, EmptyTable, StateOf, Successor, Present
<1>2. TypeOK /\ [Next]_vars => [Abstract!Next]_(Abstract!vars)
  BY EveryStepHasAnEffect, LifecycleStep
<1>3. QED BY <1>1, <1>2, TypeCorrect, PTL DEF Spec, ImplementsLifecycle, Abstract!Spec
=============================================================================
