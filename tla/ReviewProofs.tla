----------------------------- MODULE ReviewProofs -----------------------------
(***************************************************************************)
(* Theorems about Review, for any set of memories, people, contradictions  *)
(* and bounds.  What makes a merge whole is that the transaction looks at  *)
(* its members again and that the combined memory's number is new: the     *)
(* audit numbers the combined memories in the order they were made.        *)
(***************************************************************************)
EXTENDS Review, FiniteSetTheorems, TLAPS

RowFields == {"live", "by", "curated", "near", "conf"}

Types ==
    /\ \A m \in Present : DOMAIN rows[m] = RowFields /\ rows[m].live \in BOOLEAN
    /\ DOMAIN res = Resolvers
    /\ IsFiniteSet(audit) /\ events \in Nat

\* The numbers given out so far
Newest == Cardinality(Ids) + Cardinality(audit)

\* Only numbers given out are in use.
Numbered ==
    /\ Present \subseteq 1 .. Newest
    /\ \A r \in audit : r.into \in 1 .. Newest /\ r.ids \subseteq 1 .. Newest

ReviewInv == Types /\ Numbered /\ MergesAreWhole

LEMMA Counts ==
    ASSUME Types
    PROVE  /\ Cardinality(Ids) \in Nat /\ Ids = 1 .. Cardinality(Ids)
           /\ Cardinality(audit) \in Nat /\ Newest \in Nat
<1>1. Cardinality(Ids) \in Nat /\ Ids = 1 .. Cardinality(Ids)
  BY ReviewAssumption, FS_CardinalityType
<1>2. Cardinality(audit) \in Nat
  BY FS_CardinalityType DEF Types
<1>3. QED BY <1>1, <1>2 DEF Newest

-----------------------------------------------------------------------------
(* What a step does to the rows *)

\* Rows only age: none is revived, and one that is resolved keeps what it was resolved
\* into until that is purged.
RowsAge ==
    /\ DOMAIN rows' \subseteq Present /\ UNCHANGED audit
    /\ \A m \in DOMAIN rows' :
          /\ DOMAIN rows'[m] = RowFields /\ rows'[m].live \in BOOLEAN
          /\ rows'[m].live => rows[m].live
          /\ ~rows[m].live => rows'[m].by \in {rows[m].by, Null}

\* Rows become one new row, in one step with the audit row.
RowsMerge(ids) ==
    /\ \A m \in ids : m \in Present /\ rows[m].live
    /\ DOMAIN rows' = Present \cup {Newest + 1}
    /\ DOMAIN rows'[Newest + 1] = RowFields /\ rows'[Newest + 1].live = TRUE
    /\ \A m \in Present \ {Newest + 1} :
          rows'[m] = IF m \in ids THEN [rows[m] EXCEPT !.live = FALSE, !.by = Newest + 1] ELSE rows[m]
    /\ audit' = audit \cup {[ids |-> ids, into |-> Newest + 1]}

LEMMA SameRows == ASSUME Types, UNCHANGED <<rows, audit>> PROVE RowsAge
  BY DEF Types, RowsAge, Present

\* A field of one row is written.
LEMMA FieldWritten ==
    ASSUME Types, UNCHANGED audit, NEW m \in Present, NEW v,
           \/ rows' = [rows EXCEPT ![m].conf = v]
           \/ rows' = [rows EXCEPT ![m].near = v]
           \/ rows' = [rows EXCEPT ![m].curated = v]
           \/ rows' = [rows EXCEPT ![m].live = FALSE]
           \/ rows[m].live /\ rows' = [rows EXCEPT ![m].live = FALSE, ![m].by = v]
    PROVE  RowsAge
<1>1. DOMAIN rows[m] = RowFields /\ rows[m].live \in BOOLEAN /\ m \in DOMAIN rows
  BY DEF Types, Present
<1>2. \E u : /\ rows' = [rows EXCEPT ![m] = u] /\ DOMAIN u = RowFields
             /\ u.live \in BOOLEAN /\ (u.live => rows[m].live)
             /\ ~rows[m].live => u.by = rows[m].by
  <2>1. CASE rows' = [rows EXCEPT ![m].conf = v]
    BY <1>1, <2>1 DEF RowFields
  <2>2. CASE rows' = [rows EXCEPT ![m].near = v]
    BY <1>1, <2>2 DEF RowFields
  <2>3. CASE rows' = [rows EXCEPT ![m].curated = v]
    BY <1>1, <2>3 DEF RowFields
  <2>4. CASE rows' = [rows EXCEPT ![m].live = FALSE]
    BY <1>1, <2>4 DEF RowFields
  <2>5. CASE rows[m].live /\ rows' = [rows EXCEPT ![m].live = FALSE, ![m].by = v]
    <3>1. rows' = [rows EXCEPT ![m] = [rows[m] EXCEPT !.live = FALSE, !.by = v]]
      BY <1>1, <2>5
    <3>2. QED BY <1>1, <2>5, <3>1 DEF RowFields
  <2>6. QED BY <2>1, <2>2, <2>3, <2>4, <2>5
<1>3. QED BY <1>2 DEF Types, RowsAge, Present

LEMMA RowPurged ==
    ASSUME Types, NEW m, purge(m)
    PROVE  RowsAge
<1>1. /\ UNCHANGED audit
      /\ rows' = [k \in Present \ {m} |->
                   IF rows[k].by = m THEN [rows[k] EXCEPT !.by = Null] ELSE rows[k]]
  BY DEF purge
<1>2. \A k \in Present : [rows[k] EXCEPT !.by = Null].live = rows[k].live
                         /\ [rows[k] EXCEPT !.by = Null].by = Null
                         /\ DOMAIN [rows[k] EXCEPT !.by = Null] = RowFields
  BY DEF Types, RowFields
<1>3. QED BY <1>1, <1>2 DEF Types, RowsAge

LEMMA MergeStep ==
    ASSUME Types, NEW p, merge(p)
    PROVE  \/ UNCHANGED <<rows, audit>> /\ MergeVerdict(p) # "ok"
           \/ MergeVerdict(p) = "ok" /\ RowsMerge(ToSet(res[p].ids))
<1> PICK ids : ids = ToSet(res[p].ids)
  OBVIOUS
<1>1. CASE MergeVerdict(p) # "ok"
  BY <1>1 DEF merge
<1>2. CASE MergeVerdict(p) = "ok"
  <2>1. /\ rows' = [m \in Present \cup {Newest + 1} |->
                       IF m = Newest + 1 THEN Combined(res[p].seen)
                       ELSE IF m \in ids THEN [rows[m] EXCEPT !.live = FALSE, !.by = Newest + 1]
                       ELSE rows[m]]
        /\ audit' = audit \cup {[ids |-> ids, into |-> Newest + 1]}
    BY <1>2 DEF merge, Newest
  <2>2. \A m \in ids : m \in Present /\ rows[m].live
    <3>1. \A i \in DOMAIN res[p].ids : MemberVerdict(p, res[p].ids[i]) = "ok"
      BY <1>2 DEF MergeVerdict
    <3>2. \A m \in ids : MemberVerdict(p, m) = "ok"
      BY <3>1 DEF ToSet
    <3>3. QED BY <3>2 DEF MemberVerdict, Unresolved
  <2>3. DOMAIN Combined(res[p].seen) = RowFields /\ Combined(res[p].seen).live = TRUE
    BY DEF Combined, RowFields
  <2>4. RowsMerge(ids)
    BY <2>1, <2>2, <2>3 DEF RowsMerge
  <2>5. QED BY <1>2, <2>4
<1>3. QED BY <1>1, <1>2

\* One person's, or the sweep's, step
LEMMA ResolverSteps ==
    ASSUME Types, NEW p \in Resolvers, Resolving(p)
    PROVE  RowsAge \/ \E ids : RowsMerge(ids)
<1>1. CASE check(p) \/ peek(p) \/ keep(p) \/ snooze(p) \/ record(p)
  <2>1. UNCHANGED <<rows, audit>>
    BY <1>1 DEF check, peek, keep, snooze, record
  <2>2. QED BY <2>1, SameRows
<1>2. CASE bump(p)
  <2>1. UNCHANGED audit /\ (UNCHANGED rows \/ \E m \in Present : \E v : rows' = [rows EXCEPT ![m].conf = v])
    BY <1>2 DEF bump
  <2>2. QED BY <2>1, SameRows, FieldWritten
<1>3. CASE archive(p)
  <2>1. UNCHANGED audit /\ (UNCHANGED rows \/ \E m \in Present : rows' = [rows EXCEPT ![m].live = FALSE])
    BY <1>3 DEF archive
  <2>2. QED BY <2>1, SameRows, FieldWritten
<1>4. CASE demote(p)
  <2>1. UNCHANGED audit /\ (UNCHANGED rows \/ \E m \in Present : \E v : rows' = [rows EXCEPT ![m].conf = v])
    BY <1>4 DEF demote, Demotable
  <2>2. QED BY <2>1, SameRows, FieldWritten
<1>5. CASE merge(p)
  BY <1>5, MergeStep, SameRows
<1>6. QED BY <1>1, <1>2, <1>3, <1>4, <1>5 DEF Resolving

\* One command of the consolidation pass
LEMMA ConsolidationSteps ==
    ASSUME Types, Consolidating
    PROVE  RowsAge
<1>1. CASE anchor_cluster \/ reread_survivor
  BY <1>1, SameRows DEF anchor_cluster, reread_survivor
<1>2. CASE supersede_member
  <2>1. /\ UNCHANGED audit
        /\ \/ UNCHANGED rows
           \/ \E old \in Present : \E new :
                 rows[old].live /\ rows' = [rows EXCEPT ![old].live = FALSE, ![old].by = new]
    BY <1>2 DEF supersede_member, Unresolved
  <2>2. QED BY <2>1, SameRows, FieldWritten
<1>3. QED BY <1>1, <1>2 DEF Consolidating

\* What a person begins and what others do
LEMMA OthersSteps ==
    ASSUME Types, Others
    PROVE  RowsAge
<1>1. CASE \/ \E p \in People, i \in Items, act \in Actions, t \in Ids \cup {Null} :
                  resolve(p, i[1], i[2], act, t)
           \/ \E policy \in Policies : start_sweep(policy)
           \/ start_consolidation \/ wake \/ crash
  <2>1. UNCHANGED <<rows, audit>>
    BY <1>1 DEF resolve, start_sweep, start_consolidation, wake, crash
  <2>2. QED BY <2>1, SameRows
<1>2. ASSUME NEW m \in Present, reembed(m) \/ curate(m) \/ purge(m) PROVE RowsAge
  <2>1. CASE reembed(m)
    BY <2>1, FieldWritten DEF reembed
  <2>2. CASE curate(m)
    BY <2>2, FieldWritten DEF curate
  <2>3. CASE purge(m)
    BY <2>3, RowPurged
  <2>4. QED BY <1>2, <2>1, <2>2, <2>3
<1>3. QED BY <1>1, <1>2 DEF Others

LEMMA EveryStep ==
    ASSUME Types, [Next]_vars
    PROVE  /\ DOMAIN res' = Resolvers /\ events' \in Nat
           /\ RowsAge \/ \E ids : RowsMerge(ids)
<1>0. events' \in Nat
  BY DEF Types, Next, vars
<1>1. CASE \E p \in People : Resolving(p)
  <2>1. PICK p \in Resolvers : Resolving(p)
    BY <1>1 DEF Resolvers
  <2>2. DOMAIN res' = Resolvers
    BY <2>1 DEF Types, Resolving, check, peek, keep, bump, merge, archive, demote, snooze, record,
                Finish, Goto
  <2>3. QED BY <1>0, <2>1, <2>2, ResolverSteps
<1>2. CASE Sweeping
  <2>1. CASE skip_item \/ next_item \/ end_sweep
    <3>1. UNCHANGED <<rows, audit>> /\ DOMAIN res' = Resolvers
      BY <2>1 DEF Types, skip_item, next_item, end_sweep, Begin
    <3>2. QED BY <1>0, <3>1, SameRows
  <2>2. CASE peek(Sweep) \/ merge(Sweep) \/ demote(Sweep) \/ record(Sweep)
    <3>1. Resolving(Sweep) /\ Sweep \in Resolvers
      BY <2>2 DEF Resolving, Resolvers
    <3>2. DOMAIN res' = Resolvers
      BY <2>2 DEF Types, peek, merge, demote, record, Finish, Goto
    <3>3. QED BY <1>0, <3>1, <3>2, ResolverSteps
  <2>3. QED BY <1>2, <2>1, <2>2 DEF Sweeping
<1>3. CASE Consolidating
  <2>1. UNCHANGED res
    BY <1>3 DEF Consolidating, anchor_cluster, supersede_member, reread_survivor
  <2>2. QED BY <1>0, <1>3, <2>1, ConsolidationSteps DEF Types
<1>4. CASE Others
  <2>1. DOMAIN res' = Resolvers
    BY <1>4 DEF Types, Others, resolve, Begin, start_sweep, start_consolidation, reembed, curate,
                purge, wake, crash
  <2>2. QED BY <1>0, <1>4, <2>1, OthersSteps
<1>5. CASE UNCHANGED vars
  BY <1>0, <1>5, SameRows DEF vars, Types
<1>6. QED BY <1>0, <1>1, <1>2, <1>3, <1>4, <1>5 DEF Next

-----------------------------------------------------------------------------
(* Merges *)

LEMMA AgeKeeps ==
    ASSUME ReviewInv, RowsAge, DOMAIN res' = Resolvers, events' \in Nat
    PROVE  ReviewInv'
<1>1. Types'
  BY DEF ReviewInv, Types, RowsAge, Present
<1>2. Numbered'
  BY DEF ReviewInv, Numbered, RowsAge, Present, Newest
<1>3. MergesAreWhole'
  <2>1. \A r \in audit : \A m \in r.ids \cap DOMAIN rows' :
            ~rows'[m].live /\ rows'[m].by \in {Null, r.into}
    BY DEF ReviewInv, MergesAreWhole, RowsAge, Present
  <2>2. \A r, s \in audit : r # s => r.ids \cap s.ids = {}
    BY DEF ReviewInv, MergesAreWhole
  <2>3. \A m \in DOMAIN rows' \ Ids : \E r \in audit : r.into = m
    BY DEF ReviewInv, MergesAreWhole, RowsAge, Present
  <2>4. QED BY <2>1, <2>2, <2>3 DEF MergesAreWhole, RowsAge, Present
<1>4. QED BY <1>1, <1>2, <1>3 DEF ReviewInv

LEMMA MergeKeeps ==
    ASSUME ReviewInv, NEW ids, RowsMerge(ids), DOMAIN res' = Resolvers, events' \in Nat
    PROVE  ReviewInv'
<1> PICK new : new = Newest + 1
  OBVIOUS
<1> PICK made : made = [ids |-> ids, into |-> new]
  OBVIOUS
<1>1. /\ Types /\ Newest \in Nat /\ new \in Nat /\ new \notin 1 .. Newest /\ Cardinality(Ids) \in Nat
      /\ Cardinality(audit) \in Nat /\ Present \subseteq 1 .. Newest /\ new \notin Present
      /\ \A r \in audit : r.into \in 1 .. Newest /\ r.ids \subseteq 1 .. Newest
  BY Counts DEF ReviewInv, Numbered
<1>2. /\ \A m \in ids : m \in Present /\ rows[m].live
      /\ Present' = Present \cup {new}
      /\ DOMAIN rows'[new] = RowFields /\ rows'[new].live = TRUE
      /\ \A m \in Present :
            rows'[m] = IF m \in ids THEN [rows[m] EXCEPT !.live = FALSE, !.by = new] ELSE rows[m]
      /\ audit' = audit \cup {made} /\ made.ids = ids /\ made.into = new
  BY <1>1 DEF RowsMerge, Present
<1>3. \A m \in ids : /\ DOMAIN rows'[m] = RowFields /\ rows'[m].live = FALSE /\ rows'[m].by = new
  BY <1>1, <1>2 DEF Types, RowFields
<1>4. made \notin audit
  BY <1>1, <1>2
<1>5. IsFiniteSet(audit') /\ Cardinality(audit') = Cardinality(audit) + 1
  <2>1. IsFiniteSet(audit)
    BY <1>1 DEF Types
  <2>2. /\ IsFiniteSet(audit \cup {made})
        /\ Cardinality(audit \cup {made}) = Cardinality(audit) + 1
    BY <1>4, <2>1, FS_AddElement
  <2>3. QED BY <1>2, <2>2
<1>6. Newest' = new
  BY <1>1, <1>5 DEF Newest
<1>7. Types'
  BY <1>1, <1>2, <1>3, <1>5 DEF Types
<1>8. Numbered'
  <2>1. \A x \in 1 .. Newest : x \in 1 .. new
    BY <1>1
  <2>2. new \in 1 .. new
    BY <1>1
  <2>3. QED BY <1>1, <1>2, <1>6, <2>1, <2>2 DEF Numbered
<1>9. MergesAreWhole'
  <2>0. /\ \A r \in audit : \A m \in r.ids \cap Present : ~rows[m].live /\ rows[m].by \in {Null, r.into}
        /\ \A r, s \in audit : r # s => r.ids \cap s.ids = {}
        /\ \A m \in Present \ Ids : \E r \in audit : r.into = m
    BY DEF ReviewInv, MergesAreWhole
  <2>1. \A r \in audit : r.ids \cap ids = {}
    BY <1>2, <2>0
  <2>2. \A r \in audit' : \A m \in r.ids \cap Present' :
            ~rows'[m].live /\ rows'[m].by \in {Null, r.into}
    <3>1. ASSUME NEW r \in audit, NEW m \in r.ids \cap Present'
          PROVE  ~rows'[m].live /\ rows'[m].by \in {Null, r.into}
      <4>1. m \in Present /\ m \notin ids
        BY <1>1, <1>2, <2>1
      <4>2. rows'[m] = rows[m]
        BY <1>2, <4>1
      <4>3. ~rows[m].live /\ rows[m].by \in {Null, r.into}
        BY <2>0, <4>1
      <4>4. QED BY <4>2, <4>3
    <3>2. \A m \in ids : ~rows'[m].live /\ rows'[m].by = made.into
      BY <1>2, <1>3
    <3>3. QED BY <1>2, <3>1, <3>2
  <2>3. \A r, s \in audit' : r # s => r.ids \cap s.ids = {}
    BY <1>2, <2>0, <2>1
  <2>4. \A m \in Present' \ Ids : \E r \in audit' : r.into = m
    BY <1>2, <2>0
  <2>5. QED BY <2>2, <2>3, <2>4 DEF MergesAreWhole
<1>10. QED BY <1>7, <1>8, <1>9 DEF ReviewInv

LEMMA ReviewAlways == Spec => []ReviewInv
<1>1. Init => ReviewInv
  <2> SUFFICES ASSUME Init PROVE ReviewInv
    OBVIOUS
  <2>1. /\ rows = [m \in Ids |-> [live |-> TRUE, by |-> Null, curated |-> FALSE, near |-> TRUE,
                                  conf |-> LowBound - 1]]
        /\ audit = {} /\ events = 0 /\ res = [p \in Resolvers |-> Idle]
    BY DEF Init
  <2>2. IsFiniteSet(audit) /\ Cardinality(audit) = 0
    BY <2>1, FS_EmptySet
  <2>3. Types
    BY <2>1, <2>2 DEF Types, Present, RowFields
  <2>4. Present = 1 .. Newest
    BY <2>1, <2>2, <2>3, Counts DEF Present, Newest
  <2>5. Numbered /\ MergesAreWhole
    BY <2>1, <2>4 DEF Numbered, MergesAreWhole, Present
  <2>6. QED BY <2>3, <2>5 DEF ReviewInv
<1>2. ReviewInv /\ [Next]_vars => ReviewInv'
  BY EveryStep, AgeKeeps, MergeKeeps DEF ReviewInv
<1>3. QED BY <1>1, <1>2, PTL DEF Spec

\* Whatever resolutions, sweeps, consolidation passes, purges and deaths race, a memory is
\* merged once, no original of a merge is live again, and every combined memory has the
\* audit row that names what it came from: review_merge commits them together, after it
\* has looked at every member again.
THEOREM MergesStayWhole == Spec => []MergesAreWhole
<1>1. ReviewInv => MergesAreWhole
  BY DEF ReviewInv
<1>2. QED BY <1>1, ReviewAlways, PTL

-----------------------------------------------------------------------------
(* What runs without a person *)

CuratedStay == \A m \in Present : rows[m].curated => m \in DOMAIN rows' /\ rows'[m] = rows[m]

LEMMA SweepSpares ==
    ASSUME ReviewInv, Sweeping
    PROVE  CuratedStay
<1>1. CASE skip_item \/ next_item \/ end_sweep \/ peek(Sweep) \/ record(Sweep)
  BY <1>1 DEF skip_item, next_item, end_sweep, peek, record, CuratedStay, Present
<1>2. CASE demote(Sweep)
  <2>1. CASE UNCHANGED rows
    BY <2>1 DEF CuratedStay, Present
  <2>2. CASE ~UNCHANGED rows
    <3>1. PICK t : t \in Present /\ ~rows[t].curated /\ \E v : rows' = [rows EXCEPT ![t].conf = v]
      BY <1>2, <2>2 DEF demote, Demotable
    <3>2. QED BY <3>1 DEF CuratedStay, Present
  <2>3. QED BY <2>1, <2>2
<1>3. CASE merge(Sweep)
  <2>1. CASE UNCHANGED rows
    BY <2>1 DEF CuratedStay, Present
  <2>2. CASE MergeVerdict(Sweep) = "ok" /\ RowsMerge(ToSet(res[Sweep].ids))
    <3>1. \A i \in DOMAIN res[Sweep].ids : MemberVerdict(Sweep, res[Sweep].ids[i]) = "ok"
      BY <2>2 DEF MergeVerdict
    <3>2. \A m \in ToSet(res[Sweep].ids) : ~rows[m].curated
      BY <3>1 DEF ToSet, MemberVerdict
    <3>3. Newest + 1 \notin Present
      BY Counts DEF ReviewInv, Numbered
    <3>4. QED BY <2>2, <3>2, <3>3 DEF CuratedStay, RowsMerge
  <2>3. QED BY <1>3, <2>1, <2>2, MergeStep DEF ReviewInv
<1>4. QED BY <1>1, <1>2, <1>3 DEF Sweeping

LEMMA ConsolidationSpares ==
    ASSUME Types, Consolidating
    PROVE  CuratedStay
<1>1. CASE UNCHANGED rows
  BY <1>1 DEF CuratedStay, Present
<1>2. CASE ~UNCHANGED rows
  <2>1. supersede_member
    BY <1>2 DEF Consolidating, anchor_cluster, reread_survivor
  <2>2. PICK old : old \in Present /\ ~rows[old].curated
                   /\ \E new : rows' = [rows EXCEPT ![old].live = FALSE, ![old].by = new]
    BY <1>2, <2>1 DEF supersede_member
  <2>3. QED BY <2>2 DEF CuratedStay, Present
<1>3. QED BY <1>1, <1>2

\* What a person curates after the plan was made is changed neither by the policy pass nor
\* by the consolidation job: set_confidence, review_merge and supersede_duplicate each look
\* at the rows again in the transaction that writes.
THEOREM UnattendedIsSafe == Spec => UnattendedSparesCurated
<1>1. ReviewInv /\ [Next]_vars =>
        [res'[Sweep] # res[Sweep] \/ (job' # job /\ events' = events) => CuratedStay]_vars
  <2> SUFFICES ASSUME ReviewInv, Next,
                      res'[Sweep] # res[Sweep] \/ (job' # job /\ events' = events)
               PROVE  CuratedStay
    OBVIOUS
  <2>1. CASE Sweeping
    BY <2>1, SweepSpares
  <2>2. CASE Consolidating
    BY <2>2, ConsolidationSpares DEF ReviewInv
  <2>3. ASSUME NEW p \in People, Resolving(p), UNCHANGED job PROVE FALSE
    <3>1. p # Sweep /\ DOMAIN res = Resolvers /\ Sweep \in Resolvers /\ p \in Resolvers
      BY ReviewAssumption DEF ReviewInv, Types, Resolvers
    <3>2. \E u : res' = [res EXCEPT ![p] = u]
      BY <2>3 DEF Resolving, check, peek, keep, bump, merge, archive, demote, snooze, record,
                  Finish, Goto
    <3>3. QED BY <2>3, <3>1, <3>2
  <2>4. CASE Others /\ events' = events + 1
    <3>1. res' # res
      BY <2>4 DEF ReviewInv, Types
    <3>2. UNCHANGED rows
      BY <2>4, <3>1 DEF Others, resolve, start_sweep, start_consolidation, reembed, curate, purge,
                        wake, crash
    <3>3. QED BY <3>2 DEF CuratedStay, Present
  <2>5. QED BY <2>1, <2>2, <2>3, <2>4 DEF Next
<1>2. QED BY <1>1, ReviewAlways, PTL DEF Spec, UnattendedSparesCurated, CuratedStay

=============================================================================
