------------------------------- MODULE Review -------------------------------
(***************************************************************************)
(* Curation of a namespace: the review queue, one person's resolution of   *)
(* an item, the policy sweep that resolves a whole plan, and the           *)
(* consolidation job that folds exact duplicates into one survivor.  Each  *)
(* is a series of commands: checks and reads on pooled connections, then   *)
(* writes through the single writer, with the daemon's other work between  *)
(* any two of them.  Only a merge is one transaction end to end.           *)
(*                                                                         *)
(* Rows keep what the actions look at.  near says that the stored vector   *)
(* is still close to that of the other near rows, and for the first        *)
(* memories that the authored fields are still the same too.               *)
(***************************************************************************)
EXTENDS Integers, FiniteSets, Sequences, SequencesExt

CONSTANTS
    Ids,          \* the memories at the start: an interval 1 .. n, oldest first
    Contradicts,  \* contradiction edges between them, as sets of two
    Quarantined,  \* memories of untrusted origin, which no merge takes in
    People,       \* connections that resolve items by hand
    ConfMax,      \* confidence 1.0, in steps of REVIEW_KEEP_BUMP
    LowBound,     \* REVIEW_LOW_CONFIDENCE_BOUND
    DemoteStep,   \* REVIEW_DEMOTE_STEP
    Limit,        \* items per plan, candidates per consolidation pass
    MaxEvents     \* bound: requests and other people's steps in a behaviour

Sweep == "sweep"
Null == 0
ASSUME ReviewAssumption ==
    /\ IsFiniteSet(Ids) /\ Ids = 1 .. Cardinality(Ids) /\ Sweep \notin People
    /\ \A v \in {ConfMax, LowBound, DemoteStep, Limit, MaxEvents} : v \in Nat
    /\ Quarantined \subseteq Ids
    /\ Contradicts \subseteq {c \in SUBSET Ids : Cardinality(c) = 2}

VARIABLES
    rows,      \* memories
    audit,     \* merge rows of review_resolve: the originals and the combined memory
    edges,     \* memory_links of a contradiction
    quarantined, \* which of Quarantined there are
    snoozed,   \* keys of the items review_state hides
    res,       \* the resolution every resolver is in
    sweep,     \* the policy sweep: its plan's rest, whether an item failed, and whether
               \* the pass runs, has left its record or died with the daemon
    job,       \* the consolidation pass
    events     \* how many of MaxEvents have happened

vars == <<rows, audit, edges, quarantined, snoozed, res, sweep, job, events>>

Resolvers == People \cup {Sweep}
Present == DOMAIN rows
LiveIds == {m \in Present : rows[m].live}

Clamp(n) == IF n < 0 THEN 0 ELSE IF n > ConfMax THEN ConfMax ELSE n

Idle == [pc |-> "idle"]
NoSweep == [state |-> "none", policy |-> "none", rest |-> <<>>, failed |-> FALSE]
NoJob == [pc |-> "idle"]

\* Either all rows are exact copies, or some contradict and some are untrusted.
Init ==
    /\ \E copies \in BOOLEAN :
          /\ rows = [m \in Ids |-> [live |-> TRUE, by |-> Null, curated |-> FALSE, near |-> TRUE,
                                    conf |-> LowBound - 1]]
          /\ edges = IF copies THEN {} ELSE Contradicts
          /\ quarantined = IF copies THEN {} ELSE Quarantined
    /\ audit = {} /\ snoozed = {} /\ sweep = NoSweep /\ job = NoJob /\ events = 0
    /\ res = [p \in Resolvers |-> Idle]

-----------------------------------------------------------------------------
(* The queue *)

\* review_item_key: the order of the members does not matter
Key(reason, ids) == <<reason, ToSet(ids)>>

ActivePairs == {c \in edges : c \subseteq LiveIds}

Similar(a, b) == a # b /\ {a, b} \subseteq LiveIds /\ rows[a].near /\ rows[b].near

ByAge(S) == SetToSortSeq(S, <)
Pair(c) == ByAge(c)

\* An anchor pairs with its closest free twin; a member joins at most one pair.
PairUp(acc, a) ==
    LET taken == UNION {ToSet(p) : p \in ToSet(acc)}
        twins == {b \in LiveIds \ taken : Similar(a, b)
                                            /\ Key("near", <<a, b>>) \notin snoozed}
    IN  IF a \in taken \/ twins = {} THEN acc ELSE Append(acc, <<a, ByAge(twins)[1]>>)

NearPairs == FoldLeft(PairUp, <<>>, ByAge(LiveIds))

Low == {m \in LiveIds : rows[m].conf < LowBound /\ Key("low", <<m>>) \notin snoozed}
LessSure(a, b) == rows[a].conf < rows[b].conf \/ (rows[a].conf = rows[b].conf /\ a < b)

FirstOf(seq) == SubSeq(seq, 1, IF Len(seq) < Limit THEN Len(seq) ELSE Limit)

\* review_queue: contradictions, then near duplicates, then singles
review_queue ==
    LET item(reason, ids) ==
            [reason |-> reason, ids |-> ids, curated |-> \E m \in ToSet(ids) : rows[m].curated]
        pairs == {c \in ActivePairs : <<"contradiction", c>> \notin snoozed}
        all == [i \in 1 .. Cardinality(pairs) |->
                    item("contradiction", Pair(SetToSeq(pairs)[i]))]
               \o [i \in 1 .. Len(NearPairs) |-> item("near", NearPairs[i])]
               \o LET singles == SetToSortSeq(Low, LessSure)
                  IN  [i \in 1 .. Len(singles) |-> item("low", <<singles[i]>>)]
    IN  FirstOf(all)

\* ReviewPolicy::plan_action
plan_action(policy, item) ==
    IF item.curated THEN "none"
    ELSE IF policy = "auto_merge_dups" /\ item.reason = "near" THEN "merge"
    ELSE IF policy = "demote_low_confidence" /\ item.reason = "low" THEN "demote"
    ELSE "none"

-----------------------------------------------------------------------------
(* apply_review_action *)

Begin(p, reason, ids, act, target) ==
    res' = [res EXCEPT ![p] = [pc |-> IF reason = "contradiction" THEN "check" ELSE "peek",
                               reason |-> reason, ids |-> ids, act |-> act,
                               target |-> target, seen |-> <<>>, todo |-> <<>>]]

\* An item is applied, or skipped as stale; an error ends the pass.
Counted(verdict) ==
    IF verdict = "error" THEN [sweep EXCEPT !.failed = TRUE] ELSE [sweep EXCEPT !.rest = Tail(@)]

Finish(p, verdict) ==
    /\ res' = [res EXCEPT ![p] = Idle]
    /\ sweep' = IF p = Sweep THEN Counted(verdict) ELSE sweep

At(p, pc) == res[p].pc = pc
Goto(p, pc) == res' = [res EXCEPT ![p].pc = pc] /\ UNCHANGED sweep

\* ReviewAction::validate
validate(reason, ids, act, target) ==
    /\ act = "merge" => reason = "near" /\ Cardinality(ToSet(ids)) = 2
    /\ act \in {"archive", "demote"} => target \in ToSet(ids)
    /\ act \notin {"archive", "demote"} => target = Null

\* Request::Resolve, with whatever item the client read before
resolve(p, reason, ids, act, target) ==
    /\ At(p, "idle") /\ validate(reason, ids, act, target)
    /\ Begin(p, reason, ids, act, target)
    /\ UNCHANGED <<rows, audit, snoozed, sweep, edges, job>>

\* contradiction_pair_active
check(p) ==
    /\ At(p, "check")
    /\ \/ ToSet(res[p].ids) \in ActivePairs /\ Goto(p, "peek")
       \/ ToSet(res[p].ids) \notin ActivePairs /\ Finish(p, "stale")
    /\ UNCHANGED <<rows, audit, snoozed, edges>>

\* The members are read one by one, archived or not; a missing one is an error.
peek(p) ==
    /\ At(p, "peek")
    /\ LET ids == res[p].ids
           n == Len(res[p].seen) + 1
           m == ids[n]
       IN  \/ /\ m \in Present
              /\ res' = [res EXCEPT ![p].pc = IF n = Len(ids) THEN res[p].act ELSE "peek",
                                    ![p].seen = Append(@, rows[m].conf),
                                    ![p].todo = IF res[p].act = "bump" THEN ids ELSE <<>>]
              /\ UNCHANGED sweep
           \/ m \notin Present /\ Finish(p, "error")
    /\ UNCHANGED <<rows, audit, snoozed, edges>>

SeenOf(p, m) == res[p].seen[CHOOSE i \in DOMAIN res[p].ids : res[p].ids[i] = m]

keep(p) == At(p, "keep") /\ Goto(p, "record") /\ UNCHANGED <<rows, audit, snoozed, edges>>

\* One update command per member, with the sum of the confidence read before
bump(p) ==
    /\ At(p, "bump")
    /\ LET m == Head(res[p].todo)
       IN  \/ /\ m \in Present
              /\ rows' = [rows EXCEPT ![m].conf = Clamp(SeenOf(p, m) + 1)]
              /\ res' = [res EXCEPT ![p].todo = Tail(@),
                                    ![p].pc = IF Len(res[p].todo) = 1 THEN "record" ELSE "bump"]
              /\ UNCHANGED sweep
           \/ m \notin Present /\ UNCHANGED rows /\ Finish(p, "error")
    /\ UNCHANGED <<audit, snoozed, edges>>

\* Mutant: what another resolution did is not looked at
UnresolvedNot(m) == TRUE

Unresolved(m) == rows[m].live /\ rows[m].by = Null

\* The transaction's checks, member by member: present, unresolved, and curated only by hand
MemberVerdict(p, m) ==
    IF m \notin Present THEN "error"
    ELSE IF Unresolved(m) /\ (rows[m].curated => p # Sweep) THEN "ok" ELSE "stale"

\* The first member that fails decides; then the stored vectors must still be close.
MergeVerdict(p) ==
    LET ids == res[p].ids
        Verdict(i) == MemberVerdict(p, ids[i])
    IN  IF \/ ToSet(ids) \cap quarantined # {}
           \/ \E i \in DOMAIN ids : /\ Verdict(i) = "error"
                                    /\ \A j \in DOMAIN ids : j < i => Verdict(j) = "ok"
        THEN "error"
        ELSE IF \A i \in DOMAIN ids : Verdict(i) = "ok" /\ rows[ids[i]].near THEN "ok"
        ELSE "stale"

\* The combined memory, with the stronger confidence of the two that were read
Combined(seen) ==
    [live |-> TRUE, by |-> Null, curated |-> FALSE, near |-> TRUE,
     conf |-> IF seen[1] > seen[2] THEN seen[1] ELSE seen[2]]

\* The edges of either original to others, copied onto the combined memory
Union(ids, new) == {(c \ ids) \cup {new} : c \in {d \in edges : d \cap ids # {} /\ ~(d \subseteq ids)}}

\* review_merge, with the combined memory composed from the rows read
merge(p) ==
    /\ At(p, "merge")
    /\ LET ids == ToSet(res[p].ids)
           new == Cardinality(Ids) + Cardinality(audit) + 1
       IN  \/ /\ MergeVerdict(p) = "ok"
              /\ rows' = [m \in Present \cup {new} |->
                             IF m = new THEN Combined(res[p].seen)
                             ELSE IF m \in ids THEN [rows[m] EXCEPT !.live = FALSE, !.by = new]
                             ELSE rows[m]]
              /\ audit' = audit \cup {[ids |-> ids, into |-> new]}
              /\ edges' = edges \cup Union(ids, new)
              /\ snoozed' = snoozed \ {<<"near", ids>>}
           \/ MergeVerdict(p) # "ok" /\ UNCHANGED <<rows, audit, edges, snoozed>>
    /\ Finish(p, MergeVerdict(p))

\* engine.delete; only a person archives, no policy plans it
archive(p) ==
    /\ At(p, "archive")
    /\ LET m == res[p].target
       IN  \/ /\ m \in Present
              /\ rows' = [rows EXCEPT ![m].live = FALSE]
              /\ Goto(p, "record")
           \/ m \notin Present /\ UNCHANGED rows /\ Finish(p, "error")
    /\ UNCHANGED <<audit, snoozed, edges>>

\* Mutant: the policy's write is not guarded
DemotableAny(p, m) == TRUE

\* update for a person; set_confidence for a policy leaves a curated row alone.
Demotable(p, m) == p = Sweep => ~rows[m].curated

\* Both look for the row first, and a missing one is an error.
demote(p) ==
    /\ At(p, "demote")
    /\ LET m == res[p].target
       IN  \/ /\ m \in Present /\ Demotable(p, m)
              /\ rows' = [rows EXCEPT ![m].conf = Clamp(SeenOf(p, m) - DemoteStep)]
              /\ Goto(p, "record")
           \/ m \in Present /\ ~Demotable(p, m) /\ Finish(p, "stale") /\ UNCHANGED rows
           \/ m \notin Present /\ Finish(p, "error") /\ UNCHANGED rows
    /\ UNCHANGED <<audit, snoozed, edges>>

snooze(p) ==
    /\ At(p, "snooze")
    /\ snoozed' = snoozed \cup {Key(res[p].reason, res[p].ids)}
    /\ Finish(p, "ok") /\ UNCHANGED <<rows, audit, edges>>

\* record_review_resolution
record(p) ==
    /\ At(p, "record")
    /\ snoozed' = snoozed \ {Key(res[p].reason, res[p].ids)}
    /\ Finish(p, "ok") /\ UNCHANGED <<rows, audit, edges>>

-----------------------------------------------------------------------------
(* run_review_sweep *)

start_sweep(policy) ==
    /\ sweep.state # "running"
    /\ sweep' = [NoSweep EXCEPT !.state = "running", !.policy = policy, !.rest = review_queue]
    /\ UNCHANGED <<rows, audit, snoozed, res, edges, job>>

\* Between two items, while none has failed
Looping == sweep.state = "running" /\ At(Sweep, "idle") /\ sweep.rest # <<>> /\ ~sweep.failed


skip_item ==
    /\ Looping /\ plan_action(sweep.policy, Head(sweep.rest)) = "none"
    /\ sweep' = [sweep EXCEPT !.rest = Tail(@)]
    /\ UNCHANGED <<rows, audit, snoozed, edges, res>>

next_item ==
    /\ Looping
    /\ LET item == Head(sweep.rest)
           act == plan_action(sweep.policy, item)
       IN  /\ act # "none"
           /\ Begin(Sweep, item.reason, item.ids, act, IF act = "demote" THEN item.ids[1] ELSE Null)
    /\ UNCHANGED <<rows, audit, snoozed, edges, sweep>>

\* record_review_sweep, whatever the pass came to; the record tells of a failure.
end_sweep ==
    /\ sweep.state = "running" /\ At(Sweep, "idle") /\ (sweep.rest = <<>> \/ sweep.failed)
    /\ sweep' = [sweep EXCEPT !.state = "recorded"]
    /\ UNCHANGED <<rows, audit, snoozed, edges, res>>

-----------------------------------------------------------------------------
(* The consolidation job *)

\* automatically_equivalent: the same authored fields, confidence and origin, and no
\* authored link at either
automatically_equivalent(a, b) ==
    /\ {a, b} \subseteq Ids /\ rows[a].near /\ rows[b].near
    /\ rows[a].conf = rows[b].conf /\ (a \in quarantined) = (b \in quarantined)
    /\ \A c \in edges : c \cap {a, b} = {}

Current(m) == m \in Present /\ rows[m].live /\ rows[m].by = Null

equivalent_duplicates(a) ==
    IF Current(a)
    THEN {b \in LiveIds : Similar(a, b) /\ Current(b) /\ automatically_equivalent(a, b)}
    ELSE {}

\* Curated when scanned, then newest; importance is the same for copies.
pick_survivor(cluster, curated) ==
    LET best == IF cluster \cap curated # {} THEN cluster \cap curated ELSE cluster
    IN  CHOOSE m \in best : \A k \in best : k <= m

\* The loop goes on to the next anchor that no cluster has consumed, or ends the pass.
NextAnchor(j, rest, consumed) ==
    LET left == SelectSeq(rest, LAMBDA m : m \notin consumed)
    IN  IF left = <<>> THEN NoJob
        ELSE [j EXCEPT !.pc = "anchor", !.rest = left, !.consumed = consumed,
                       !.todo = <<>>, !.survivor = Null]

\* run, from candidates_for_consolidation
start_consolidation ==
    /\ job = NoJob
    /\ LET window == FirstOf(ByAge({m \in Present : Current(m)}))
           scanned == [window |-> ToSet(window),
                       curated |-> {m \in ToSet(window) : rows[m].curated},
                       pc |-> "anchor", rest |-> <<>>, consumed |-> {}, todo |-> <<>>,
                       survivor |-> Null]
       IN  job' = NextAnchor(scanned, window, {})
    /\ UNCHANGED <<rows, audit, edges, snoozed, res, sweep>>

\* The loop over a cluster passes over the survivor.
Past(s, members) == IF members # <<>> /\ Head(members) = s THEN Tail(members) ELSE members

\* One anchor: skipped, or the head of a cluster of the copies read now
anchor_cluster ==
    /\ job.pc = "anchor"
    /\ LET a == Head(job.rest)
           twins == (equivalent_duplicates(a) \cap job.window) \ (job.consumed \cup {a})
       IN  job' = IF twins = {} THEN NextAnchor(job, Tail(job.rest), job.consumed)
                  ELSE LET s == pick_survivor(twins \cup {a}, job.curated)
                       IN  [job EXCEPT !.pc = "member", !.survivor = s,
                                       !.todo = Past(s, <<a>> \o ByAge(twins))]
    /\ UNCHANGED <<rows, audit, edges, snoozed, res, sweep>>

\* The next member, or the cluster is done and the anchor
\* and its survivor are consumed
NextMember(S, s) ==
    LET left == Past(s, Tail(job.todo))
        consumed == job.consumed \cup S
    IN  IF left = <<>> THEN NextAnchor(job, Tail(job.rest), consumed \cup {Head(job.rest), s})
        ELSE [job EXCEPT !.pc = "member", !.todo = left, !.consumed = consumed, !.survivor = s]

\* A dead survivor is consumed; the members of its cluster stay eligible.
Abandon == NextAnchor(job, Tail(job.rest), job.consumed \cup {job.survivor})

\* supersede_duplicate in one transaction: a curated member turns the direction round.
supersede_member ==
    /\ job.pc = "member"
    /\ LET m == Head(job.todo)
           s == job.survivor
           old == IF rows[m].curated THEN s ELSE m
           new == IF rows[m].curated THEN m ELSE s
           preserved == ~automatically_equivalent(m, s) \/ (rows[m].curated /\ rows[s].curated)
       IN  \/ m \notin Present /\ job' = NoJob /\ UNCHANGED rows
           \/ m \in Present /\ s \notin Present /\ job' = Abandon /\ UNCHANGED rows
           \/ /\ {m, s} \subseteq Present
              /\ \/ preserved /\ job' = NextMember({}, s) /\ UNCHANGED rows
                 \/ /\ ~preserved /\ Current(new) /\ Unresolved(old)
                    /\ rows' = [rows EXCEPT ![old].live = FALSE, ![old].by = new]
                    /\ job' = NextMember({old}, new)
                 \/ /\ ~preserved /\ ~(Current(new) /\ Unresolved(old))
                    /\ job' = [job EXCEPT !.pc = "reread"] /\ UNCHANGED rows
    /\ UNCHANGED <<audit, edges, snoozed, res, sweep>>

\* Which side went stale?  The survivor is read again.
reread_survivor ==
    /\ job.pc = "reread"
    /\ job' = IF Current(job.survivor) THEN NextMember({Head(job.todo)}, job.survivor) ELSE Abandon
    /\ UNCHANGED <<rows, audit, edges, snoozed, res, sweep>>

-----------------------------------------------------------------------------
(* What others do meanwhile *)

\* Changed tags, and the vector computed again from them
reembed(m) ==
    /\ m \in Ids \cap LiveIds /\ rows[m].near
    /\ rows' = [rows EXCEPT ![m].near = FALSE]
    /\ UNCHANGED <<audit, snoozed, res, sweep, edges, job>>

curate(m) ==
    /\ m \in LiveIds /\ \A k \in Present : ~rows[k].curated
    /\ rows' = [rows EXCEPT ![m].curated = TRUE]
    /\ UNCHANGED <<audit, snoozed, res, sweep, edges, job>>

\* retention or a hard forget: the row goes, pointers at it are cleared
purge(m) ==
    /\ m \in Present /\ Present \cap Ids = Ids
    /\ rows' = [k \in Present \ {m} |->
                   IF rows[k].by = m THEN [rows[k] EXCEPT !.by = Null] ELSE rows[k]]
    /\ edges' = {c \in edges : m \notin c}
    /\ UNCHANGED <<audit, snoozed, res, sweep, job>>

\* Snoozes run out.
wake ==
    /\ snoozed # {} /\ snoozed' = {}
    /\ UNCHANGED <<rows, audit, res, sweep, edges, job>>

\* The daemon dies between two commands; what was committed stays.
crash ==
    /\ res' = [p \in Resolvers |-> Idle] /\ job' = NoJob
    /\ sweep' = IF sweep.state = "running" THEN [NoSweep EXCEPT !.state = "crashed"] ELSE sweep
    /\ <<res', sweep', job'>> # <<res, sweep, job>>
    /\ UNCHANGED <<rows, audit, edges, snoozed>>

-----------------------------------------------------------------------------
Resolving(p) ==
    \/ check(p) \/ peek(p) \/ keep(p) \/ bump(p) \/ merge(p) \/ archive(p)
    \/ demote(p) \/ snooze(p) \/ record(p)

Sweeping ==
    \/ skip_item \/ next_item \/ end_sweep
    \/ peek(Sweep) \/ merge(Sweep) \/ demote(Sweep) \/ record(Sweep)

Consolidating ==
    \/ anchor_cluster \/ supersede_member \/ reread_survivor

Items == {<<"near", Pair(c)>> : c \in {d \in SUBSET Ids : Cardinality(d) = 2}}
         \cup {<<"contradiction", Pair(c)>> : c \in Contradicts}
         \cup {<<"low", <<a>>>> : a \in Ids}
Actions == {"keep", "bump", "merge", "archive", "demote", "snooze"}
Policies == {"auto_merge_dups", "demote_low_confidence"}

Others ==
    \/ \E p \in People, i \in Items, act \in Actions, t \in Ids \cup {Null} :
          resolve(p, i[1], i[2], act, t)
    \/ \E policy \in Policies : start_sweep(policy)
    \/ start_consolidation
    \/ \E m \in Present : reembed(m) \/ curate(m) \/ purge(m)
    \/ wake \/ crash

Next ==
    \/ (Sweeping \/ \E p \in People : Resolving(p)) /\ UNCHANGED <<quarantined, job, events>>
    \/ Consolidating /\ UNCHANGED <<quarantined, events>>
    \/ events < MaxEvents /\ events' = events + 1 /\ Others /\ UNCHANGED quarantined

Spec ==
    /\ Init /\ [][Next]_vars
    /\ WF_vars(Sweeping /\ UNCHANGED <<quarantined, job, events>>)
    /\ WF_vars(Consolidating /\ UNCHANGED <<quarantined, events>>)

-----------------------------------------------------------------------------
(* Properties *)

\* Whatever resolutions race, a memory is merged once: two merges share no
\* original, no original of a merge is live, and no combined memory exists
\* without the audit row that names what it came from (review_merge).
MergesAreWhole ==
    /\ \A r \in audit : \A m \in r.ids \cap Present :
          ~rows[m].live /\ rows[m].by \in {Null, r.into}
    /\ \A r, s \in audit : r # s => r.ids \cap s.ids = {}
    /\ \A m \in Present \ Ids : \E r \in audit : r.into = m

\* What a person curates after the plan was made is changed neither by the policy
\* pass (set_confidence, review_merge without the override) nor by the job, whose
\* survivor was picked before (supersede_duplicate).
UnattendedSparesCurated ==
    [][res'[Sweep] # res[Sweep] \/ (job' # job /\ events' = events) =>
          \A m \in Present : rows[m].curated => m \in DOMAIN rows' /\ rows'[m] = rows[m]]_vars

=============================================================================
