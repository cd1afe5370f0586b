------------------------------ MODULE Ranking ------------------------------
(***************************************************************************)
(* rb-search's scores and the engine's admission and abstention rules, in  *)
(* integers.  A signal is a percentage, a weight a percentage of the       *)
(* score, and a score is scaled by 10^9: 10^4 for the weighted sum, 10^2   *)
(* for the confidence dampener, 10 for the session prior and 10^2 for the  *)
(* trust prior.                                                            *)
(*                                                                         *)
(* A candidate has the fields: keyword, its rank among the keyword hits    *)
(* from 0, or Absent; vector, its cosine similarity (1 - distance) clamped *)
(* to 0 .. 100, or Absent; hops, or Absent; importance in 0 .. 10; recency *)
(* and confidence in 0 .. 100; session, a BOOLEAN; trust in 70 .. 100.     *)
(***************************************************************************)
EXTENDS Integers, FiniteSets

Absent == -1

Percent(present, value) == IF present THEN value ELSE 0

\* Weights::default
Blend(vector, keyword, graph, importance, recency) ==
    45 * vector + 30 * keyword + 10 * graph + 10 * importance + 5 * recency

\* confidence_dampener with the floor 0.5
confidence_dampener(confidence) == 50 + confidence \div 2

\* A signal that is absent adds nothing; the keyword's is the reciprocal of its rank
\* from 1, the graph's of the hops.
score_one(s) ==
    Blend(Percent(s.vector # Absent, s.vector),
          Percent(s.keyword # Absent, 100 \div (1 + s.keyword)),
          Percent(s.hops # Absent, 100 \div s.hops),
          10 * s.importance, s.recency)
    * confidence_dampener(s.confidence)

\* SESSION_PROVENANCE_SCORE_MULTIPLIER and TrustClass::score_multiplier
Prior(s) == (IF s.session THEN 4 ELSE 10) * s.trust

Scaled(hundredths) == hundredths * 10000

ScoreFloor == Scaled(18)
DurableKeywordFloor == Scaled(15)
AbstainThreshold == Scaled(22)

\* the general floor, or the lower one of a durable keyword hit
BaseFloor(s) ==
    IF ~s.session /\ s.keyword # Absent THEN DurableKeywordFloor ELSE ScoreFloor

\* Mutant: the floor is not scaled by the trust prior
candidate_floor_untrusting(s) == BaseFloor(s) * (IF s.session THEN 4 ELSE 10) * 100

\* The floor is scaled by the priors that scaled the score.
candidate_floor(s) == BaseFloor(s) * Prior(s)

abstain_bar(s) == AbstainThreshold * Prior(s)

linear_score(s) == score_one(s) * Prior(s)

\* derive_ranks: the place among the candidates that have the signal, ties in their order
derive_rank(keys, m) ==
    Cardinality({k \in DOMAIN keys :
        keys[k] # Absent /\ (keys[k] < keys[m] \/ (keys[k] = keys[m] /\ k < m))})

Term(rank) == 100000 \div (60 + rank)

Distances(cands) ==
    [k \in DOMAIN cands |-> IF cands[k].vector = Absent THEN Absent ELSE 100 - cands[k].vector]
Hops(cands) == [k \in DOMAIN cands |-> cands[k].hops]

\* rrf_fuse: the reciprocal ranks of the channels that found the candidate
rrf_fuse(cands, m) ==
    Percent(cands[m].keyword # Absent, Term(cands[m].keyword))
    + Percent(cands[m].vector # Absent, Term(derive_rank(Distances(cands), m)))
    + Percent(cands[m].hops # Absent, Term(derive_rank(Hops(cands), m)))

\* apply_priors: importance at weight 0.5, recency at 0.25, confidence in full
apply_priors(fused, s) ==
    LET important == (fused * (50 + 5 * s.importance)) \div 100
        recent == (important * (75 + s.recency \div 4)) \div 100
    IN recent * confidence_dampener(s.confidence)

rrf_score(cands, m) == apply_priors(rrf_fuse(cands, m), cands[m]) * Prior(cands[m])
=============================================================================
