------------------------------ MODULE MCRecall ------------------------------
(* Small instances of Recall for TLC: corpora of three memories that differ in what the
   channels, the filter, the floors and the priors see. *)
EXTENDS Recall, TLC

CONSTANTS r1, r2

\* A durable, trusted decision that the query's words and its vector find
Plain == [matches |-> TRUE, similarity |-> 60, importance |-> 5, recency |-> 100,
          confidence |-> 100, session |-> FALSE, trust |-> 80, quarantined |-> FALSE,
          tagged |-> TRUE, contested |-> FALSE, live |-> TRUE, links |-> {}]

\* evidence just above the durable keyword floor, or just above the general one
Weak == [Plain EXCEPT !.similarity = Absent, !.importance = 0, !.recency = 0, !.confidence = 20]
Near == [Plain EXCEPT !.matches = FALSE, !.similarity = 25, !.importance = 5, !.trust = 70]
Archived == [Weak EXCEPT !.live = FALSE]
\* a hook's summary: session provenance
Summary == [Plain EXCEPT !.session = TRUE, !.trust = 70, !.tagged = FALSE]
Foreign == [Plain EXCEPT !.quarantined = TRUE]
Disputed == [Plain EXCEPT !.contested = TRUE]

\* In the first corpus the third keyword hit is past a cutoff of two, until one before it
\* goes; in the second the third vector hit is, and the third entry of a context, and
\* without the vectors the graph alone finds two memories.
MCCorpora ==
    {<<Plain, Summary, [Plain EXCEPT !.similarity = Absent]>>,
     <<[Disputed EXCEPT !.links = {2, 3}], Near, [Near EXCEPT !.similarity = 24]>>,
     <<Foreign, [Weak EXCEPT !.links = {1, 3}], Archived>>}
=============================================================================
