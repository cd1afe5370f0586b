------------------------------ MODULE MCHooks ------------------------------
EXTENDS Hooks, TLC

\* Two decisions on one subject and the correction of both
MCEvidence == <<[subject |-> "s", correction |-> FALSE], [subject |-> "s", correction |-> FALSE],
                [subject |-> "s", correction |-> TRUE]>>

Symmetry == Permutations(Observations)
=============================================================================
