--------------------------- MODULE ContextLedger ---------------------------
(***************************************************************************)
(* rb-tokens' context: what of a project's stable entries is shown to an   *)
(* agent, and ContextDelivery, the ledger of what was shown, from which    *)
(* entries that have changed since are disclosed.  The MCP adapter and the *)
(* prompt hook share it.  A state of the project maps each memory to the   *)
(* fingerprint of its entry, and to None when it is not eligible; memories *)
(* are numbered in the order the store lists them (the most important      *)
(* first).                                                                 *)
(***************************************************************************)
EXTENDS Naturals, FiniteSets

None == 0

Eligible(state) == {m \in DOMAIN state : state[m] # None}

Nothing(memories) == [m \in memories |-> None]

\* render_preparation with no query evidence: the first entries the item cap leaves room
\* for.  Entries are short: none is skipped for the token budget.
Rendered(state, cap) ==
    {m \in Eligible(state) : Cardinality({k \in Eligible(state) : k < m}) < cap}

\* ContextDelivery::record: the entries shown now, and no others
Record(state, cap) ==
    [m \in DOMAIN state |-> IF m \in Rendered(state, cap) THEN state[m] ELSE None]

\* ContextDelivery::correction: entries whose fingerprint differs or that have left
Changed(ledger, state) == {m \in Eligible(ledger) : state[m] # ledger[m]}

\* correction drops what it discloses from the ledger
Corrected(ledger, state) ==
    [m \in DOMAIN ledger |-> IF m \in Changed(ledger, state) THEN None ELSE ledger[m]]
=============================================================================
