------------------------------ MODULE ReadPool ------------------------------
(***************************************************************************)
(* StoreHandle::with_read: a semaphore with a permit for each connection   *)
(* of the pool, connections that a read takes out on a blocking thread and *)
(* that its guard puts back, reads that fail, panic or are cancelled.      *)
(***************************************************************************)
EXTENDS Naturals, FiniteSets

CONSTANTS
    Readers,  \* tasks that read
    Size      \* read_pool_size.max(1)

ASSUME PoolAssumption == IsFiniteSet(Readers) /\ Size \in Nat \ {0}

VARIABLES
    permits,    \* free permits of the semaphore
    stores,     \* connections in the pool
    phase       \* where each reader is

vars == <<permits, stores, phase>>

Phases == {"idle", "waiting", "permitted", "spawned", "reading", "returned", "exhausted"}

Init == permits = Size /\ stores = Size /\ phase = [r \in Readers |-> "idle"]

Goto(r, label) == phase' = [phase EXCEPT ![r] = label]

with_read(r) ==
    /\ phase[r] \in {"idle", "exhausted"} /\ Goto(r, "waiting")
    /\ UNCHANGED <<permits, stores>>

acquire_owned(r) ==
    /\ phase[r] = "waiting" /\ permits > 0
    /\ permits' = permits - 1
    /\ Goto(r, "permitted")
    /\ UNCHANGED stores

\* Mutant: the permit stays with the caller and goes when the caller does
cancel_anytime(r) ==
    /\ phase[r] \in {"waiting", "permitted", "spawned", "reading"}
    /\ permits' = IF phase[r] = "waiting" THEN permits ELSE permits + 1
    /\ Goto(r, "idle")
    /\ UNCHANGED stores

\* The caller is cancelled before the blocking task exists: the permit goes back.
\* Afterwards the task runs to its end whoever waits for it.
cancel(r) ==
    /\ phase[r] \in {"waiting", "permitted"}
    /\ permits' = IF phase[r] = "permitted" THEN permits + 1 ELSE permits
    /\ Goto(r, "idle")
    /\ UNCHANGED stores

spawn_blocking(r) ==
    /\ phase[r] = "permitted" /\ Goto(r, "spawned")
    /\ UNCHANGED <<permits, stores>>

\* An empty pool is the error "read pool exhausted despite permit".
take_store(r) ==
    /\ phase[r] = "spawned"
    /\ Goto(r, IF stores = 0 THEN "exhausted" ELSE "reading")
    /\ stores' = IF stores = 0 THEN 0 ELSE stores - 1
    /\ permits' = IF stores = 0 THEN permits + 1 ELSE permits

\* PoolGuard's drop puts the connection back, after a panic too.
drop_guard(r) ==
    /\ phase[r] = "reading"
    /\ stores' = stores + 1
    /\ Goto(r, "returned")
    /\ UNCHANGED permits

\* Mutant: the permit is forgotten
drop_permit_never(r) ==
    /\ phase[r] = "returned" /\ Goto(r, "idle")
    /\ UNCHANGED <<permits, stores>>

\* _permit, the closure's first local, is dropped last.
drop_permit(r) ==
    /\ phase[r] = "returned"
    /\ permits' = permits + 1
    /\ Goto(r, "idle")
    /\ UNCHANGED stores

Next ==
    \E r \in Readers :
        \/ with_read(r) \/ acquire_owned(r) \/ cancel(r) \/ spawn_blocking(r)
        \/ take_store(r) \/ drop_guard(r) \/ drop_permit(r)

\* Tokio's semaphore serves its waiters in order; spawned tasks run.
Fairness ==
    \A r \in Readers :
        /\ SF_vars(acquire_owned(r))
        /\ WF_vars(spawn_blocking(r) \/ take_store(r) \/ drop_guard(r) \/ drop_permit(r))

Spec == Init /\ [][Next]_vars
FairSpec == Spec /\ Fairness

-----------------------------------------------------------------------------
(* Properties *)

\* A reader with a permit finds a connection, however many readers were cancelled, failed
\* or panicked before it.
PermitMeansStore == \A r \in Readers : phase[r] # "exhausted"

Holders == {r \in Readers : phase[r] \in {"permitted", "spawned", "reading", "returned"}}
Reading == {r \in Readers : phase[r] = "reading"}

\* What makes PermitMeansStore inductive: permits and connections are conserved.
Conserved ==
    /\ permits + Cardinality(Holders) = Size
    /\ stores + Cardinality(Reading) = Size
=============================================================================
