----------------------------- MODULE Lifecycle -----------------------------
(***************************************************************************)
(* What the store promises about the life of a memory, whatever tables,    *)
(* vectors and logs it keeps: a memory is created once, is retired at most *)
(* once, alone or in favour of a successor that is itself in use, and is   *)
(* forgotten together with every pointer at it.  Nothing is revived.       *)
(***************************************************************************)
CONSTANTS Ids, Null

VARIABLES
    state,      \* absent, live or retired
    successor   \* the memory that took its place

vars == <<state, successor>>

Init ==
    /\ state = [m \in Ids |-> "absent"]
    /\ successor = [m \in Ids |-> Null]

Set(f, S, v) == [m \in Ids |-> IF m \in S THEN v ELSE f[m]]

\* A replacement may come with nothing left to replace.
Create(m) ==
    /\ state[m] = "absent"
    /\ state' = Set(state, {m}, "live")
    /\ UNCHANGED successor

Retire(S) ==
    /\ \A m \in S : state[m] = "live"
    /\ state' = Set(state, S, "retired")
    /\ UNCHANGED successor

\* n takes the place of live memories that have no successor; it is in use itself,
\* or created for the purpose.
Replace(S, n) ==
    /\ n \notin S /\ state[n] # "retired" /\ successor[n] = Null
    /\ \A m \in S : state[m] = "live" /\ successor[m] = Null
    /\ state' = Set(Set(state, S, "retired"), {n}, "live")
    /\ successor' = Set(successor, S, n)

Forget(S) ==
    /\ \A m \in S : state[m] # "absent"
    /\ state' = Set(state, S, "absent")
    /\ successor' = [m \in Ids |-> IF m \in S \/ successor[m] \in S THEN Null ELSE successor[m]]

Next ==
    \/ \E m \in Ids : Create(m)
    \/ \E S \in SUBSET Ids : Retire(S) \/ Forget(S) \/ \E n \in Ids : Replace(S, n)

Spec == Init /\ [][Next]_vars
=============================================================================
