--------------------------- MODULE MCMemoryStore ---------------------------
(* Small instances of MemoryStore for TLC. *)
EXTENDS MemoryStore, TLC

CONSTANTS m1, m2, m3, n1, n2, t1, t2

IdPerms == Permutations(Ids)

ANote(ns, text, importance, curated, embedded, anchored) ==
    [ns |-> ns, text |-> text, importance |-> importance, confidence |-> 0,
     curated |-> curated, embedded |-> embedded, anchored |-> anchored]
Curate(c) == [NoUpdate EXCEPT !.curated = c]

KeepRedact == [t \in Texts |-> t]

\* Lineage and curation: three memories of one namespace and one text, in two confidences
LineageNotes == {ANote(n1, t1, 1, c, TRUE, FALSE) : c \in BOOLEAN}
LineageUpdates == {Curate(TRUE)}
LineagePolicies ==
    {[enabled |-> TRUE, archiveAfter |-> Null, maxAge |-> 1, floor |-> 9,
      protected |-> {}, batch |-> 2]}

\* Maintenance: two namespaces, two texts of which one redacts to the other, importances on
\* both sides of the floor, a protected text, two horizons
ScrubRedact == [t \in Texts |-> t1]
MaintenanceNotes ==
    {ANote(ns, t, 1, FALSE, TRUE, t = t1) : ns \in Namespaces, t \in Texts}
MaintenanceUpdates == {[NoUpdate EXCEPT !.text = t] : t \in Texts}
MaintenancePolicies ==
    {[enabled |-> TRUE, archiveAfter |-> 1, maxAge |-> 2, floor |-> 2,
      protected |-> {t2}, batch |-> 1],
     [enabled |-> TRUE, archiveAfter |-> Null, maxAge |-> 1, floor |-> 2,
      protected |-> {}, batch |-> 2]}

\* Anchored memories under the hard forget
AnchorNotes == {ANote(n1, t1, 1, FALSE, FALSE, a) : a \in BOOLEAN}
=============================================================================
