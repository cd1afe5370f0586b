------------------------- MODULE ChangeStreamProofs -------------------------
(***************************************************************************)
(* What the change stream promises, for every size of the oplog, the       *)
(* broadcast, the pages and the ring, and any number of broken connections *)
(* and deaths: one connection never brings a change twice or behind a      *)
(* newer one, and no change falls between the connections.                 *)
(***************************************************************************)
EXTENDS ChangeStream, FiniteSetTheorems, SequenceTheorems, WellFoundedInduction, TLAPS

-----------------------------------------------------------------------------
(* The inductive invariant of the order of delivery *)

Frames == [type : {"change"}, event : Event] \cup [type : {"lagged"}, events : Seq(Event)]

Types ==
    /\ oplog \in Seq(Row) /\ Len(oplog) <= MaxSeq
    /\ pending \in Seq(Event) /\ sweeping \in BOOLEAN /\ (sweeping => pending # <<>>)
    /\ receiver \in [queue : Seq(Event), lagged : Seq(Event)]
    /\ conn \in [phase : {"closed", "replay", "live"}, after : 0 .. MaxSeq,
                 replayedTo : 0 .. MaxSeq, failed : BOOLEAN]
    /\ wire \in Seq(Frames)
    /\ cursor \in 0 .. MaxSeq /\ ring \in Seq(Event) /\ dropped \in Nat
    /\ polled \subseteq 1 .. MaxSeq /\ given \subseteq 1 .. MaxSeq /\ reported \in Nat
    /\ first \in 0 .. MaxSeq /\ last \in 0 .. MaxSeq

Published == Range(pending) \cup Range(receiver.queue) \cup Range(receiver.lagged)
Carried == {i \in DOMAIN wire : wire[i].type = "change"}

\* An event speaks of rows that are there, or were, and of their namespace; the stamp
\* of a merge's event is the merge's bulk row, which no purge deletes.
Told(e) ==
    /\ e.seq <= Len(oplog) /\ e.row <= e.seq
    /\ e.row # 0 =>
          /\ oplog[e.row].mine = e.mine /\ oplog[e.seq].mine = e.mine
          /\ e.row = e.seq \/ (oplog[e.seq].kind = "bulk" /\ oplog[e.seq].by = 0)

\* The rows a replay reads
Present(s) == oplog[s].mine /\ oplog[s].by = 0

\* What a step may do to a row: a purge may delete it, unless it is a bulk row.
Kept(s) ==
    /\ oplog'[s].mine = oplog[s].mine /\ oplog'[s].kind = oplog[s].kind
    /\ oplog'[s].by = 0 => oplog[s].by = 0
    /\ oplog[s].kind = "bulk" /\ oplog[s].by = 0 => oplog'[s].by = 0

Truthful ==
    /\ \A e \in Published : Told(e)
    /\ \A i \in Carried : Told(wire[i].event) /\ wire[i].event.mine
    /\ \A i \in DOMAIN wire \ Carried : \A e \in Range(wire[i].events) : Told(e)

\* One event was published, or its row replayed, before another
Before(e, f) ==
    /\ e.seq <= f.seq
    /\ f.row # 0 => e.row < f.row
    /\ f.row # 0 /\ f.row = f.seq => e.seq < f.seq

Ordered(events) == \A i, j \in DOMAIN events : i < j => Before(events[i], events[j])

PublishedInOrder ==
    /\ Ordered(pending) /\ Ordered(receiver.queue)
    /\ \A e \in Range(receiver.queue), f \in Range(pending) : Before(e, f)

\* The replay has not told of the event's row.
Fresh(e) == e.mine /\ e.seq > conn.replayedTo /\ (e.row # 0 => e.row > conn.replayedTo)
\* All events but those of merges behind a failed replay
Counts(e) == e.row = 0 \/ e.seq = e.row \/ ~conn.failed

WireInOrder ==
    /\ \A i, j \in Carried :
          i < j /\ Counts(wire[j].event) => Before(wire[i].event, wire[j].event)
    /\ \A i \in Carried : \A e \in Published : Fresh(e) => Before(wire[i].event, e)
    /\ \A i \in Carried : \A j \in DOMAIN wire \ Carried :
          i < j => \A e \in Range(wire[j].events) : Fresh(e) => Before(wire[i].event, e)

\* What was read off the connection is older than what is to come.
LastIsBehind ==
    conn.phase # "closed" =>
        /\ \A i \in Carried :
              wire[i].event.row # 0 /\ Counts(wire[i].event) => last < wire[i].event.row
        /\ \A e \in Range(pending) \cup Range(receiver.queue) :
              Fresh(e) /\ e.row # 0 => last < e.row

Phase ==
    /\ conn.replayedTo <= Len(oplog) /\ cursor <= Len(oplog) /\ last <= Len(oplog)
    /\ conn.phase = "closed" => wire = <<>> /\ receiver = NoReceiver
    /\ conn.phase = "replay" =>
          /\ conn.after = conn.replayedTo /\ last <= conn.replayedTo
          /\ \A i \in DOMAIN wire : i \in Carried /\ wire[i].event.seq <= conn.replayedTo
    /\ conn.phase = "live" =>
          \A e \in Range(pending) \cup Range(receiver.queue) :
              e.mine /\ e.seq > conn.replayedTo /\ Counts(e) => Fresh(e)

OrderInv ==
    Types /\ Truthful /\ PublishedInOrder /\ WireInOrder /\ LastIsBehind /\ Phase

-----------------------------------------------------------------------------
(* The inductive invariant of what has been accounted for *)

Mine == {s \in DOMAIN oplog : oplog[s].mine /\ oplog[s].kind = "change" /\ oplog[s].by = 0}
OnWire == {wire[i].event : i \in Carried}
OnLag == UNION {Range(wire[i].events) : i \in DOMAIN wire \ Carried}
Ahead == Range(pending) \cup Range(receiver.queue) \cup OnWire

\* The present connection still brings the row.
Way(s) ==
    \/ /\ s \in DOMAIN oplog /\ conn.phase # "closed"
       /\ \E e \in Range(pending) \cup Range(receiver.queue) :
             e.row = s /\ e.seq > conn.replayedTo
    \/ s # 0 /\ \E e \in Range(receiver.lagged) \cup OnWire \cup OnLag : e.row = s

\* The cursor is the first event's seq or newer; without one nothing is replayed.
CursorStarts ==
    /\ first = 0 <=> cursor = 0
    /\ first = 0 => conn.replayedTo = 0 /\ conn.phase # "replay"

\* Without merges an event is stamped with its own row.
OwnStamps == \A e \in Published \cup OnWire \cup OnLag : e.row \in {0, e.seq}

\* The writer publishes a command's last events last.
PendingIsWhole == \A e \in Range(pending) : \A s \in Mine : s > e.seq => s \in RowsOf(pending)

\* The subscriber has taken, or will take, an event older than the row.
Started(s) == IF first # 0 THEN first < s ELSE \E e \in Ahead : e.seq < s

TakenBelowCursor == \A s \in Changes : s <= cursor => s \in Accounted
ReplayedIsComing ==
    conn.phase # "closed" /\ first # 0 =>
        \A s \in Changes : s <= conn.replayedTo => s \in Accounted \cup {e.row : e \in OnWire}
LiveIsComing ==
    conn.phase = "live" =>
        \A s \in Mine : conn.replayedTo < s /\ Started(s) => s \in Accounted \/ Way(s)

LossInv ==
    /\ CursorStarts /\ OwnStamps /\ PendingIsWhole
    /\ TakenBelowCursor /\ ReplayedIsComing /\ LiveIsComing

-----------------------------------------------------------------------------
(* Sequences *)

LEMMA AppendFacts ==
    ASSUME NEW S, NEW s \in Seq(S), NEW x \in S
    PROVE  /\ Append(s, x) \in Seq(S) /\ Len(Append(s, x)) = Len(s) + 1
           /\ \A i \in 1 .. Len(s) : Append(s, x)[i] = s[i]
           /\ Append(s, x)[Len(s) + 1] = x
           /\ Range(Append(s, x)) = Range(s) \cup {x}
  <1>1. /\ Append(s, x) \in Seq(S) /\ Len(Append(s, x)) = Len(s) + 1
        /\ \A i \in 1 .. Len(s) : Append(s, x)[i] = s[i]
        /\ Append(s, x)[Len(s) + 1] = x
    OBVIOUS
  <1>2. DOMAIN Append(s, x) = 1 .. (Len(s) + 1) /\ DOMAIN s = 1 .. Len(s) /\ Len(s) \in Nat
    BY <1>1
  <1>3. ASSUME NEW e \in Range(Append(s, x)) PROVE e \in Range(s) \cup {x}
    <2>1. PICK i \in 1 .. (Len(s) + 1) : e = Append(s, x)[i]
      BY <1>2, <1>3 DEF Range
    <2> QED
      BY <1>1, <1>2, <2>1 DEF Range
  <1>4. ASSUME NEW e \in Range(s) \cup {x} PROVE e \in Range(Append(s, x))
    BY <1>1, <1>2, <1>4 DEF Range
  <1> QED
    BY <1>1, <1>3, <1>4

LEMMA TailFacts ==
    ASSUME NEW S, NEW s \in Seq(S), s # <<>>
    PROVE  /\ Tail(s) \in Seq(S) /\ Len(Tail(s)) = Len(s) - 1 /\ Len(s) > 0
           /\ Head(s) \in S /\ Head(s) = s[1]
           /\ \A i \in 1 .. Len(s) - 1 : Tail(s)[i] = s[i + 1]
           /\ Range(s) = {Head(s)} \cup Range(Tail(s))
  <1>1. /\ Tail(s) \in Seq(S) /\ Len(Tail(s)) = Len(s) - 1 /\ Len(s) > 0
        /\ Head(s) \in S /\ Head(s) = s[1]
        /\ \A i \in 1 .. Len(s) - 1 : Tail(s)[i] = s[i + 1]
    OBVIOUS
  <1>2. DOMAIN Tail(s) = 1 .. (Len(s) - 1) /\ DOMAIN s = 1 .. Len(s) /\ Len(s) \in Nat
    BY <1>1
  <1>3. ASSUME NEW e \in Range(s) PROVE e \in {Head(s)} \cup Range(Tail(s))
    <2>1. PICK i \in 1 .. Len(s) : e = s[i]
      BY <1>2, <1>3 DEF Range
    <2>2. CASE i = 1
      BY <1>1, <2>1, <2>2
    <2>3. CASE i # 1
      <3>1. i - 1 \in 1 .. (Len(s) - 1) /\ Tail(s)[i - 1] = e
        BY <1>1, <1>2, <2>1, <2>3
      <3> QED
        BY <1>2, <3>1 DEF Range
    <2> QED
      BY <2>2, <2>3
  <1>4. ASSUME NEW e \in {Head(s)} \cup Range(Tail(s)) PROVE e \in Range(s)
    <2>1. CASE e = Head(s)
      BY <1>1, <1>2, <2>1 DEF Range
    <2>2. CASE e \in Range(Tail(s))
      <3>1. PICK i \in 1 .. (Len(s) - 1) : e = Tail(s)[i]
        BY <1>2, <2>2 DEF Range
      <3>2. i + 1 \in 1 .. Len(s) /\ s[i + 1] = e
        BY <1>1, <1>2, <3>1
      <3> QED
        BY <1>2, <3>2 DEF Range
    <2> QED
      BY <1>4, <2>1, <2>2
  <1> QED
    BY <1>1, <1>3, <1>4

LEMMA RangeType ==
    ASSUME NEW S, NEW s \in Seq(S)
    PROVE  Range(s) \subseteq S
  BY DEF Range

LEMMA EmptyRange == Range(<<>>) = {}
  BY DEF Range

LEMMA OrderedTail ==
    ASSUME NEW s \in Seq(Event), s # <<>>, Ordered(s)
    PROVE  Ordered(Tail(s)) /\ \A e \in Range(Tail(s)) : Before(Head(s), e)
  <1>1. /\ Tail(s) \in Seq(Event) /\ Len(Tail(s)) = Len(s) - 1 /\ Len(s) > 0
        /\ Head(s) = s[1] /\ \A i \in 1 .. Len(s) - 1 : Tail(s)[i] = s[i + 1]
    BY TailFacts
  <1>2. DOMAIN Tail(s) = 1 .. (Len(s) - 1) /\ DOMAIN s = 1 .. Len(s) /\ Len(s) \in Nat
    BY <1>1
  <1>3. ASSUME NEW i \in DOMAIN Tail(s), NEW j \in DOMAIN Tail(s), i < j
        PROVE  Before(Tail(s)[i], Tail(s)[j])
    <2>1. i + 1 \in DOMAIN s /\ j + 1 \in DOMAIN s /\ i + 1 < j + 1
      BY <1>2, <1>3
    <2> QED
      BY <1>1, <1>2, <2>1 DEF Ordered
  <1>4. ASSUME NEW i \in DOMAIN Tail(s) PROVE Before(Head(s), Tail(s)[i])
    <2>1. i + 1 \in DOMAIN s /\ 1 \in DOMAIN s /\ 1 < i + 1
      BY <1>2, <1>4
    <2> QED
      BY <1>1, <1>2, <2>1 DEF Ordered
  <1> QED
    BY <1>3, <1>4 DEF Ordered, Range

LEMMA OrderedAppend ==
    ASSUME NEW s \in Seq(Event), NEW x \in Event, Ordered(s), \A e \in Range(s) : Before(e, x)
    PROVE  Ordered(Append(s, x))
  <1>1. /\ Append(s, x) \in Seq(Event) /\ Len(Append(s, x)) = Len(s) + 1
        /\ \A i \in 1 .. Len(s) : Append(s, x)[i] = s[i]
        /\ Append(s, x)[Len(s) + 1] = x
    BY AppendFacts
  <1>2. DOMAIN Append(s, x) = 1 .. (Len(s) + 1) /\ DOMAIN s = 1 .. Len(s) /\ Len(s) \in Nat
    BY <1>1
  <1>3. ASSUME NEW i \in 1 .. (Len(s) + 1), NEW j \in 1 .. (Len(s) + 1), i < j
        PROVE  Before(Append(s, x)[i], Append(s, x)[j])
    <2>1. i \in 1 .. Len(s) /\ Append(s, x)[i] = s[i]
      BY <1>1, <1>2, <1>3
    <2>2. CASE j = Len(s) + 1
      BY <1>1, <1>2, <2>1, <2>2 DEF Range
    <2>3. CASE j # Len(s) + 1
      <3>1. j \in 1 .. Len(s) /\ Append(s, x)[j] = s[j]
        BY <1>1, <1>2, <2>3
      <3> QED
        BY <1>2, <1>3, <2>1, <3>1 DEF Ordered
    <2> QED
      BY <2>2, <2>3
  <1> QED
    BY <1>2, <1>3 DEF Ordered

-----------------------------------------------------------------------------
(* The order of delivery *)

\* What the records of the state are made of
LEMMA TypeFacts ==
    ASSUME Types
    PROVE  /\ pending \in Seq(Event) /\ Range(pending) \subseteq Event
           /\ receiver.queue \in Seq(Event) /\ Range(receiver.queue) \subseteq Event
           /\ receiver.lagged \in Seq(Event) /\ Range(receiver.lagged) \subseteq Event
           /\ Published \subseteq Event
           /\ DOMAIN wire = 1 .. Len(wire) /\ Len(wire) \in Nat
           /\ \A i \in Carried : wire[i].event \in Event
           /\ \A i \in DOMAIN wire \ Carried :
                 /\ wire[i].type = "lagged" /\ wire[i].events \in Seq(Event)
                 /\ Range(wire[i].events) \subseteq Event
           /\ Len(oplog) \in Nat /\ DOMAIN oplog = 1 .. Len(oplog)
           /\ conn.replayedTo \in Nat /\ cursor \in Nat /\ first \in Nat /\ last \in Nat
           /\ oplog \in Seq(Row) /\ Len(oplog) <= MaxSeq
           /\ sweeping \in BOOLEAN /\ (sweeping => pending # <<>>)
           /\ receiver \in [queue : Seq(Event), lagged : Seq(Event)]
  <1>1. /\ pending \in Seq(Event) /\ receiver.queue \in Seq(Event)
        /\ receiver.lagged \in Seq(Event) /\ wire \in Seq(Frames)
        /\ Len(oplog) \in Nat /\ DOMAIN oplog = 1 .. Len(oplog)
    BY DEF Types
  <1>2. DOMAIN wire = 1 .. Len(wire) /\ Len(wire) \in Nat
    BY <1>1
  <1>3. \A i \in DOMAIN wire : wire[i] \in Frames
    BY <1>1
  <1>4. \A i \in Carried : wire[i].event \in Event
    BY <1>3 DEF Carried, Frames
  <1>5. \A i \in DOMAIN wire \ Carried : wire[i].type = "lagged" /\ wire[i].events \in Seq(Event)
    BY <1>3 DEF Carried, Frames
  <1>6. \A i \in DOMAIN wire \ Carried : Range(wire[i].events) \subseteq Event
    BY <1>5, RangeType
  <1>7. /\ Range(pending) \subseteq Event /\ Range(receiver.queue) \subseteq Event
        /\ Range(receiver.lagged) \subseteq Event
    BY <1>1, RangeType
  <1>8. conn.replayedTo \in Nat /\ cursor \in Nat /\ first \in Nat /\ last \in Nat
    BY BoundsAssumption DEF Types
  <1>9. /\ oplog \in Seq(Row) /\ Len(oplog) <= MaxSeq
        /\ sweeping \in BOOLEAN /\ (sweeping => pending # <<>>)
        /\ receiver \in [queue : Seq(Event), lagged : Seq(Event)]
    BY DEF Types
  <1> QED
    BY <1>1, <1>2, <1>4, <1>5, <1>6, <1>7, <1>8, <1>9 DEF Published

LEMMA EventFields ==
    ASSUME NEW e \in Event
    PROVE  /\ e.mine \in BOOLEAN /\ e.row \in Nat /\ e.seq \in Nat
           /\ e.row <= MaxSeq /\ e.seq <= MaxSeq /\ 1 <= e.seq
  BY BoundsAssumption DEF Event

LEMMA BeforeNew ==
    ASSUME NEW e \in Event, NEW f \in Event, Told(e), Len(oplog) \in Nat,
           f.seq >= Len(oplog), f.row # 0 => f.row > Len(oplog)
    PROVE  Before(e, f)
  BY EventFields DEF Told, Before

\* A step that leaves the oplog alone keeps every row.
LEMMA KeptUnchanged ==
    ASSUME oplog' = oplog
    PROVE  \A s \in 1 .. Len(oplog) : Kept(s)
  BY DEF Kept

\* A command that appends rows to the oplog and events to what is to be published:
\* the new events are newer than everything on its way.
LEMMA Grows ==
    ASSUME OrderInv, oplog' \in Seq(Row), Len(oplog) <= Len(oplog'), Len(oplog') <= MaxSeq,
           \A s \in 1 .. Len(oplog) : Kept(s),
           pending' \in Seq(Event), Ordered(pending)',
           sweeping' \in BOOLEAN, sweeping' => pending' # <<>>,
           \A e \in Range(pending') :
              \/ e \in Range(pending)
              \/ Told(e)' /\ e.seq >= Len(oplog) /\ (e.row # 0 => e.row > Len(oplog)),
           UNCHANGED <<receiver, conn, wire, cursor, ring, dropped,
                       polled, given, reported, first, last>>
    PROVE  OrderInv'
  <1> USE DEF OrderInv
  <1>a. /\ Types /\ Types'
    BY DEF Types
  <1>b. /\ Len(oplog) \in Nat /\ Len(oplog') \in Nat /\ Range(pending') \subseteq Event
        /\ DOMAIN oplog = 1 .. Len(oplog) /\ DOMAIN oplog' = 1 .. Len(oplog')
    BY <1>a, TypeFacts, RangeType
  <1>c. ASSUME NEW e \in Event, Told(e) PROVE Told(e)'
    <2>1. /\ e.seq \in 1 .. Len(oplog) /\ e.row \in 0 .. Len(oplog) /\ e.row <= e.seq
          /\ e.row # 0 =>
                /\ oplog[e.row].mine = e.mine /\ oplog[e.seq].mine = e.mine
                /\ e.row = e.seq \/ (oplog[e.seq].kind = "bulk" /\ oplog[e.seq].by = 0)
      BY <1>b, <1>c, EventFields DEF Told
    <2>2. e.row # 0 =>
            /\ oplog'[e.row].mine = e.mine /\ oplog'[e.seq].mine = e.mine
            /\ e.row = e.seq \/ (oplog'[e.seq].kind = "bulk" /\ oplog'[e.seq].by = 0)
      BY <2>1, <1>b DEF Kept
    <2> QED
      BY <1>b, <2>1, <2>2 DEF Told
  <1>d. Carried' = Carried /\ Published' \subseteq Range(pending') \cup Published /\ wire' = wire
    BY DEF Carried, Published
  <1>e. \A e \in Event : (Fresh(e)' <=> Fresh(e)) /\ (Counts(e)' <=> Counts(e))
    BY DEF Fresh, Counts
  <1>f. \A e \in Event, f \in Event : Before(e, f)' <=> Before(e, f)
    BY DEF Before
  <1>g. \A f \in Range(pending') : \A e \in Event : Told(e) /\ f \notin Range(pending) => Before(e, f)
    BY <1>b, BeforeNew
  <1>1. Truthful'
    <2>1. \A e \in Published' : Told(e)'
      BY <1>a, <1>c, <1>d, TypeFacts DEF Truthful, Published
    <2>2. \A i \in Carried : Told(wire[i].event)' /\ wire[i].event.mine
      BY <1>a, <1>c, TypeFacts DEF Truthful
    <2>3. \A i \in DOMAIN wire \ Carried : \A e \in Range(wire[i].events) : Told(e)'
      BY <1>a, <1>c, TypeFacts DEF Truthful
    <2> QED
      BY <1>d, <2>1, <2>2, <2>3 DEF Truthful
  <1>2. PublishedInOrder'
    <2>1. \A e \in Range(receiver.queue), f \in Range(pending') : Before(e, f)
      BY <1>a, <1>g, TypeFacts DEF PublishedInOrder, Truthful, Published
    <2> QED
      BY <2>1, <1>a, <1>b, <1>f, TypeFacts DEF PublishedInOrder, Ordered
  <1>3. WireInOrder'
    <2>1. \A i, j \in Carried :
              i < j /\ Counts(wire[j].event) => Before(wire[i].event, wire[j].event)
      BY DEF WireInOrder
    <2>2. \A i \in Carried : \A e \in Published' : Fresh(e) => Before(wire[i].event, e)
      BY <1>a, <1>d, <1>g, TypeFacts DEF WireInOrder, Truthful, Published
    <2>3. \A i \in Carried : \A j \in DOMAIN wire \ Carried :
              i < j => \A e \in Range(wire[j].events) : Fresh(e) => Before(wire[i].event, e)
      BY DEF WireInOrder
    <2>4. Published' \subseteq Event
      BY <1>a, <1>b, <1>d, TypeFacts
    <2> QED
      BY <1>a, <1>d, <1>e, <1>f, <2>1, <2>2, <2>3, <2>4, TypeFacts DEF WireInOrder
  <1>4. /\ last \in Nat /\ last <= Len(oplog) /\ conn.replayedTo <= Len(oplog)
        /\ conn.replayedTo \in Nat /\ cursor \in Nat
    BY <1>a, TypeFacts DEF Phase
  <1>5. LastIsBehind'
    <2> SUFFICES ASSUME conn.phase # "closed" PROVE LastIsBehind'
      BY DEF LastIsBehind
    <2>1. \A i \in Carried :
              wire[i].event.row # 0 /\ Counts(wire[i].event) => last < wire[i].event.row
      BY DEF LastIsBehind
    <2>2. ASSUME NEW e \in Range(pending') \cup Range(receiver.queue), Fresh(e), e.row # 0
          PROVE  last < e.row
      BY <1>4, <1>b, <2>2, EventFields DEF LastIsBehind
    <2> QED
      BY <1>a, <1>b, <1>d, <1>e, <2>1, <2>2, TypeFacts DEF LastIsBehind
  <1>6. Phase'
    <2>1. ASSUME conn.phase = "live", NEW e \in Range(pending') \cup Range(receiver.queue),
                 e.mine, e.seq > conn.replayedTo, Counts(e)
          PROVE  Fresh(e)
      <3>1. CASE e \in Range(pending) \cup Range(receiver.queue)
        BY <2>1, <3>1 DEF Phase
      <3>2. CASE e.row # 0 => e.row > Len(oplog)
        <4>1. e \in Event
          BY <1>a, <1>b, <2>1, TypeFacts
        <4> QED
          BY <1>4, <1>b, <2>1, <3>2, <4>1, EventFields DEF Fresh
      <3> QED
        BY <2>1, <3>1, <3>2
    <2>2. conn.replayedTo <= Len(oplog') /\ cursor <= Len(oplog') /\ last <= Len(oplog')
      BY <1>4, <1>b DEF Phase
    <2>3. /\ conn.phase = "closed" => wire = <<>> /\ receiver = NoReceiver
          /\ conn.phase = "replay" =>
                /\ conn.after = conn.replayedTo /\ last <= conn.replayedTo
                /\ \A i \in DOMAIN wire : i \in Carried /\ wire[i].event.seq <= conn.replayedTo
      BY DEF Phase
    <2> QED
      BY <1>a, <1>b, <1>d, <1>e, <2>1, <2>2, <2>3, TypeFacts DEF Phase
  <1> QED
    BY <1>a, <1>1, <1>2, <1>3, <1>5, <1>6

LEMMA TupleFacts ==
    ASSUME NEW S, NEW q \in S, NEW r \in S
    PROVE  /\ <<q>> \in Seq(S) /\ Len(<<q>>) = 1 /\ <<q>>[1] = q
           /\ <<q, r>> \in Seq(S) /\ Len(<<q, r>>) = 2 /\ <<q, r>>[1] = q /\ <<q, r>>[2] = r
           /\ <<q, q, q, r>> \in Seq(S) /\ Len(<<q, q, q, r>>) = 4
           /\ \A i \in 1 .. 3 : <<q, q, q, r>>[i] = q
           /\ <<q, q, q, r>>[4] = r
  OBVIOUS

LEMMA RowFacts ==
    ASSUME NEW b \in BOOLEAN
    PROVE  /\ ChangeRow(b) \in Row /\ ChangeRow(b).mine = b /\ ChangeRow(b).kind = "change"
           /\ \A k \in {"quiet", "bulk"} :
                 /\ NewRow(b, k) \in Row /\ NewRow(b, k).mine = b
                 /\ NewRow(b, k).kind # "change"
  BY BoundsAssumption DEF Row, NewRow, ChangeRow

\* What Commit leaves of the oplog
LEMMA CommitFacts ==
    ASSUME Types, NEW rows \in Seq(Row), Commit(rows)
    PROVE  /\ oplog' \in Seq(Row) /\ Len(oplog') = Len(oplog) + Len(rows) /\ Len(oplog') <= MaxSeq
           /\ Len(oplog) \in Nat /\ Len(rows) \in Nat
           /\ \A s \in 1 .. Len(oplog) : Kept(s)
           /\ \A i \in 1 .. Len(rows) : oplog'[Len(oplog) + i] = rows[i]
  <1>1. /\ oplog' \in Seq(Row) /\ Len(oplog') = Len(oplog) + Len(rows) /\ Len(oplog') <= MaxSeq
        /\ Len(oplog) \in Nat /\ Len(rows) \in Nat
        /\ \A s \in 1 .. Len(oplog) : oplog'[s] = oplog[s]
        /\ \A i \in 1 .. Len(rows) : oplog'[Len(oplog) + i] = rows[i]
    BY DEF Types, Commit
  <1> QED
    BY <1>1 DEF Kept

\* A command that commits one row
LEMMA CommitOne ==
    ASSUME Types, NEW r \in Row, Commit(<<r>>)
    PROVE  /\ oplog' \in Seq(Row) /\ Len(oplog') = Len(oplog) + 1 /\ Len(oplog') <= MaxSeq
           /\ Len(oplog) \in Nat
           /\ \A s \in 1 .. Len(oplog) : Kept(s)
           /\ oplog'[Len(oplog) + 1] = r
  <1>1. PICK rows : rows = <<r>>
    OBVIOUS
  <1>2. Commit(rows)
    BY <1>1
  <1>3. rows \in Seq(Row) /\ Len(rows) = 1 /\ rows[1] = r
    BY <1>1, TupleFacts
  <1>4. /\ oplog' \in Seq(Row) /\ Len(oplog') = Len(oplog) + Len(rows) /\ Len(oplog') <= MaxSeq
        /\ Len(oplog) \in Nat
        /\ \A s \in 1 .. Len(oplog) : Kept(s)
        /\ \A i \in 1 .. Len(rows) : oplog'[Len(oplog) + i] = rows[i]
    BY <1>2, <1>3, CommitFacts
  <1> QED
    BY <1>3, <1>4

\* A command that commits two of the same kind
LEMMA CommitTwo ==
    ASSUME Types, NEW r \in Row, Commit(<<r, r>>)
    PROVE  /\ oplog' \in Seq(Row) /\ Len(oplog') = Len(oplog) + 2 /\ Len(oplog') <= MaxSeq
           /\ Len(oplog) \in Nat
           /\ \A s \in 1 .. Len(oplog) : Kept(s)
           /\ \A i \in 1 .. 2 : oplog'[Len(oplog) + i] = r
  <1>1. PICK rows : rows = <<r, r>>
    OBVIOUS
  <1>2. Commit(rows)
    BY <1>1
  <1>3. rows \in Seq(Row) /\ Len(rows) = 2 /\ rows[1] = r /\ rows[2] = r
    BY <1>1, TupleFacts
  <1>4. /\ oplog' \in Seq(Row) /\ Len(oplog') = Len(oplog) + Len(rows) /\ Len(oplog') <= MaxSeq
        /\ Len(oplog) \in Nat
        /\ \A s \in 1 .. Len(oplog) : Kept(s)
        /\ \A i \in 1 .. Len(rows) : oplog'[Len(oplog) + i] = rows[i]
    BY <1>2, <1>3, CommitFacts
  <1> QED
    BY <1>3, <1>4

\* An event that tells of a row just committed
LEMMA NewEvent ==
    ASSUME Types, oplog' \in Seq(Row), Len(oplog) < Len(oplog'), Len(oplog') <= MaxSeq,
           NEW b \in BOOLEAN, NEW s \in (Len(oplog) + 1) .. Len(oplog'), oplog'[s].mine = b,
           NEW e, e = OwnSeq(s, b, oplog') \/ (e = LastSeq(s, b, oplog') /\ oplog'[Len(oplog')].mine = b
                                                /\ (s = Len(oplog') \/ oplog'[Len(oplog')] = NewRow(b, "bulk")))
    PROVE  /\ e \in Event /\ Told(e)' /\ e.seq >= Len(oplog) /\ e.row = s /\ e.row > Len(oplog)
           /\ e.seq = s \/ e.seq = Len(oplog')
           /\ e = OwnSeq(s, b, oplog') => e.seq = s
  <1>1. Len(oplog) \in Nat /\ Len(oplog') \in Nat /\ MaxSeq \in Nat
    <2>1. oplog \in Seq(Row)
      BY DEF Types
    <2> QED
      BY <2>1, BoundsAssumption
  <1>2. /\ e.mine = b /\ e.row = s /\ e.seq \in {s, Len(oplog')}
        /\ e.seq = Len(oplog') => s = Len(oplog') \/ oplog'[Len(oplog')].mine = b
    BY <1>1 DEF OwnSeq, LastSeq
  <1>3. e \in Event
    BY <1>1 DEF OwnSeq, LastSeq, Event
  <1>4. e = OwnSeq(s, b, oplog') => e.seq = s
    BY DEF OwnSeq
  <1>5. oplog'[e.seq].mine = b
    BY <1>2, <1>4
  <1>6. e.row = e.seq \/ (oplog'[e.seq].kind = "bulk" /\ oplog'[e.seq].by = 0)
    <2>1. CASE e = OwnSeq(s, b, oplog')
      BY <1>2, <1>4, <2>1
    <2>2. CASE e = LastSeq(s, b, oplog') /\ s # Len(oplog')
      <3>1. e.seq = Len(oplog') /\ oplog'[Len(oplog')] = NewRow(b, "bulk")
        BY <2>2 DEF LastSeq, OwnSeq
      <3> QED
        BY <3>1 DEF NewRow
    <2>3. CASE s = Len(oplog')
      BY <1>2, <2>3
    <2> QED
      BY <2>1, <2>2, <2>3
  <1> QED
    BY <1>1, <1>2, <1>3, <1>4, <1>5, <1>6 DEF Told

LEMMA WriteOneOrder ==
    ASSUME OrderInv, NEW b \in BOOLEAN, write_one(b)
    PROVE  OrderInv'
  <1>a. Types /\ Len(oplog) \in Nat
    BY TypeFacts DEF OrderInv
  <1>1. PICK r : r = ChangeRow(b)
    OBVIOUS
  <1>2. r \in Row /\ r.mine = b
    BY <1>1, RowFacts
  <1>3. /\ oplog' \in Seq(Row) /\ Len(oplog') = Len(oplog) + 1 /\ Len(oplog') <= MaxSeq
        /\ \A s \in 1 .. Len(oplog) : Kept(s)
        /\ oplog'[Len(oplog) + 1] = r
    BY <1>a, <1>1, <1>2, CommitOne DEF write_one
  <1>4. PICK e : e = LastSeq(Len(oplog'), b, oplog')
    OBVIOUS
  <1>5. e \in Event /\ Told(e)' /\ e.seq >= Len(oplog) /\ e.row > Len(oplog)
    BY <1>a, <1>2, <1>3, <1>4, NewEvent
  <1>6. pending' = <<e>> /\ Range(pending') = {e} /\ pending' \in Seq(Event) /\ pending' # <<>>
    BY <1>4, <1>5 DEF write_one, Range
  <1>7. Ordered(pending)'
    BY <1>6 DEF Ordered
  <1>8. sweeping' = sweeping /\ sweeping \in BOOLEAN
        /\ UNCHANGED <<receiver, conn, wire, cursor, ring, dropped,
                       polled, given, reported, first, last>>
    BY <1>a DEF write_one, Types, daemon, adapter, history
  <1> QED
    BY <1>a, <1>3, <1>5, <1>6, <1>7, <1>8, Grows

LEMMA WriteSupersedingOrder ==
    ASSUME OrderInv, NEW b \in BOOLEAN, write_superseding(b)
    PROVE  OrderInv'
  <1>a. Types /\ Len(oplog) \in Nat
    BY TypeFacts DEF OrderInv
  <1>1. PICK r : r = ChangeRow(b)
    OBVIOUS
  <1>2. r \in Row /\ r.mine = b
    BY <1>1, RowFacts
  <1>3. /\ oplog' \in Seq(Row) /\ Len(oplog') = Len(oplog) + 2 /\ Len(oplog') <= MaxSeq
        /\ \A s \in 1 .. Len(oplog) : Kept(s)
        /\ oplog'[Len(oplog) + 1] = r /\ oplog'[Len(oplog) + 2] = r
    BY <1>a, <1>1, <1>2, CommitTwo DEF write_superseding
  <1>4. ASSUME NEW i \in 1 .. 2
        PROVE  /\ pending'[i] \in Event /\ pending'[i].row = Len(oplog) + i
               /\ pending'[i].seq = Len(oplog) + i
               /\ \A e : e = pending'[i] => Told(e)'
    <2>1. PICK e : e = OwnSeq(Len(oplog) + i, b, oplog')
      OBVIOUS
    <2>2. pending'[i] = e
      BY <2>1 DEF write_superseding
    <2>3. Len(oplog) + i \in (Len(oplog) + 1) .. Len(oplog') /\ oplog'[Len(oplog) + i].mine = b
      BY <1>a, <1>2, <1>3
    <2> QED
      BY <1>a, <1>3, <2>1, <2>2, <2>3, NewEvent
  <1>5. pending' \in Seq(Event) /\ pending' # <<>> /\ DOMAIN pending' = 1 .. 2
    BY <1>4 DEF write_superseding
  <1>6. Ordered(pending)'
    BY <1>a, <1>4, <1>5 DEF Ordered, Before
  <1>7. ASSUME NEW e \in Range(pending')
        PROVE  Told(e)' /\ e.seq >= Len(oplog) /\ (e.row # 0 => e.row > Len(oplog))
    BY <1>a, <1>4, <1>5, <1>7 DEF Range
  <1>8. sweeping' = sweeping /\ sweeping \in BOOLEAN
        /\ UNCHANGED <<receiver, conn, wire, cursor, ring, dropped,
                       polled, given, reported, first, last>>
    BY <1>a DEF write_superseding, Types, daemon, adapter, history
  <1> QED
    BY <1>a, <1>3, <1>5, <1>6, <1>7, <1>8, Grows

LEMMA WriteQuietOrder ==
    ASSUME OrderInv, NEW b \in BOOLEAN, NEW kind \in {"quiet", "bulk"}, write_quiet(b, kind)
    PROVE  OrderInv'
  <1>a. Types /\ Len(oplog) \in Nat
    BY TypeFacts DEF OrderInv
  <1>1. PICK r : r = NewRow(b, kind)
    OBVIOUS
  <1>2. r \in Row
    BY <1>1, RowFacts
  <1>3. /\ oplog' \in Seq(Row) /\ Len(oplog') = Len(oplog) + 1 /\ Len(oplog') <= MaxSeq
        /\ \A s \in 1 .. Len(oplog) : Kept(s)
    BY <1>a, <1>1, <1>2, CommitOne DEF write_quiet
  <1>4. /\ pending' = pending /\ pending \in Seq(Event) /\ sweeping' = sweeping
        /\ sweeping \in BOOLEAN /\ (sweeping => pending # <<>>)
        /\ UNCHANGED <<receiver, conn, wire, cursor, ring, dropped,
                       polled, given, reported, first, last>>
    BY <1>a DEF write_quiet, Types, daemon, adapter, history
  <1>5. Ordered(pending)'
    BY <1>4 DEF OrderInv, PublishedInOrder, Ordered, Before
  <1> QED
    BY <1>a, <1>3, <1>4, <1>5, Grows

LEMMA WriteNoopOrder ==
    ASSUME OrderInv, NEW b \in BOOLEAN, write_noop(b)
    PROVE  OrderInv'
  <1>a. Types /\ Len(oplog) \in Nat /\ oplog \in Seq(Row) /\ Len(oplog) <= MaxSeq
    BY TypeFacts DEF OrderInv
  <1>1. PICK e : e = LastSeq(0, b, oplog)
    OBVIOUS
  <1>2. oplog' = oplog /\ Len(oplog) > 0
    BY <1>a DEF write_noop
  <1>3. e \in Event /\ e.row = 0 /\ e.seq = Len(oplog) /\ Told(e)'
    BY <1>a, <1>1, <1>2, BoundsAssumption DEF LastSeq, Event, Told
  <1>4. pending' = <<e>> /\ Range(pending') = {e} /\ pending' \in Seq(Event) /\ pending' # <<>>
    BY <1>1, <1>3 DEF write_noop, Range
  <1>5. Ordered(pending)'
    BY <1>4 DEF Ordered
  <1>6. sweeping' = sweeping /\ sweeping \in BOOLEAN
        /\ UNCHANGED <<receiver, conn, wire, cursor, ring, dropped,
                       polled, given, reported, first, last>>
    BY <1>a DEF write_noop, Types, daemon, adapter, history
  <1> QED
    BY <1>a, <1>2, <1>3, <1>4, <1>5, <1>6, KeptUnchanged, Grows

LEMMA WriteMergeOrder ==
    ASSUME OrderInv, NEW b \in BOOLEAN, write_merge(b)
    PROVE  OrderInv'
  <1>a. Types /\ Len(oplog) \in Nat
    BY TypeFacts DEF OrderInv
  <1>1. PICK r : r = ChangeRow(b)
    OBVIOUS
  <1>2. PICK q : q = NewRow(b, "bulk")
    OBVIOUS
  <1>3. r \in Row /\ r.mine = b /\ q \in Row /\ q.mine = b
    BY <1>1, <1>2, RowFacts
  <1>4. /\ oplog' \in Seq(Row) /\ Len(oplog') = Len(oplog) + 4 /\ Len(oplog') <= MaxSeq
        /\ \A s \in 1 .. Len(oplog) : Kept(s)
        /\ \A i \in 1 .. 3 : oplog'[Len(oplog) + i] = r
        /\ oplog'[Len(oplog) + 4] = q
    <2>1. PICK rows : rows = <<r, r, r, q>>
      OBVIOUS
    <2>2. Commit(rows)
      BY <1>1, <1>2, <2>1 DEF write_merge
    <2>3. rows \in Seq(Row) /\ Len(rows) = 4 /\ (\A i \in 1 .. 3 : rows[i] = r) /\ rows[4] = q
      BY <1>3, <2>1, TupleFacts
    <2>4. /\ oplog' \in Seq(Row) /\ Len(oplog') = Len(oplog) + Len(rows) /\ Len(oplog') <= MaxSeq
          /\ \A s \in 1 .. Len(oplog) : Kept(s)
          /\ \A i \in 1 .. Len(rows) : oplog'[Len(oplog) + i] = rows[i]
      BY <1>a, <2>2, <2>3, CommitFacts
    <2> QED
      BY <1>a, <2>3, <2>4
  <1>5. ASSUME NEW i \in 1 .. 3
        PROVE  /\ pending'[i] \in Event /\ pending'[i].row = Len(oplog) + i
               /\ pending'[i].seq = Len(oplog) + 4
               /\ \A e : e = pending'[i] => Told(e)'
    <2>1. PICK e : e = LastSeq(Len(oplog) + i, b, oplog')
      OBVIOUS
    <2>2. pending'[i] = e /\ e.seq = Len(oplog')
      BY <2>1 DEF write_merge, LastSeq
    <2>3. Len(oplog) + i \in (Len(oplog) + 1) .. Len(oplog') /\ oplog'[Len(oplog) + i].mine = b
          /\ oplog'[Len(oplog')].mine = b /\ oplog'[Len(oplog')] = NewRow(b, "bulk")
      BY <1>a, <1>2, <1>3, <1>4
    <2> QED
      BY <1>a, <1>4, <2>1, <2>2, <2>3, NewEvent
  <1>6. pending' \in Seq(Event) /\ pending' # <<>> /\ DOMAIN pending' = 1 .. 3
    BY <1>5 DEF write_merge
  <1>7. Ordered(pending)'
    BY <1>a, <1>5, <1>6 DEF Ordered, Before
  <1>8. ASSUME NEW e \in Range(pending')
        PROVE  Told(e)' /\ e.seq >= Len(oplog) /\ (e.row # 0 => e.row > Len(oplog))
    BY <1>a, <1>5, <1>6, <1>8 DEF Range
  <1>9. sweeping' = sweeping /\ sweeping \in BOOLEAN
        /\ UNCHANGED <<receiver, conn, wire, cursor, ring, dropped,
                       polled, given, reported, first, last>>
    BY <1>a DEF write_merge, Types, daemon, adapter, history
  <1> QED
    BY <1>a, <1>4, <1>6, <1>7, <1>8, <1>9, Grows

\* What a purge leaves of the oplog
LEMMA Purged ==
    ASSUME Types, NEW b \in BOOLEAN, NEW gone \in SUBSET History(b), NEW r \in Row,
           Len(oplog) < MaxSeq, oplog' = Append(Without(gone), r)
    PROVE  /\ oplog' \in Seq(Row) /\ Len(oplog') = Len(oplog) + 1 /\ Len(oplog') <= MaxSeq
           /\ \A s \in 1 .. Len(oplog) : Kept(s)
           /\ oplog'[Len(oplog) + 1] = r
  <1>a. oplog \in Seq(Row) /\ Len(oplog) \in Nat /\ DOMAIN oplog = 1 .. Len(oplog) /\ MaxSeq \in Nat
    BY TypeFacts, BoundsAssumption
  <1>b. \A s \in 1 .. Len(oplog) : oplog[s] \in Row
    BY <1>a
  <1>1. PICK w : w = Without(gone)
    OBVIOUS
  <1>2. ASSUME NEW s \in 1 .. Len(oplog)
        PROVE  /\ w[s] \in Row /\ w[s].mine = oplog[s].mine /\ w[s].kind = oplog[s].kind
               /\ w[s].by = 0 => oplog[s].by = 0
               /\ oplog[s].kind = "bulk" /\ oplog[s].by = 0 => w[s].by = 0
    <2>1. CASE {s, oplog[s].by} \cap gone = {}
      BY <1>a, <1>b, <1>1, <2>1 DEF Without
    <2>2. CASE {s, oplog[s].by} \cap gone # {}
      <3>1. w[s] = [oplog[s] EXCEPT !.by = Len(oplog) + 1]
        BY <1>a, <1>1, <2>2 DEF Without
      <3>2. Len(oplog) + 1 \in 0 .. MaxSeq /\ Len(oplog) + 1 # 0
        BY <1>a
      <3>3. oplog[s].kind = "bulk" /\ oplog[s].by = 0 => FALSE
        BY <1>a, <2>2 DEF History
      <3> QED
        BY <1>b, <3>1, <3>2, <3>3 DEF Row
    <2> QED
      BY <2>1, <2>2
  <1>3. w \in Seq(Row) /\ Len(w) = Len(oplog)
    <2>1. DOMAIN w = 1 .. Len(oplog) /\ w = [s \in 1 .. Len(oplog) |-> w[s]]
      BY <1>a, <1>1 DEF Without
    <2> QED
      BY <1>a, <1>2, <2>1
  <1>4. oplog' = Append(w, r)
    BY <1>1
  <1>5. /\ oplog' \in Seq(Row) /\ Len(oplog') = Len(oplog) + 1 /\ oplog'[Len(oplog) + 1] = r
        /\ \A s \in 1 .. Len(oplog) : oplog'[s] = w[s]
    BY <1>a, <1>3, <1>4
  <1> QED
    BY <1>a, <1>2, <1>5 DEF Kept

LEMMA SweepItemOrder ==
    ASSUME OrderInv, NEW b \in BOOLEAN, NEW gone \in SUBSET History(b), sweep_item(b, gone)
    PROVE  OrderInv'
  <1>a. Types /\ Len(oplog) \in Nat /\ pending \in Seq(Event) /\ Range(pending) \subseteq Event
    BY TypeFacts DEF OrderInv
  <1>1. PICK r : r = ChangeRow(b)
    OBVIOUS
  <1>2. r \in Row /\ r.mine = b
    BY <1>1, RowFacts
  <1>3. /\ oplog' \in Seq(Row) /\ Len(oplog') = Len(oplog) + 1 /\ Len(oplog') <= MaxSeq
        /\ \A s \in 1 .. Len(oplog) : Kept(s)
        /\ oplog'[Len(oplog) + 1] = r
    BY <1>a, <1>1, <1>2, Purged DEF sweep_item
  <1>4. PICK e : e = OwnSeq(Len(oplog'), b, oplog')
    OBVIOUS
  <1>5. e \in Event /\ Told(e)' /\ e.seq >= Len(oplog) /\ e.row > Len(oplog)
    BY <1>a, <1>2, <1>3, <1>4, NewEvent
  <1>6. /\ pending' = Append(pending, e) /\ Range(pending') = Range(pending) \cup {e}
        /\ pending' \in Seq(Event) /\ pending' # <<>>
    BY <1>a, <1>4, <1>5, AppendFacts DEF sweep_item
  <1>7. Ordered(pending)'
    <2>1. \A f \in Range(pending) : Before(f, e)
      BY <1>a, <1>5, BeforeNew DEF OrderInv, Truthful, Published
    <2>2. Ordered(Append(pending, e))
      BY <1>a, <1>5, <2>1, OrderedAppend DEF OrderInv, PublishedInOrder
    <2> QED
      BY <1>6, <2>2 DEF Ordered, Before
  <1>8. sweeping' = TRUE
        /\ UNCHANGED <<receiver, conn, wire, cursor, ring, dropped,
                       polled, given, reported, first, last>>
    BY DEF sweep_item, daemon, adapter, history
  <1> QED
    BY <1>a, <1>3, <1>5, <1>6, <1>7, <1>8, Grows

LEMMA SweepDoneOrder ==
    ASSUME OrderInv, sweep_done
    PROVE  OrderInv'
  <1>a. /\ Types /\ Len(oplog) \in Nat /\ pending \in Seq(Event) /\ pending # <<>>
        /\ oplog \in Seq(Row) /\ Len(oplog) <= MaxSeq
    BY TypeFacts DEF OrderInv, sweep_done
  <1>1. pending[1].mine \in BOOLEAN
    BY <1>a, EventFields
  <1>2. PICK r : r = NewRow(pending[1].mine, "bulk")
    OBVIOUS
  <1>3. r \in Row
    BY <1>1, <1>2, RowFacts
  <1>4. /\ oplog' \in Seq(Row) /\ Len(oplog') >= Len(oplog) /\ Len(oplog') <= MaxSeq
        /\ \A s \in 1 .. Len(oplog) : Kept(s)
    <2>1. PICK rows : rows = <<r>>
      OBVIOUS
    <2>2. Commit(rows) \/ oplog' = oplog
      BY <1>2, <2>1 DEF sweep_done
    <2>3. rows \in Seq(Row) /\ Len(rows) = 1
      BY <1>3, <2>1, TupleFacts
    <2>4. CASE Commit(rows)
      BY <1>a, <2>3, <2>4, CommitFacts
    <2>5. CASE oplog' = oplog
      BY <1>a, <2>5, KeptUnchanged
    <2> QED
      BY <2>2, <2>4, <2>5
  <1>5. /\ pending' = pending /\ sweeping' = FALSE
        /\ UNCHANGED <<receiver, conn, wire, cursor, ring, dropped,
                       polled, given, reported, first, last>>
    BY DEF sweep_done, daemon, adapter, history
  <1>6. Ordered(pending)'
    BY <1>5 DEF OrderInv, PublishedInOrder, Ordered, Before
  <1> QED
    BY <1>a, <1>4, <1>5, <1>6, Grows

\* Events that move on, or go, while nothing is put on the wire or read off it
LEMMA Moves ==
    ASSUME OrderInv, pending' \in Seq(Event), ~sweeping',
           receiver' \in [queue : Seq(Event), lagged : Seq(Event)],
           Range(pending') \subseteq Range(pending),
           Range(receiver'.queue) \subseteq Range(pending) \cup Range(receiver.queue),
           Published' \subseteq Published,
           PublishedInOrder', conn.phase = "closed" => receiver' = NoReceiver,
           sweeping' \in BOOLEAN,
           UNCHANGED <<oplog, conn, wire, cursor, ring, dropped,
                       polled, given, reported, first, last>>
    PROVE  OrderInv'
  <1> USE DEF OrderInv
  <1>a. Types /\ Types'
    BY DEF Types
  <1>b. /\ Carried' = Carried /\ wire' = wire
        /\ \A e : (Told(e)' <=> Told(e)) /\ (Fresh(e)' <=> Fresh(e)) /\ (Counts(e)' <=> Counts(e))
    BY DEF Carried, Told, Fresh, Counts
  <1>c. \A e, f : Before(e, f)' <=> Before(e, f)
    BY DEF Before
  <1>1. Truthful'
    BY <1>b DEF Truthful
  <1>2. WireInOrder'
    BY <1>b, <1>c DEF WireInOrder
  <1>3. LastIsBehind'
    BY <1>b DEF LastIsBehind
  <1>4. Phase'
    BY <1>b DEF Phase
  <1> QED
    BY <1>a, <1>1, <1>2, <1>3, <1>4

LEMMA PublishOrder ==
    ASSUME OrderInv, publish_change
    PROVE  OrderInv'
  <1> DEFINE p == Head(pending)
             q == receiver.queue
  <1>a. /\ Types /\ pending \in Seq(Event) /\ pending # <<>> /\ q \in Seq(Event)
        /\ receiver.lagged \in Seq(Event) /\ PublishedInOrder
        /\ receiver \in [queue : Seq(Event), lagged : Seq(Event)]
        /\ sweeping = FALSE /\ sweeping' = FALSE
    BY TypeFacts DEF OrderInv, publish_change
  <1>b. /\ pending' = Tail(pending) /\ pending' \in Seq(Event) /\ p \in Event
        /\ Range(pending) = {p} \cup Range(pending')
    BY <1>a, TailFacts DEF publish_change
  <1>c. /\ Ordered(pending') /\ (\A e \in Range(pending') : Before(p, e))
        /\ Ordered(q) /\ \A e \in Range(q) : Before(e, p) /\ \A f \in Range(pending') : Before(e, f)
    BY <1>a, <1>b, OrderedTail DEF PublishedInOrder
  <1>d. UNCHANGED <<oplog, conn, wire, cursor, ring, dropped, polled, given, reported, first, last>>
    BY DEF publish_change, adapter, history
  <1>e. ASSUME Ordered(receiver'.queue),
               \A e \in Range(receiver'.queue), f \in Range(pending') : Before(e, f)
        PROVE  PublishedInOrder'
    BY <1>c, <1>e DEF PublishedInOrder, Ordered, Before
  <1>1. CASE conn.phase = "closed"
    <2>1. receiver' = receiver /\ receiver = NoReceiver
      BY <1>1 DEF publish_change, OrderInv, Phase
    <2>2. PublishedInOrder'
      BY <1>c, <1>e, <2>1
    <2>3. Published' \subseteq Published
      BY <1>b, <2>1 DEF Published
    <2> QED
      BY <1>a, <1>b, <1>d, <2>1, <2>2, <2>3, Moves
  <1>2. CASE conn.phase # "closed" /\ Len(q) < Capacity
    <2>1. receiver' = [receiver EXCEPT !.queue = Append(q, p)]
      BY <1>2 DEF publish_change
    <2>2. /\ receiver'.queue = Append(q, p) /\ receiver'.lagged = receiver.lagged
          /\ receiver' \in [queue : Seq(Event), lagged : Seq(Event)]
      BY <1>a, <1>b, <2>1, AppendFacts
    <2>3. Range(receiver'.queue) = Range(q) \cup {p}
      BY <1>a, <1>b, <2>2, AppendFacts
    <2>4. PublishedInOrder'
      BY <1>a, <1>b, <1>c, <1>e, <2>2, <2>3, OrderedAppend
    <2>5. Published' \subseteq Published
      BY <1>b, <2>2, <2>3 DEF Published
    <2> QED
      BY <1>a, <1>b, <1>d, <1>2, <2>2, <2>3, <2>4, <2>5, Moves
  <1>3. CASE conn.phase # "closed" /\ ~(Len(q) < Capacity)
    <2>1. receiver' = [queue |-> Append(Tail(q), p), lagged |-> Append(receiver.lagged, Head(q))]
      BY <1>3 DEF publish_change
    <2>2. q # <<>>
      BY <1>a, <1>3, BoundsAssumption
    <2>3. /\ Tail(q) \in Seq(Event) /\ Head(q) \in Event /\ Range(q) = {Head(q)} \cup Range(Tail(q))
          /\ Ordered(Tail(q))
      BY <1>a, <1>c, <2>2, TailFacts, OrderedTail
    <2>4. /\ receiver'.queue = Append(Tail(q), p)
          /\ receiver'.lagged = Append(receiver.lagged, Head(q))
          /\ receiver' \in [queue : Seq(Event), lagged : Seq(Event)]
      BY <1>a, <1>b, <2>1, <2>3, AppendFacts
    <2>5. /\ Range(receiver'.queue) = Range(Tail(q)) \cup {p}
          /\ Range(receiver'.lagged) = Range(receiver.lagged) \cup {Head(q)}
      <3>1. Range(Append(Tail(q), p)) = Range(Tail(q)) \cup {p}
        <4> HIDE DEF p
        <4>1. PICK t : t = Tail(q)
          OBVIOUS
        <4>2. t \in Seq(Event) /\ p \in Event
          BY <1>b, <2>3, <4>1
        <4>3. Range(Append(t, p)) = Range(t) \cup {p}
          BY <4>2, AppendFacts
        <4> QED
          BY <4>1, <4>3, Zenon
      <3>2. Range(Append(receiver.lagged, Head(q))) = Range(receiver.lagged) \cup {Head(q)}
        BY <1>a, <2>3, AppendFacts
      <3> QED
        BY <2>4, <3>1, <3>2
    <2>6. PublishedInOrder'
      <3>1. \A e \in Range(Tail(q)) : Before(e, p) /\ \A f \in Range(pending') : Before(e, f)
        BY <1>c, <2>3
      <3>2. Ordered(Append(Tail(q), p))
        BY <1>b, <2>3, <3>1, OrderedAppend
      <3> QED
        BY <1>c, <1>e, <2>4, <2>5, <3>1, <3>2
    <2>7. Published' \subseteq Published
      BY <1>b, <2>3, <2>5 DEF Published
    <2> QED
      BY <1>a, <1>b, <1>d, <1>3, <2>3, <2>4, <2>5, <2>6, <2>7, Moves
  <1> QED
    BY <1>1, <1>2, <1>3

LEMMA ClosedOrder ==
    ASSUME OrderInv, Closed, UNCHANGED <<oplog, adapter, history>>,
           UNCHANGED <<pending, sweeping>> \/ (pending' = <<>> /\ sweeping' = FALSE)
    PROVE  OrderInv'
  <1> USE DEF OrderInv
  <1>a. /\ receiver' = [queue |-> <<>>, lagged |-> <<>>] /\ wire' = <<>>
        /\ conn' = [phase |-> "closed", after |-> 0, replayedTo |-> 0, failed |-> FALSE]
    BY DEF Closed, NoReceiver, NoConn
  <1>b. /\ receiver'.queue = <<>> /\ receiver'.lagged = <<>>
        /\ conn'.phase = "closed" /\ conn'.replayedTo = 0
    BY <1>a
  <1>c. Types'
    <2>1. /\ oplog' \in Seq(Row) /\ Len(oplog') <= MaxSeq /\ pending' \in Seq(Event)
          /\ sweeping' \in BOOLEAN /\ (sweeping' => pending' # <<>>)
          /\ cursor' \in 0 .. MaxSeq /\ ring' \in Seq(Event) /\ dropped' \in Nat
          /\ polled' \subseteq 1 .. MaxSeq /\ given' \subseteq 1 .. MaxSeq /\ reported' \in Nat
          /\ first' \in 0 .. MaxSeq /\ last' \in 0 .. MaxSeq
      <3>1. /\ oplog' = oplog /\ cursor' = cursor /\ ring' = ring /\ dropped' = dropped
            /\ polled' = polled /\ given' = given /\ reported' = reported
            /\ first' = first /\ last' = last
        BY DEF adapter, history
      <3>2. pending' \in Seq(Event) /\ sweeping' \in BOOLEAN /\ (sweeping' => pending' # <<>>)
        <4>1. pending \in Seq(Event) /\ sweeping \in BOOLEAN /\ (sweeping => pending # <<>>)
          BY DEF Types
        <4>2. <<>> \in Seq(Event)
          OBVIOUS
        <4>3. CASE pending' = pending /\ sweeping' = sweeping
          BY <4>1, <4>3, Zenon
        <4>4. CASE pending' = <<>> /\ sweeping' = FALSE
          BY <4>2, <4>4, Zenon
        <4> QED
          BY <4>3, <4>4
      <3> QED
        BY <3>1, <3>2 DEF Types
    <2>2. /\ receiver' \in [queue : Seq(Event), lagged : Seq(Event)] /\ wire' \in Seq(Frames)
          /\ conn' \in [phase : {"closed", "replay", "live"}, after : 0 .. MaxSeq,
                        replayedTo : 0 .. MaxSeq, failed : BOOLEAN]
      BY <1>a, BoundsAssumption
    <2> QED
      BY <2>1, <2>2 DEF Types
  <1>d. Range(receiver'.queue) = {} /\ Range(receiver'.lagged) = {} /\ Carried' = {}
        /\ DOMAIN wire' = {} /\ Range(pending') \subseteq Range(pending)
    BY <1>a, <1>b, EmptyRange DEF Carried, Range
  <1>1. Truthful'
    BY <1>d DEF Truthful, Published, Told
  <1>2. PublishedInOrder'
    BY <1>b, <1>d DEF PublishedInOrder, Ordered, Before
  <1>3. WireInOrder'
    BY <1>d DEF WireInOrder
  <1>4. LastIsBehind'
    BY <1>b DEF LastIsBehind
  <1>5. Phase'
    BY <1>a, <1>b, <1>c DEF Phase, NoReceiver, Types, adapter, history
  <1> QED
    BY <1>c, <1>1, <1>2, <1>3, <1>4, <1>5

LEMMA SubscribeOrder ==
    ASSUME OrderInv, subscribe
    PROVE  OrderInv'
  <1> USE DEF OrderInv
  <1>a. /\ receiver' = [queue |-> <<>>, lagged |-> <<>>] /\ wire' = wire /\ wire = <<>>
        /\ receiver'.queue = <<>> /\ receiver'.lagged = <<>>
    BY DEF subscribe, NoReceiver, Phase
  <1>b. /\ conn'.phase = IF cursor = 0 THEN "live" ELSE "replay"
        /\ conn'.after = cursor /\ conn'.replayedTo = cursor /\ conn'.failed = FALSE
        /\ last' = 0
    BY DEF subscribe
  <1>c. /\ oplog' = oplog /\ pending' = pending /\ cursor' = cursor
    BY DEF subscribe, writer, adapter
  <1>d. Types'
    <2>1. /\ receiver' \in [queue : Seq(Event), lagged : Seq(Event)]
      BY <1>a
    <2>2. conn' \in [phase : {"closed", "replay", "live"}, after : 0 .. MaxSeq,
                     replayedTo : 0 .. MaxSeq, failed : BOOLEAN]
      BY DEF subscribe, Types
    <2>3. /\ sweeping' = sweeping /\ ring' = ring /\ dropped' = dropped
          /\ polled' = polled /\ given' = given /\ reported' = reported /\ first' = first
      BY DEF subscribe, writer, adapter
    <2>4. last' \in 0 .. MaxSeq
      BY <1>b, BoundsAssumption
    <2> QED
      BY <1>a, <1>c, <2>1, <2>2, <2>3, <2>4 DEF Types
  <1>e. /\ Range(receiver'.queue) = {} /\ Range(receiver'.lagged) = {} /\ Carried' = {}
        /\ DOMAIN wire' = {} /\ Range(pending') = Range(pending) /\ Range(pending) \subseteq Event
    BY <1>a, <1>c, EmptyRange, TypeFacts DEF Carried
  <1>1. Truthful'
    BY <1>c, <1>e DEF Truthful, Published, Told
  <1>2. PublishedInOrder'
    BY <1>a, <1>c, <1>e DEF PublishedInOrder, Ordered, Before
  <1>3. WireInOrder'
    BY <1>e DEF WireInOrder
  <1>4. LastIsBehind'
    BY <1>b, <1>e, EventFields DEF LastIsBehind
  <1>5. Phase'
    <2>1. cursor <= Len(oplog) /\ Len(oplog) \in Nat /\ cursor \in Nat
      BY TypeFacts DEF Phase
    <2>2. CASE cursor = 0
      BY <1>b, <1>c, <1>e, <2>1, <2>2, EventFields DEF Phase, Fresh
    <2>3. CASE cursor # 0
      BY <1>b, <1>c, <1>e, <2>1, <2>3 DEF Phase
    <2> QED
      BY <2>2, <2>3
  <1> QED
    BY <1>d, <1>1, <1>2, <1>3, <1>4, <1>5

LEMMA ReplayFailOrder ==
    ASSUME OrderInv, replay_fail
    PROVE  OrderInv'
  <1> USE DEF OrderInv
  <1>a. /\ conn'.phase = "live" /\ conn'.replayedTo = conn.replayedTo /\ conn'.failed = TRUE
        /\ conn.phase = "replay"
        /\ conn' \in [phase : {"closed", "replay", "live"}, after : 0 .. MaxSeq,
                      replayedTo : 0 .. MaxSeq, failed : BOOLEAN]
    BY DEF replay_fail, Types
  <1>b. UNCHANGED <<oplog, pending, sweeping, receiver, wire, cursor, ring, dropped,
                    polled, given, reported, first, last>>
    BY DEF replay_fail, writer, adapter, history
  <1>c. Types'
    BY <1>a, <1>b DEF Types
  <1>d. /\ Carried' = Carried /\ Published' = Published
        /\ \A e : Told(e)' <=> Told(e)
        /\ \A e : Fresh(e)' <=> Fresh(e)
        /\ \A e : Counts(e)' => e.row = 0 \/ e.seq = e.row
        /\ \A e : Counts(e)' => Counts(e)
    BY <1>a, <1>b DEF Carried, Published, Told, Fresh, Counts
  <1>1. Truthful'
    BY <1>b, <1>d DEF Truthful
  <1>2. PublishedInOrder'
    BY <1>b DEF PublishedInOrder, Ordered, Before
  <1>3. WireInOrder'
    BY <1>b, <1>d DEF WireInOrder, Before
  <1>4. LastIsBehind'
    BY <1>a, <1>b, <1>d DEF LastIsBehind
  <1>5. Phase'
    BY <1>a, <1>b, <1>d DEF Phase, Fresh
  <1> QED
    BY <1>c, <1>1, <1>2, <1>3, <1>4, <1>5

LEMMA RowsOfType ==
    ASSUME NEW events \in Seq(Event)
    PROVE  RowsOf(events) \subseteq 1 .. MaxSeq
  <1>1. Range(events) \subseteq Event
    BY RangeType
  <1>2. \A e \in Event : e.row \in 0 .. MaxSeq
    BY DEF Event
  <1> QED
    BY <1>1, <1>2, BoundsAssumption DEF RowsOf

LEMMA PollOrder ==
    ASSUME OrderInv, NEW max \in 1 .. PollMax, poll_changes(max)
    PROVE  OrderInv'
  <1> USE DEF OrderInv
  <1>a. UNCHANGED <<oplog, pending, sweeping, receiver, conn, wire, cursor, given, first, last>>
    BY DEF poll_changes, writer, daemon
  <1>b. PICK take \in Nat : /\ take <= Len(ring)
                            /\ polled' = polled \cup RowsOf(SubSeq(ring, 1, take))
                            /\ ring' = SubSeq(ring, take + 1, Len(ring))
    <2>1. ring \in Seq(Event) /\ Len(ring) \in Nat /\ max \in Nat
      BY BoundsAssumption DEF Types
    <2>2. PICK take : take = IF max < Len(ring) THEN max ELSE Len(ring)
      OBVIOUS
    <2>3. /\ polled' = polled \cup RowsOf(SubSeq(ring, 1, take))
          /\ ring' = SubSeq(ring, take + 1, Len(ring))
      BY <2>2 DEF poll_changes
    <2>4. take \in Nat /\ take <= Len(ring)
      BY <2>1, <2>2
    <2> QED
      BY <2>3, <2>4
  <1>c. Types'
    <2>1. ring \in Seq(Event) /\ dropped \in Nat /\ reported \in Nat
      BY DEF Types
    <2>2. SubSeq(ring, 1, take) \in Seq(Event) /\ SubSeq(ring, take + 1, Len(ring)) \in Seq(Event)
      BY <1>b, <2>1, SubSeqProperties
    <2>3. polled' \subseteq 1 .. MaxSeq /\ ring' \in Seq(Event)
      BY <1>b, <2>2, RowsOfType DEF Types
    <2>4. dropped' \in Nat /\ reported' \in Nat
      BY <2>1 DEF poll_changes
    <2> QED
      BY <1>a, <2>3, <2>4 DEF Types
  <1>1. Truthful' /\ PublishedInOrder'
    BY <1>a DEF Truthful, PublishedInOrder, Published, Carried, Told, Ordered, Before
  <1>2. WireInOrder' /\ LastIsBehind' /\ Phase'
    BY <1>a DEF WireInOrder, LastIsBehind, Phase, Published, Carried, Fresh, Counts, Before
  <1> QED
    BY <1>c, <1>1, <1>2

\* A frame put at the end of the wire
LEMMA WireAppend ==
    ASSUME Types, NEW f \in Frames, wire' = Append(wire, f)
    PROVE  /\ wire' \in Seq(Frames) /\ Len(wire) \in Nat /\ DOMAIN wire = 1 .. Len(wire)
           /\ DOMAIN wire' = 1 .. (Len(wire) + 1)
           /\ wire'[Len(wire) + 1] = f /\ \A i \in 1 .. Len(wire) : wire'[i] = wire[i]
           /\ Carried' = IF f.type = "change" THEN Carried \cup {Len(wire) + 1} ELSE Carried
  <1>1. wire \in Seq(Frames) /\ Len(wire) \in Nat /\ DOMAIN wire = 1 .. Len(wire)
    BY DEF Types
  <1>2. /\ wire' \in Seq(Frames) /\ Len(wire') = Len(wire) + 1
        /\ wire'[Len(wire) + 1] = f /\ \A i \in 1 .. Len(wire) : wire'[i] = wire[i]
    BY <1>1, AppendFacts
  <1>3. DOMAIN wire' = 1 .. (Len(wire) + 1)
    BY <1>2
  <1>4. Carried' = IF f.type = "change" THEN Carried \cup {Len(wire) + 1} ELSE Carried
    BY <1>1, <1>2, <1>3 DEF Carried
  <1> QED
    BY <1>1, <1>2, <1>3, <1>4

LEMMA LagOrder ==
    ASSUME OrderInv, conn.phase = "live",
           receiver' = [receiver EXCEPT !.lagged = <<>>],
           wire' = Append(wire, LaggedFrame(receiver.lagged)),
           UNCHANGED <<writer, conn, adapter, history>>
    PROVE  OrderInv'
  <1> USE DEF OrderInv
  <1>a. UNCHANGED <<oplog, pending, sweeping, conn, cursor, ring, dropped,
                    polled, given, reported, first, last>>
    BY DEF writer, adapter, history
  <1>b. /\ receiver.lagged \in Seq(Event) /\ receiver'.queue = receiver.queue
        /\ receiver'.lagged = <<>> /\ receiver' \in [queue : Seq(Event), lagged : Seq(Event)]
    <2>1. receiver \in [queue : Seq(Event), lagged : Seq(Event)] /\ <<>> \in Seq(Event)
      BY DEF Types
    <2> QED
      BY <2>1
  <1>c. PICK f : f = LaggedFrame(receiver.lagged)
    OBVIOUS
  <1>d. f \in Frames /\ f.type = "lagged" /\ f.events = receiver.lagged
    BY <1>b, <1>c DEF Frames, LaggedFrame
  <1>e. /\ wire' \in Seq(Frames) /\ Len(wire) \in Nat /\ DOMAIN wire = 1 .. Len(wire)
        /\ DOMAIN wire' = 1 .. (Len(wire) + 1)
        /\ wire'[Len(wire) + 1] = f /\ \A i \in 1 .. Len(wire) : wire'[i] = wire[i]
        /\ Carried' = Carried
    BY <1>c, <1>d, WireAppend
  <1>f. Types'
    BY <1>a, <1>b, <1>e DEF Types
  <1>g. /\ Range(pending') = Range(pending) /\ Range(receiver'.queue) = Range(receiver.queue)
        /\ Published' \subseteq Published
        /\ \A e : (Told(e)' <=> Told(e)) /\ (Fresh(e)' <=> Fresh(e)) /\ (Counts(e)' <=> Counts(e))
    BY <1>a, <1>b, EmptyRange DEF Published, Told, Fresh, Counts
  <1>h. /\ Carried \subseteq 1 .. Len(wire)
        /\ \A i \in DOMAIN wire' \ Carried :
              \/ i \in DOMAIN wire \ Carried /\ wire'[i] = wire[i]
              \/ i = Len(wire) + 1 /\ wire'[i].events = receiver.lagged
    BY <1>d, <1>e DEF Carried
  <1>1. Truthful'
    BY <1>e, <1>g, <1>h DEF Truthful, Published
  <1>2. PublishedInOrder'
    BY <1>a, <1>b DEF PublishedInOrder, Ordered, Before
  <1>3. WireInOrder'
    <2>1. \A i, j \in Carried :
              i < j /\ Counts(wire[j].event) => Before(wire[i].event, wire[j].event)
      BY DEF WireInOrder
    <2>2. \A i \in Carried : \A e \in Published : Fresh(e) => Before(wire[i].event, e)
      BY DEF WireInOrder
    <2>3. \A i \in Carried : \A j \in DOMAIN wire' \ Carried :
              i < j => \A e \in Range(wire'[j].events) : Fresh(e) => Before(wire[i].event, e)
      BY <1>h, <2>2 DEF WireInOrder, Published
    <2>4. \A i \in Carried : wire'[i] = wire[i]
      BY <1>e, <1>h
    <2>5. \A d, e : Before(d, e)' <=> Before(d, e)
      BY DEF Before
    <2> QED
      BY <1>e, <1>g, <2>1, <2>2, <2>3, <2>4, <2>5 DEF WireInOrder
  <1>4. LastIsBehind'
    BY <1>a, <1>e, <1>g, <1>h DEF LastIsBehind
  <1>5. Phase'
    BY <1>a, <1>g DEF Phase
  <1> QED
    BY <1>f, <1>1, <1>2, <1>3, <1>4, <1>5

LEMMA ForwardOrder ==
    ASSUME OrderInv, conn.phase = "live", receiver.lagged = <<>>, receiver.queue # <<>>,
           receiver' = [receiver EXCEPT !.queue = Tail(@)],
           wire' = IF Head(receiver.queue).mine /\ Head(receiver.queue).seq > conn.replayedTo
                   THEN Append(wire, ChangeFrame(Head(receiver.queue))) ELSE wire,
           UNCHANGED <<writer, conn, adapter, history>>
    PROVE  OrderInv'
  <1> USE DEF OrderInv
  <1>a. UNCHANGED <<oplog, pending, sweeping, conn, cursor, ring, dropped,
                    polled, given, reported, first, last>>
    BY DEF writer, adapter, history
  <1>b. PICK h : h = Head(receiver.queue)
    OBVIOUS
  <1>c. /\ receiver.queue \in Seq(Event) /\ Tail(receiver.queue) \in Seq(Event) /\ h \in Event
        /\ Range(receiver.queue) = {h} \cup Range(Tail(receiver.queue))
        /\ Ordered(Tail(receiver.queue)) /\ \A e \in Range(Tail(receiver.queue)) : Before(h, e)
    <2>1. receiver.queue \in Seq(Event) /\ Ordered(receiver.queue)
      BY TypeFacts DEF PublishedInOrder
    <2> QED
      BY <1>b, <2>1, TailFacts, OrderedTail
  <1>d. /\ receiver'.queue = Tail(receiver.queue) /\ receiver'.lagged = <<>>
        /\ receiver' \in [queue : Seq(Event), lagged : Seq(Event)]
    BY <1>c DEF Types
  <1>e. Range(receiver'.queue) \subseteq Range(receiver.queue) /\ Published' \subseteq Published
    BY <1>a, <1>c, <1>d DEF Published
  <1>f. PublishedInOrder'
    BY <1>a, <1>c, <1>d DEF PublishedInOrder, Ordered, Before
  <1>1. CASE ~(h.mine /\ h.seq > conn.replayedTo)
    <2>1. wire' = wire
      BY <1>1, <1>b
    <2>2. Types'
      BY <1>a, <1>d, <2>1 DEF Types
    <2>3. Truthful' /\ WireInOrder'
      <3>1. Carried' = Carried /\ \A e : Told(e)' = Told(e) /\ Fresh(e)' = Fresh(e)
        BY ONLY <1>a, <2>1 DEF Told, Carried, Fresh
      <3>2. Truthful'
        BY ONLY <1>e, <2>1, <3>1, Truthful DEF Truthful
      <3>3. /\ \A i \in Carried' : \A e \in Published' : Fresh(e)' => Before(wire'[i].event, e)
            /\ \A i \in Carried' : \A j \in DOMAIN wire' \ Carried' :
                  i < j => \A e \in Range(wire'[j].events) : Fresh(e)' => Before(wire'[i].event, e)
        BY ONLY <1>e, <2>1, <3>1, WireInOrder DEF WireInOrder
      <3>4. \A i, j \in Carried' :
               i < j /\ Counts(wire[j].event)' => Before(wire'[i].event, wire'[j].event)
        BY ONLY <1>a, <2>1, <3>1, WireInOrder DEF WireInOrder, Counts
      <3>5. WireInOrder'
        BY ONLY <2>1, <3>3, <3>4 DEF WireInOrder, Before
      <3> QED BY <3>2, <3>5
    <2>4. LastIsBehind' /\ Phase'
      BY <1>a, <1>e, <2>1 DEF LastIsBehind, Phase, Carried, Fresh, Counts
    <2> QED
      BY <1>f, <2>2, <2>3, <2>4
  <1>2. CASE h.mine /\ h.seq > conn.replayedTo
    <2>1. PICK f : f = ChangeFrame(h)
      OBVIOUS
    <2>2. f \in Frames /\ f.type = "change" /\ f.event = h
      BY <1>c, <2>1 DEF Frames, ChangeFrame
    <2>3. wire' = Append(wire, f)
      BY <1>b, <1>2, <2>1
    <2>4. /\ wire' \in Seq(Frames) /\ Len(wire) \in Nat /\ DOMAIN wire = 1 .. Len(wire)
          /\ DOMAIN wire' = 1 .. (Len(wire) + 1)
          /\ wire'[Len(wire) + 1] = f /\ \A i \in 1 .. Len(wire) : wire'[i] = wire[i]
          /\ Carried' = Carried \cup {Len(wire) + 1}
      BY <2>2, <2>3, WireAppend
    <2>5. Types'
      BY <1>a, <1>d, <2>4 DEF Types
    <2>6. /\ Carried \subseteq 1 .. Len(wire) /\ (DOMAIN wire') \ Carried' = DOMAIN wire \ Carried
          /\ \A i \in DOMAIN wire : wire'[i] = wire[i]
      BY <2>4 DEF Carried
    <2>7. \A e : (Told(e)' <=> Told(e)) /\ (Fresh(e)' <=> Fresh(e)) /\ (Counts(e)' <=> Counts(e))
      BY <1>a DEF Told, Fresh, Counts
    <2>8. Counts(h) => Fresh(h)
      BY <1>2, <1>c DEF Phase
    <2>9. h \in Published /\ \A e \in Published' : Before(h, e)
      BY <1>a, <1>c, <1>d, EmptyRange DEF Published, PublishedInOrder
    <2>10. Truthful'
      BY <1>2, <1>e, <2>2, <2>4, <2>6, <2>7, <2>9 DEF Truthful
    <2>11. WireInOrder'
      <3>1. ASSUME NEW i \in Carried', NEW j \in Carried', i < j, Counts(wire'[j].event)
            PROVE  Before(wire'[i].event, wire'[j].event)
        <4>1. i \in Carried /\ wire'[i] = wire[i]
          BY <2>4, <2>6, <3>1
        <4>2. CASE j \in Carried
          BY <2>4, <2>6, <3>1, <4>1, <4>2 DEF WireInOrder
        <4>3. CASE j = Len(wire) + 1
          BY <2>2, <2>4, <2>8, <2>9, <3>1, <4>1, <4>3 DEF WireInOrder
        <4> QED
          BY <2>4, <3>1, <4>2, <4>3
      <3>2. ASSUME NEW i \in Carried', NEW e \in Published', Fresh(e)
            PROVE  Before(wire'[i].event, e)
        BY <1>e, <2>2, <2>4, <2>6, <2>9, <3>2 DEF WireInOrder
      <3>3. ASSUME NEW i \in Carried', NEW j \in DOMAIN wire \ Carried, i < j,
                   NEW e \in Range(wire[j].events), Fresh(e)
            PROVE  Before(wire'[i].event, e)
        BY <2>4, <2>6, <3>3 DEF WireInOrder
      <3> QED
        BY <2>6, <2>7, <3>1, <3>2, <3>3 DEF WireInOrder, Before
    <2>12. LastIsBehind'
      <3>1. h.row # 0 /\ Counts(h) => last < h.row
        BY <1>c, <2>8 DEF LastIsBehind
      <3>2. \A i \in Carried' : wire'[i].event.row # 0 /\ Counts(wire'[i].event)
                => last < wire'[i].event.row
        BY <2>2, <2>4, <2>6, <3>1 DEF LastIsBehind
      <3> QED
        BY <1>a, <1>e, <2>7, <3>2 DEF LastIsBehind
    <2>13. Phase'
      BY <1>a, <1>e, <2>7 DEF Phase
    <2> QED
      BY <1>f, <2>5, <2>10, <2>11, <2>12, <2>13
  <1> QED
    BY <1>1, <1>2

LEMMA StreamOrder ==
    ASSUME OrderInv, stream_changes
    PROVE  OrderInv'
  BY LagOrder, ForwardOrder DEF stream_changes

\* The frame at the head of the wire is taken off.
LEMMA WireTail ==
    ASSUME Types, wire # <<>>, wire' = Tail(wire)
    PROVE  /\ wire' \in Seq(Frames) /\ Len(wire) \in Nat /\ DOMAIN wire = 1 .. Len(wire)
           /\ 1 \in DOMAIN wire /\ Head(wire) = wire[1] /\ Head(wire) \in Frames
           /\ DOMAIN wire' = 1 .. (Len(wire) - 1)
           /\ \A i \in DOMAIN wire' : /\ i + 1 \in DOMAIN wire /\ 1 < i + 1
                                      /\ wire'[i] = wire[i + 1]
                                      /\ i \in Carried' <=> i + 1 \in Carried
  <1>1. wire \in Seq(Frames) /\ Len(wire) \in Nat /\ DOMAIN wire = 1 .. Len(wire)
    BY DEF Types
  <1>2. /\ wire' \in Seq(Frames) /\ Len(wire') = Len(wire) - 1 /\ Len(wire) > 0
        /\ Head(wire) = wire[1] /\ Head(wire) \in Frames
        /\ \A i \in 1 .. Len(wire) - 1 : wire'[i] = wire[i + 1]
    BY <1>1, TailFacts
  <1>3. DOMAIN wire' = 1 .. (Len(wire) - 1)
    BY <1>1, <1>2
  <1> QED
    BY <1>1, <1>2, <1>3 DEF Carried

\* A frame is read: what is left is in order, and behind what was read.
LEMMA ReadOrder ==
    ASSUME OrderInv, wire # <<>>, wire' = Tail(wire), Types',
           cursor' <= Len(oplog),
           \/ last' = last
           \/ 1 \in Carried /\ last' = Larger(last, wire[1].event.row),
           UNCHANGED <<oplog, pending, sweeping, receiver, conn>>
    PROVE  OrderInv'
  <1> USE DEF OrderInv
  <1>a. /\ DOMAIN wire = 1 .. Len(wire) /\ 1 \in DOMAIN wire
        /\ \A i \in DOMAIN wire' : /\ i + 1 \in DOMAIN wire /\ 1 < i + 1
                                   /\ wire'[i] = wire[i + 1]
                                   /\ i \in Carried' <=> i + 1 \in Carried
        /\ \A i \in DOMAIN wire' : i \in Nat
    BY WireTail
  <1>b. /\ \A e : (Told(e)' <=> Told(e)) /\ (Fresh(e)' <=> Fresh(e)) /\ (Counts(e)' <=> Counts(e))
        /\ Published' = Published /\ Carried' \subseteq DOMAIN wire'
    BY DEF Told, Fresh, Counts, Published, Carried
  <1>c. \A d, e : Before(d, e)' <=> Before(d, e)
    BY DEF Before
  <1>d. /\ last \in Nat /\ last' \in Nat /\ Len(oplog) \in Nat /\ conn.replayedTo \in Nat
        /\ Published \subseteq Event /\ \A i \in Carried : wire[i].event \in Event
    <2>1. last' \in Nat
      BY BoundsAssumption DEF Types
    <2> QED
      BY <2>1, TypeFacts
  <1>1. Truthful'
    BY <1>a, <1>b DEF Truthful
  <1>2. PublishedInOrder'
    BY <1>c DEF PublishedInOrder, Ordered
  <1>3. WireInOrder'
    <2>1. ASSUME NEW i \in Carried', NEW j \in Carried', i < j, Counts(wire'[j].event)
          PROVE  Before(wire'[i].event, wire'[j].event)
      <3>1. /\ i + 1 \in Carried /\ j + 1 \in Carried /\ i + 1 < j + 1
            /\ wire'[i] = wire[i + 1] /\ wire'[j] = wire[j + 1]
        BY <1>a, <1>b, <2>1
      <3> QED
        BY <2>1, <3>1 DEF WireInOrder
    <2>2. ASSUME NEW i \in Carried', NEW e \in Published, Fresh(e)
          PROVE  Before(wire'[i].event, e)
      BY <1>a, <1>b, <2>2 DEF WireInOrder
    <2>3. ASSUME NEW i \in Carried', NEW j \in (DOMAIN wire') \ Carried', i < j,
                 NEW e \in Range(wire'[j].events), Fresh(e)
          PROVE  Before(wire'[i].event, e)
      <3>1. /\ i + 1 \in Carried /\ j + 1 \in DOMAIN wire \ Carried /\ i + 1 < j + 1
            /\ wire'[i] = wire[i + 1] /\ wire'[j] = wire[j + 1]
        BY <1>a, <1>b, <2>3
      <3> QED
        BY <2>3, <3>1 DEF WireInOrder
    <2> QED
      BY <1>b, <1>c, <2>1, <2>2, <2>3 DEF WireInOrder
  <1>4. LastIsBehind'
    <2> SUFFICES ASSUME conn.phase # "closed" PROVE LastIsBehind'
      BY DEF LastIsBehind
    <2>1. ASSUME NEW i \in Carried', wire'[i].event.row # 0, Counts(wire'[i].event)
          PROVE  last' < wire'[i].event.row
      <3>1. i + 1 \in Carried /\ wire'[i] = wire[i + 1] /\ 1 < i + 1
        BY <1>a, <1>b, <2>1
      <3>2. last < wire[i + 1].event.row
        BY <2>1, <3>1 DEF LastIsBehind
      <3>3. 1 \in Carried => wire[1].event.row < wire[i + 1].event.row
        BY <2>1, <3>1 DEF WireInOrder, Before
      <3> QED
        BY <3>1, <3>2, <3>3 DEF Larger
    <2>2. ASSUME NEW e \in Range(pending) \cup Range(receiver.queue), Fresh(e), e.row # 0
          PROVE  last' < e.row
      <3>1. last < e.row
        BY <2>2 DEF LastIsBehind
      <3>2. 1 \in Carried => wire[1].event.row < e.row
        BY <2>2 DEF WireInOrder, Before, Published
      <3> QED
        BY <3>1, <3>2 DEF Larger
    <2> QED
      BY <1>b, <2>1, <2>2 DEF LastIsBehind
  <1>5. Phase'
    <2>1. 1 \in Carried => wire[1].event.row <= Len(oplog) /\ wire[1].event.row <= wire[1].event.seq
      BY <1>d, EventFields DEF Truthful, Told
    <2>2. last' <= Len(oplog)
      BY <1>d, <2>1 DEF Phase, Larger
    <2>3. CASE conn.phase = "closed"
      BY <2>3 DEF Phase
    <2>4. CASE conn.phase = "replay"
      <3>1. 1 \in Carried => wire[1].event.seq <= conn.replayedTo
        BY <2>4 DEF Phase
      <3>2. last' <= conn.replayedTo
        BY <1>d, <2>1, <2>4, <3>1, EventFields DEF Phase, Larger
      <3>3. \A i \in DOMAIN wire' : i \in Carried' /\ wire'[i].event.seq <= conn.replayedTo
        BY <1>a, <2>4 DEF Phase
      <3> QED
        BY <2>2, <2>4, <3>2, <3>3 DEF Phase
    <2>5. CASE conn.phase = "live"
      BY <1>b, <2>2, <2>5 DEF Phase
    <2>6. conn.phase \in {"closed", "replay", "live"}
      BY DEF Types
    <2> QED
      BY <2>3, <2>4, <2>5, <2>6
  <1> QED
    BY <1>1, <1>2, <1>3, <1>4, <1>5

\* ChangeBuffer::push keeps the ring and the counts well formed.
LEMMA PushTypes ==
    ASSUME Types, NEW e \in Event, Push(e)
    PROVE  ring' \in Seq(Event) /\ dropped' \in Nat /\ given' \subseteq 1 .. MaxSeq
  <1>1. /\ ring \in Seq(Event) /\ Len(ring) \in Nat /\ dropped \in Nat /\ given \subseteq 1 .. MaxSeq
        /\ RingCapacity \in Nat \ {0}
    BY BoundsAssumption DEF Types
  <1>2. CASE Len(ring) >= RingCapacity
    <2>1. ring # <<>>
      BY <1>1, <1>2
    <2>2. Tail(ring) \in Seq(Event) /\ Head(ring) \in Event
      BY <1>1, <2>1, TailFacts
    <2>3. <<Head(ring)>> \in Seq(Event)
      BY <2>2
    <2>4. RowsOf(<<Head(ring)>>) \subseteq 1 .. MaxSeq
      BY <2>3, RowsOfType
    <2>5. /\ ring' = Append(Tail(ring), e) /\ dropped' = dropped + 1
          /\ given' = given \cup RowsOf(<<Head(ring)>>)
      BY <1>2 DEF Push
    <2>6. Append(Tail(ring), e) \in Seq(Event)
      BY <2>2, AppendFacts
    <2>7. ring' \in Seq(Event)
      BY <2>5, <2>6, Zenon
    <2>8. dropped' \in Nat
      BY <1>1, <2>5
    <2>9. given' \subseteq 1 .. MaxSeq
      BY <1>1, <2>4, <2>5, Zenon
    <2> QED
      BY <2>7, <2>8, <2>9
  <1>3. CASE ~(Len(ring) >= RingCapacity)
    <2>1. ring' = Append(ring, e) /\ dropped' = dropped /\ given' = given
      BY <1>3 DEF Push
    <2>2. Append(ring, e) \in Seq(Event)
      BY <1>1, AppendFacts
    <2> QED
      BY <1>1, <2>1, <2>2
  <1> QED
    BY <1>2, <1>3

LEMMA PumpOrder ==
    ASSUME OrderInv, pump_changes
    PROVE  OrderInv'
  <1>a. Types /\ wire # <<>> /\ wire' = Tail(wire)
    BY DEF OrderInv, pump_changes
  <1>b. /\ wire' \in Seq(Frames) /\ 1 \in DOMAIN wire /\ Head(wire) = wire[1]
        /\ Head(wire) \in Frames
    BY <1>a, WireTail
  <1>c. UNCHANGED <<oplog, pending, sweeping, receiver, conn, polled, reported>>
    BY DEF pump_changes, writer
  <1>d. cursor \in Nat /\ cursor <= Len(oplog) /\ cursor \in 0 .. MaxSeq
    BY <1>a DEF OrderInv, Phase, Types
  <1>1. CASE wire[1].type = "change"
    <2>1. PICK e : e = wire[1].event
      OBVIOUS
    <2>2. 1 \in Carried /\ e \in Event /\ Told(e)
      BY <1>a, <1>b, <1>1, <2>1, TypeFacts DEF Carried, OrderInv, Truthful
    <2>3. /\ cursor' = Larger(cursor, e.seq) /\ first' = (IF first = 0 THEN e.seq ELSE first)
          /\ last' = Larger(last, e.row) /\ Push(e)
      BY <1>b, <1>1, <2>1 DEF pump_changes
    <2>4. e.seq \in 1 .. MaxSeq /\ e.row \in 0 .. MaxSeq /\ e.seq <= Len(oplog)
      BY <2>2 DEF Event, Told
    <2>5. /\ cursor' \in 0 .. MaxSeq /\ cursor' <= Len(oplog)
          /\ first' \in 0 .. MaxSeq /\ last' \in 0 .. MaxSeq
      BY <1>a, <1>d, <2>3, <2>4 DEF Types, Larger
    <2>6. Types'
      BY <1>a, <1>b, <1>c, <2>2, <2>3, <2>5, PushTypes DEF Types
    <2> QED
      BY <1>a, <1>c, <2>1, <2>2, <2>3, <2>5, <2>6, ReadOrder
  <1>2. CASE wire[1].type # "change"
    <2>1. PICK es : es = wire[1].events
      OBVIOUS
    <2>2. es \in Seq(Event)
      BY <1>b, <1>2, <2>1 DEF Frames
    <2>3. /\ dropped' = dropped + Len(es) /\ given' = given \cup RowsOf(es)
          /\ UNCHANGED <<cursor, ring, first, last>>
      BY <1>b, <1>2, <2>1 DEF pump_changes
    <2>4. Types'
      <3>1. dropped' \in Nat
        BY <1>a, <2>2, <2>3 DEF Types
      <3>2. given' \subseteq 1 .. MaxSeq
        BY <1>a, <2>2, <2>3, RowsOfType DEF Types
      <3> QED
        BY <1>a, <1>b, <1>c, <2>3, <3>1, <3>2 DEF Types
    <2> QED
      BY <1>a, <1>c, <1>d, <2>3, <2>4, ReadOrder
  <1> QED
    BY <1>1, <1>2

-----------------------------------------------------------------------------
(* A page of the oplog *)

LEMMA AscendingFacts ==
    ASSUME NEW S, IsFiniteSet(S), NEW rows \in Ascending(S)
    PROVE  /\ rows \in Seq(S) /\ Len(rows) = Cardinality(S) /\ Len(rows) \in Nat
           /\ DOMAIN rows = 1 .. Len(rows) /\ Range(rows) = S
           /\ \A i \in DOMAIN rows : rows[i] \in S
           /\ \A i, j \in DOMAIN rows : i < j => rows[i] < rows[j]
  <1>1. Cardinality(S) \in Nat
    BY FS_CardinalityType
  <1>2. rows \in [1 .. Cardinality(S) -> S] /\ Range(rows) = S
        /\ \A i, j \in DOMAIN rows : i < j => rows[i] < rows[j]
    BY DEF Ascending
  <1>3. rows \in Seq(S) /\ Len(rows) = Cardinality(S)
    BY <1>1, <1>2
  <1> QED
    BY <1>1, <1>2, <1>3

\* The query reads every row of the namespace up to the last it returns, and when it
\* returns fewer than it may there are no more.
LEMMA PageFacts ==
    ASSUME Types, NEW after \in Nat
    PROVE  /\ IsFiniteSet(Page(after)) /\ Page(after) \subseteq (after + 1) .. Len(oplog)
           /\ \A s \in Page(after) : Present(s)
           /\ \A s \in Page(after) : \A r \in (after + 1) .. s : Present(r) => r \in Page(after)
           /\ Cardinality(Page(after)) < Batch =>
                 \A s \in (after + 1) .. Len(oplog) : Present(s) => s \in Page(after)
  <1> DEFINE Scan == {s \in (after + 1) .. Len(oplog) : Present(s)}
             Older(s) == {r \in Scan : r < s}
  <1>a. Len(oplog) \in Nat /\ Batch \in Nat
    BY TypeFacts, BoundsAssumption
  <1>b. IsFiniteSet(Scan)
    <2>1. IsFiniteSet((after + 1) .. Len(oplog))
      BY <1>a, FS_Interval
    <2> QED
      BY <2>1, FS_Subset
  <1>c. Page(after) = {s \in Scan : Cardinality(Older(s)) < Batch}
    BY DEF Page, Present
  <1>d. IsFiniteSet(Page(after)) /\ Page(after) \subseteq Scan
    BY <1>b, <1>c, FS_Subset
  <1>e. \A s : IsFiniteSet(Older(s)) /\ Cardinality(Older(s)) \in Nat
    BY <1>b, FS_Subset, FS_CardinalityType
  <1>1. ASSUME NEW s \in Page(after), NEW r \in (after + 1) .. s, Present(r)
        PROVE  r \in Page(after)
    <2>1. r \in Scan /\ s \in Scan /\ Cardinality(Older(s)) < Batch
      BY <1>a, <1>1, <1>c
    <2>2. Older(r) \in SUBSET Older(s)
      <3>1. r \in Nat /\ s \in Nat /\ r <= s /\ \A x \in Scan : x \in Nat
        BY <1>a, <2>1
      <3> QED
        BY <3>1
    <2>3. Cardinality(Older(r)) <= Cardinality(Older(s))
      BY <1>e, <2>2, FS_Subset
    <2>4. Cardinality(Older(r)) < Batch
      <3>1. PICK m, n : m = Cardinality(Older(r)) /\ n = Cardinality(Older(s))
        OBVIOUS
      <3>2. m \in Nat /\ n \in Nat
        BY <1>e, <3>1
      <3>3. m <= n /\ n < Batch
        BY <2>1, <2>3, <3>1
      <3>4. m < Batch
        BY <1>a, <3>2, <3>3
      <3> QED
        BY <3>1, <3>4
    <2> QED
      BY <1>c, <2>1, <2>4
  <1>2. ASSUME Cardinality(Page(after)) < Batch, NEW s \in (after + 1) .. Len(oplog), Present(s),
               s \notin Page(after)
        PROVE  FALSE
    <2> DEFINE Left == Scan \ Page(after)
    <2>1. Left # {} /\ Left \subseteq Nat
      BY <1>2, <1>a
    <2>2. PICK x \in Left : \A y \in Left : ~(<<y, x>> \in OpToRel(<, Nat))
      BY <2>1, NatLessThanWellFounded, WFMin
    <2>3. \A y \in Left : ~(y < x)
      BY <2>1, <2>2 DEF OpToRel
    <2>4. Older(x) \in SUBSET Page(after)
      BY <2>3
    <2>5. Cardinality(Older(x)) <= Cardinality(Page(after))
      BY <1>d, <2>4, FS_Subset
    <2>6. ~(Cardinality(Older(x)) < Batch)
      BY <1>c, <2>2
    <2>7. Cardinality(Page(after)) \in Nat
      BY <1>d, FS_CardinalityType
    <2>8. PICK m, n : m = Cardinality(Older(x)) /\ n = Cardinality(Page(after))
      OBVIOUS
    <2>9. m \in Nat /\ n \in Nat
      BY <1>e, <2>7, <2>8
    <2>10. m <= n /\ n < Batch /\ ~(m < Batch)
      BY <1>2, <2>5, <2>6, <2>8
    <2> QED
      BY <1>a, <2>9, <2>10
  <1> QED
    BY <1>d, <1>1, <1>2

\* What the replay knows after a page: the watermark
LEMMA ScanFacts ==
    ASSUME Types, NEW after \in Nat, after <= Len(oplog), NEW page \in Ascending(Page(after)),
           NEW t, t = LastScanned(page, after)
    PROVE  /\ t \in Nat /\ after <= t /\ t <= Len(oplog)
           /\ Range(page) = Page(after) /\ \A s \in Page(after) : s \in (after + 1) .. t
           /\ \A s \in (after + 1) .. t : Present(s) => s \in Page(after)
           /\ PageDone(page) => \A s \in (after + 1) .. Len(oplog) : Present(s) => s <= t
  <1>a. /\ IsFiniteSet(Page(after)) /\ Page(after) \subseteq (after + 1) .. Len(oplog)
        /\ Len(oplog) \in Nat
        /\ \A s \in Page(after) : \A r \in (after + 1) .. s : Present(r) => r \in Page(after)
        /\ Cardinality(Page(after)) < Batch =>
              \A s \in (after + 1) .. Len(oplog) : Present(s) => s \in Page(after)
    BY PageFacts, TypeFacts
  <1>b. /\ page \in Seq(Page(after)) /\ Len(page) = Cardinality(Page(after)) /\ Len(page) \in Nat
        /\ DOMAIN page = 1 .. Len(page) /\ Range(page) = Page(after)
        /\ \A i \in DOMAIN page : page[i] \in Page(after)
        /\ \A i, j \in DOMAIN page : i < j => page[i] < page[j]
    BY <1>a, AscendingFacts
  <1>1. CASE page = <<>>
    <2>1. t = after /\ Page(after) = {}
      BY <1>1, <1>b, EmptyRange DEF LastScanned
    <2>2. PageDone(page) => Cardinality(Page(after)) < Batch
      BY <1>b DEF PageDone
    <2> QED
      BY <1>a, <1>b, <2>1, <2>2
  <1>2. CASE page # <<>>
    <2>1. Len(page) \in DOMAIN page /\ t = page[Len(page)]
      BY <1>2, <1>b DEF LastScanned
    <2>2. t \in Page(after) /\ t \in (after + 1) .. Len(oplog)
      BY <1>a, <1>b, <2>1
    <2>3. ASSUME NEW s \in Page(after) PROVE s <= t
      <3>1. PICK i \in DOMAIN page : s = page[i]
        BY <1>b, <2>3 DEF Range
      <3>2. i = Len(page) \/ i < Len(page)
        BY <1>b, <3>1
      <3>3. s = t \/ s < t
        BY <1>b, <2>1, <3>1, <3>2
      <3> QED
        BY <1>a, <2>2, <2>3, <3>3
    <2>4. PageDone(page) => Cardinality(Page(after)) < Batch
      BY <1>b DEF PageDone
    <2>5. \A s \in (after + 1) .. t : Present(s) => s \in Page(after)
      BY <1>a, <2>2
    <2> QED
      BY <1>a, <1>b, <2>2, <2>3, <2>4, <2>5
  <1> QED
    BY <1>1, <1>2

\* The frames of a page: one for each row that is not a bulk row, in order
LEMMA ReplayedFacts ==
    ASSUME Types, NEW after \in Nat, NEW page \in Ascending(Page(after)),
           NEW rows \in Ascending(Listed(page))
    PROVE  /\ Replayed(rows) \in Seq(Frames) /\ Len(Replayed(rows)) = Len(rows)
           /\ DOMAIN rows = 1 .. Len(rows) /\ Len(rows) \in Nat
           /\ \A i \in 1 .. Len(rows) :
                 /\ rows[i] \in Page(after) /\ Replayed(rows)[i].type = "change"
                 /\ Replayed(rows)[i].event = [mine |-> TRUE, row |-> rows[i], seq |-> rows[i]]
           /\ \A i, j \in 1 .. Len(rows) : i < j => rows[i] < rows[j]
           /\ Range(rows) = {s \in Page(after) : oplog[s].kind # "bulk"}
  <1>a. /\ IsFiniteSet(Page(after)) /\ Page(after) \subseteq (after + 1) .. Len(oplog)
        /\ Len(oplog) \in Nat /\ Len(oplog) <= MaxSeq
    BY PageFacts, TypeFacts
  <1>b. Range(page) = Page(after)
    BY <1>a, AscendingFacts
  <1>c. Listed(page) = {s \in Page(after) : oplog[s].kind # "bulk"}
    BY <1>b DEF Listed
  <1>d. IsFiniteSet(Listed(page))
    BY <1>a, <1>c, FS_Subset
  <1>e. /\ rows \in Seq(Listed(page)) /\ DOMAIN rows = 1 .. Len(rows) /\ Len(rows) \in Nat
        /\ Range(rows) = Listed(page)
        /\ \A i \in DOMAIN rows : rows[i] \in Listed(page)
        /\ \A i, j \in DOMAIN rows : i < j => rows[i] < rows[j]
    BY <1>d, AscendingFacts
  <1>1. ASSUME NEW i \in 1 .. Len(rows)
        PROVE  /\ rows[i] \in Page(after)
               /\ ChangeFrame(OwnSeq(rows[i], TRUE, oplog)) \in Frames
               /\ ChangeFrame(OwnSeq(rows[i], TRUE, oplog)).type = "change"
               /\ ChangeFrame(OwnSeq(rows[i], TRUE, oplog)).event
                     = [mine |-> TRUE, row |-> rows[i], seq |-> rows[i]]
    <2>1. rows[i] \in Page(after)
      BY <1>c, <1>e
    <2>2. rows[i] \in 1 .. MaxSeq /\ MaxSeq \in Nat
      BY <1>a, <2>1, BoundsAssumption
    <2>3. OwnSeq(rows[i], TRUE, oplog) = [mine |-> TRUE, row |-> rows[i], seq |-> rows[i]]
      BY DEF OwnSeq
    <2>4. [mine |-> TRUE, row |-> rows[i], seq |-> rows[i]] \in Event
      BY <2>2 DEF Event
    <2> QED
      BY <2>1, <2>3, <2>4 DEF ChangeFrame, Frames
  <1>2. Replayed(rows) = [i \in 1 .. Len(rows) |-> ChangeFrame(OwnSeq(rows[i], TRUE, oplog))]
    BY DEF Replayed
  <1>3. Replayed(rows) \in Seq(Frames) /\ Len(Replayed(rows)) = Len(rows)
    <2>1. PICK n, f : n = Len(rows) /\ f = Replayed(rows)
      OBVIOUS
    <2>2. f \in [1 .. n -> Frames] /\ n \in Nat
      BY <1>1, <1>2, <1>e, <2>1
    <2>3. f \in Seq(Frames) /\ Len(f) = n
      BY <2>2
    <2> QED
      BY <2>1, <2>3
  <1> QED
    BY <1>1, <1>2, <1>3, <1>c, <1>e

LEMMA ConcatFacts ==
    ASSUME NEW S, NEW s \in Seq(S), NEW u \in Seq(S)
    PROVE  /\ s \o u \in Seq(S) /\ Len(s \o u) = Len(s) + Len(u)
           /\ Len(s) \in Nat /\ Len(u) \in Nat
           /\ \A i \in 1 .. Len(s) : (s \o u)[i] = s[i]
           /\ \A i \in (Len(s) + 1) .. (Len(s) + Len(u)) : (s \o u)[i] = u[i - Len(s)]
  OBVIOUS

\* What a step of the replay does: the m frames it puts behind the n on the wire tell of
\* the rows between the old watermark t0 and the new one, t; frame i tells of told[i].
ReplayEffect(t0, t, n, m, told) ==
    /\ t0 \in Nat /\ t \in Nat /\ n \in Nat /\ m \in Nat
    /\ t0 = conn.replayedTo /\ t = conn'.replayedTo
    /\ t0 <= t /\ t <= Len(oplog)
    /\ conn.after = t0 /\ conn'.after = t /\ conn'.failed = conn.failed
    /\ conn'.phase \in {"replay", "live"}
    /\ conn'.phase = "live" => \A s \in (t0 + 1) .. Len(oplog) : Present(s) => s <= t
    /\ wire' \in Seq(Frames) /\ DOMAIN wire = 1 .. n /\ DOMAIN wire' = 1 .. (n + m)
    /\ \A i \in 1 .. n : wire'[i] = wire[i]
    /\ \A i \in (n + 1) .. (n + m) :
          /\ told[i] \in (t0 + 1) .. t /\ wire'[i].type = "change" /\ oplog[told[i]].mine
          /\ wire'[i].event = [mine |-> TRUE, row |-> told[i], seq |-> told[i]]
    /\ \A i, j \in (n + 1) .. (n + m) : i < j => told[i] < told[j]
    /\ \A s \in (t0 + 1) .. t : Present(s) /\ oplog[s].kind # "bulk" =>
          \E i \in (n + 1) .. (n + m) : s = told[i]
    /\ UNCHANGED <<oplog, pending, sweeping, receiver, cursor, ring, dropped,
                   polled, given, reported, first, last>>
    /\ conn' \in [phase : {"closed", "replay", "live"}, after : 0 .. MaxSeq,
                  replayedTo : 0 .. MaxSeq, failed : BOOLEAN]

LEMMA ReplayStep ==
    ASSUME OrderInv, replay_page
    PROVE  \E t0, t, n, m, told : ReplayEffect(t0, t, n, m, told)
  <1>a. /\ Types /\ conn.phase = "replay" /\ conn.after = conn.replayedTo
        /\ conn.replayedTo \in Nat /\ conn.replayedTo <= Len(oplog)
        /\ Len(oplog) \in Nat /\ Len(oplog) <= MaxSeq
    BY TypeFacts DEF OrderInv, Phase, replay_page
  <1>1. PICK t0 : t0 = conn.replayedTo
    OBVIOUS
  <1>2. PICK page \in Ascending(Page(t0)) :
          /\ \E rows \in Ascending(Listed(page)) : wire' = wire \o Replayed(rows)
          /\ conn' = [conn EXCEPT !.phase = IF PageDone(page) THEN "live" ELSE "replay",
                                  !.after = LastScanned(page, conn.after),
                                  !.replayedTo = Watermark(page)]
    BY <1>a, <1>1 DEF replay_page
  <1>3. PICK rows \in Ascending(Listed(page)) : wire' = wire \o Replayed(rows)
    BY <1>2
  <1>4. PICK t : t = LastScanned(page, t0)
    OBVIOUS
  <1>5. /\ t0 \in Nat /\ t \in Nat /\ t0 <= t /\ t <= Len(oplog)
        /\ \A s \in Page(t0) : s \in (t0 + 1) .. t
        /\ \A s \in (t0 + 1) .. t : Present(s) => s \in Page(t0)
        /\ PageDone(page) => \A s \in (t0 + 1) .. Len(oplog) : Present(s) => s <= t
    BY <1>a, <1>1, <1>4, ScanFacts
  <1>6. Watermark(page) = t /\ LastScanned(page, conn.after) = t
    BY <1>a, <1>1, <1>4 DEF Watermark
  <1>7. /\ conn'.replayedTo = t /\ conn'.after = t /\ conn'.failed = conn.failed
        /\ conn'.phase = IF PageDone(page) THEN "live" ELSE "replay"
        /\ conn' \in [phase : {"closed", "replay", "live"}, after : 0 .. MaxSeq,
                      replayedTo : 0 .. MaxSeq, failed : BOOLEAN]
    <2>1. conn \in [phase : {"closed", "replay", "live"}, after : 0 .. MaxSeq,
                    replayedTo : 0 .. MaxSeq, failed : BOOLEAN] /\ t \in 0 .. MaxSeq
      BY <1>a, <1>5, BoundsAssumption DEF Types
    <2>2. PICK label : label = IF PageDone(page) THEN "live" ELSE "replay"
      OBVIOUS
    <2>3. label \in {"closed", "replay", "live"}
      BY <2>2
    <2>4. conn' = [conn EXCEPT !.phase = label, !.after = t, !.replayedTo = t]
      BY <1>2, <1>6, <2>2
    <2> QED
      BY <2>1, <2>2, <2>3, <2>4
  <1>8. PICK f, n, m : f = Replayed(rows) /\ n = Len(wire) /\ m = Len(rows)
    OBVIOUS
  <1>9. /\ f \in Seq(Frames) /\ Len(f) = m /\ m \in Nat /\ DOMAIN rows = 1 .. m
        /\ \A i \in 1 .. m :
              /\ rows[i] \in Page(t0) /\ f[i].type = "change"
              /\ f[i].event = [mine |-> TRUE, row |-> rows[i], seq |-> rows[i]]
        /\ \A i, j \in 1 .. m : i < j => rows[i] < rows[j]
        /\ Range(rows) = {s \in Page(t0) : oplog[s].kind # "bulk"}
    BY <1>a, <1>5, <1>8, ReplayedFacts
  <1>10. wire \in Seq(Frames) /\ n \in Nat /\ DOMAIN wire = 1 .. n
    BY <1>a, <1>8 DEF Types
  <1>11. /\ wire' \in Seq(Frames) /\ Len(wire') = n + m
         /\ \A i \in 1 .. n : wire'[i] = wire[i]
         /\ \A i \in (n + 1) .. (n + m) : wire'[i] = f[i - n]
    <2>1. wire' = wire \o f
      BY <1>3, <1>8
    <2>2. /\ wire \o f \in Seq(Frames) /\ Len(wire \o f) = Len(wire) + Len(f)
          /\ \A i \in 1 .. Len(wire) : (wire \o f)[i] = wire[i]
          /\ \A i \in (Len(wire) + 1) .. (Len(wire) + Len(f)) : (wire \o f)[i] = f[i - Len(wire)]
      BY <1>9, <1>10, ConcatFacts
    <2>3. Len(wire) = n /\ Len(f) = m
      BY <1>8, <1>9
    <2> QED
      BY <2>1, <2>2, <2>3, Zenon
  <1>12. DOMAIN wire' = 1 .. (n + m)
    BY <1>11
  <1>13. \A s \in Page(t0) : oplog[s].mine
    BY <1>a, <1>5, PageFacts DEF Present
  <1>14. PICK told : told = [i \in (n + 1) .. (n + m) |-> rows[i - n]]
    OBVIOUS
  <1>15. ASSUME NEW i \in (n + 1) .. (n + m)
         PROVE  /\ told[i] \in (t0 + 1) .. t /\ wire'[i].type = "change" /\ oplog[told[i]].mine
                /\ wire'[i].event = [mine |-> TRUE, row |-> told[i], seq |-> told[i]]
    <2>1. i - n \in 1 .. m /\ told[i] = rows[i - n]
      BY <1>9, <1>10, <1>14
    <2> QED
      BY <1>5, <1>9, <1>11, <1>13, <2>1
  <1>16. ASSUME NEW i \in (n + 1) .. (n + m), NEW j \in (n + 1) .. (n + m), i < j
         PROVE  told[i] < told[j]
    <2>1. i - n \in 1 .. m /\ j - n \in 1 .. m /\ i - n < j - n
          /\ told[i] = rows[i - n] /\ told[j] = rows[j - n]
      BY <1>9, <1>10, <1>14, <1>16
    <2> QED
      BY <1>9, <2>1
  <1>17. ASSUME NEW s \in (t0 + 1) .. t, Present(s), oplog[s].kind # "bulk"
         PROVE  \E i \in (n + 1) .. (n + m) : s = told[i]
    <2>1. s \in Range(rows)
      BY <1>5, <1>9, <1>17
    <2>2. PICK k \in 1 .. m : s = rows[k]
      BY <1>9, <2>1 DEF Range
    <2>3. k + n \in (n + 1) .. (n + m) /\ (k + n) - n = k
      BY <1>9, <1>10, <2>2
    <2>4. told[k + n] = rows[k]
      BY <1>14, <2>3
    <2> QED
      BY <2>2, <2>3, <2>4
  <1>18. UNCHANGED <<oplog, pending, sweeping, receiver, cursor, ring, dropped,
                     polled, given, reported, first, last>>
    BY DEF replay_page, writer, adapter, history
  <1>19. conn'.phase \in {"replay", "live"} /\ (conn'.phase = "live" => PageDone(page))
    BY <1>7
  <1>20. conn'.phase = "live" => \A s \in (t0 + 1) .. Len(oplog) : Present(s) => s <= t
    BY <1>5, <1>19
  <1>21. conn.after = t0 /\ t0 = conn.replayedTo /\ t = conn'.replayedTo
    BY <1>a, <1>1, <1>7
  <1>22. ReplayEffect(t0, t, n, m, told)
    BY <1>5, <1>7, <1>9, <1>10, <1>11, <1>12, <1>15, <1>16, <1>17, <1>18, <1>19, <1>20, <1>21
       DEF ReplayEffect
  <1> QED
    BY <1>22

LEMMA ReplayOrder ==
    ASSUME OrderInv, replay_page
    PROVE  OrderInv'
  <1> USE DEF OrderInv
  <1>0. PICK t0, t, n, m, told : ReplayEffect(t0, t, n, m, told)
    BY ReplayStep
  <1>a. /\ t0 \in Nat /\ t \in Nat /\ n \in Nat /\ m \in Nat
        /\ t0 = conn.replayedTo /\ t = conn'.replayedTo
        /\ t0 <= t /\ t <= Len(oplog)
        /\ conn.after = t0 /\ conn'.after = t /\ conn'.failed = conn.failed
        /\ conn'.phase \in {"replay", "live"}
        /\ conn'.phase = "live" => \A s \in (t0 + 1) .. Len(oplog) : Present(s) => s <= t
        /\ wire' \in Seq(Frames) /\ DOMAIN wire = 1 .. n /\ DOMAIN wire' = 1 .. (n + m)
        /\ \A i \in 1 .. n : wire'[i] = wire[i]
        /\ \A i \in (n + 1) .. (n + m) :
              /\ told[i] \in (t0 + 1) .. t /\ wire'[i].type = "change" /\ oplog[told[i]].mine
              /\ wire'[i].event = [mine |-> TRUE, row |-> told[i], seq |-> told[i]]
        /\ \A i, j \in (n + 1) .. (n + m) : i < j => told[i] < told[j]
        /\ UNCHANGED <<oplog, pending, sweeping, receiver, cursor, ring, dropped,
                       polled, given, reported, first, last>>
        /\ conn' \in [phase : {"closed", "replay", "live"}, after : 0 .. MaxSeq,
                      replayedTo : 0 .. MaxSeq, failed : BOOLEAN]
    BY <1>0 DEF ReplayEffect
  <1>b. Types'
    BY <1>a DEF Types
  <1>c. /\ conn.phase = "replay" /\ last <= t0 /\ last \in Nat /\ Len(oplog) \in Nat
        /\ \A i \in 1 .. n : i \in Carried /\ wire[i].event.seq <= t0
    BY <1>a, TypeFacts DEF replay_page, Phase
  <1>d. Carried = 1 .. n /\ Carried' = 1 .. (n + m)
    <2>1. \A i \in 1 .. n : wire'[i].type = "change"
      BY <1>a, <1>c DEF Carried
    <2>2. \A i \in 1 .. (n + m) : i \in 1 .. n \/ i \in (n + 1) .. (n + m)
      BY <1>a
    <2> QED
      BY <1>a, <1>c, <2>1, <2>2 DEF Carried
  <1>e. ASSUME NEW i \in Carried'
        PROVE  /\ wire'[i].event \in Event /\ Told(wire'[i].event) /\ wire'[i].event.mine
               /\ wire'[i].event.seq <= t /\ wire'[i].event.row <= wire'[i].event.seq
               /\ i \in 1 .. n =>
                     wire'[i] = wire[i] /\ i \in Carried /\ wire'[i].event.seq <= t0
               /\ i \notin 1 .. n =>
                     /\ i \in (n + 1) .. (n + m)
                     /\ wire'[i].event.row = told[i] /\ wire'[i].event.seq = told[i]
                     /\ told[i] \in (t0 + 1) .. t
               /\ wire'[i].event.seq \in Nat /\ wire'[i].event.row \in Nat
    <2>1. CASE i \in 1 .. n
      <3>1. wire'[i] = wire[i] /\ i \in Carried /\ wire'[i].event.seq <= t0
        BY <1>a, <1>c, <2>1
      <3>2. wire[i].event \in Event /\ Told(wire[i].event) /\ wire[i].event.mine
        BY <3>1, TypeFacts DEF Truthful
      <3>3. /\ wire[i].event.seq \in Nat /\ wire[i].event.row \in Nat
            /\ wire[i].event.row <= wire[i].event.seq
        BY <3>2, EventFields DEF Told
      <3> QED
        BY <1>a, <2>1, <3>1, <3>2, <3>3
    <2>2. CASE i \notin 1 .. n
      <3>1. i \in (n + 1) .. (n + m)
        BY <1>a, <1>d, <2>2
      <3>2. PICK r : r = told[i]
        OBVIOUS
      <3>3. r \in (t0 + 1) .. t /\ oplog[r].mine
            /\ wire'[i].event = [mine |-> TRUE, row |-> r, seq |-> r]
        BY <1>a, <3>1, <3>2
      <3>4. wire'[i].event \in Event
        BY <1>a, <3>3, BoundsAssumption DEF Event, Types
      <3>5. oplog[r].mine = TRUE
        <4>1. r \in 1 .. Len(oplog) /\ oplog \in Seq(Row)
          BY <1>a, <1>c, <3>3, TypeFacts
        <4>2. oplog[r] \in Row
          BY <4>1
        <4> QED
          BY <3>3, <4>2 DEF Row
      <3>6. /\ wire'[i].event.mine = TRUE /\ wire'[i].event.row = r /\ wire'[i].event.seq = r
            /\ r \in Nat /\ r <= t /\ r <= Len(oplog)
        BY <1>a, <1>c, <3>3
      <3>7. Told(wire'[i].event)
        <4>1. PICK e : e = wire'[i].event
          OBVIOUS
        <4>2. e.mine = TRUE /\ e.row = r /\ e.seq = r
          BY <3>6, <4>1
        <4>3. oplog[e.row].mine = e.mine /\ oplog[e.seq].mine = e.mine
          BY <3>5, <4>2, Zenon
        <4>4. e.seq <= Len(oplog) /\ e.row <= e.seq
          BY <3>6, <4>2
        <4>5. Told(e)
          BY <4>2, <4>3, <4>4, Zenon DEF Told
        <4> QED
          BY <4>1, <4>5, Zenon
      <3> QED
        BY <2>2, <3>1, <3>2, <3>3, <3>4, <3>6, <3>7
    <2> QED
      BY <2>1, <2>2
  <1>f. /\ \A e : (Told(e)' <=> Told(e)) /\ (Counts(e)' <=> Counts(e))
        /\ \A e : Fresh(e)' <=> (e.mine /\ e.seq > t /\ (e.row # 0 => e.row > t))
        /\ Published' = Published /\ Published \subseteq Event
    BY <1>a, TypeFacts DEF Told, Counts, Fresh, Published
  <1>g. (DOMAIN wire') \ Carried' = {}
    BY <1>a, <1>d
  <1>h. \A d, e : Before(d, e)' <=> Before(d, e)
    BY DEF Before
  <1>1. Truthful'
    BY <1>e, <1>f, <1>g DEF Truthful
  <1>2. PublishedInOrder'
    BY <1>a DEF PublishedInOrder, Ordered, Before
  <1>3. WireInOrder'
    <2>1. ASSUME NEW i \in Carried', NEW j \in Carried', i < j, Counts(wire'[j].event)
          PROVE  Before(wire'[i].event, wire'[j].event)
      <3>1. CASE j \in 1 .. n
        <4>1. i \in 1 .. n
          BY <1>a, <1>d, <2>1, <3>1
        <4> QED
          BY <1>e, <2>1, <3>1, <4>1 DEF WireInOrder
      <3>2. CASE i \in 1 .. n /\ j \notin 1 .. n
        <4>1. /\ wire'[i].event.seq <= t0 /\ wire'[i].event.row <= wire'[i].event.seq
              /\ wire'[i].event.seq \in Nat /\ wire'[i].event.row \in Nat
          BY <1>e, <3>2
        <4>2. /\ wire'[j].event.row = told[j] /\ wire'[j].event.seq = told[j]
              /\ told[j] \in Nat /\ told[j] > t0
          BY <1>a, <1>e, <3>2
        <4> QED
          BY <1>a, <4>1, <4>2 DEF Before
      <3>3. CASE i \notin 1 .. n /\ j \notin 1 .. n
        <4>1. /\ wire'[i].event.row = told[i] /\ wire'[i].event.seq = told[i] /\ told[i] \in Nat
              /\ i \in (n + 1) .. (n + m)
          BY <1>a, <1>e, <3>3
        <4>2. /\ wire'[j].event.row = told[j] /\ wire'[j].event.seq = told[j] /\ told[j] \in Nat
              /\ j \in (n + 1) .. (n + m)
          BY <1>a, <1>e, <3>3
        <4>3. told[i] < told[j]
          BY <1>a, <2>1, <4>1, <4>2
        <4> QED
          BY <4>1, <4>2, <4>3 DEF Before
      <3> QED
        BY <3>1, <3>2, <3>3
    <2>2. ASSUME NEW i \in Carried', NEW e \in Published, Fresh(e)'
          PROVE  Before(wire'[i].event, e)
      BY <1>a, <1>e, <1>f, <2>2, EventFields DEF Before
    <2> QED
      BY <1>f, <1>g, <1>h, <2>1, <2>2 DEF WireInOrder
  <1>4. LastIsBehind'
    <2>1. ASSUME NEW i \in Carried', wire'[i].event.row # 0, Counts(wire'[i].event)
          PROVE  last < wire'[i].event.row
      <3>1. CASE i \in 1 .. n
        BY <1>c, <1>e, <2>1, <3>1 DEF LastIsBehind
      <3>2. CASE i \notin 1 .. n
        <4>1. wire'[i].event.row = told[i] /\ told[i] \in (t0 + 1) .. t
          BY <1>e, <3>2
        <4> QED
          BY <1>a, <1>c, <4>1
      <3> QED
        BY <3>1, <3>2
    <2>2. ASSUME NEW e \in Range(pending) \cup Range(receiver.queue), Fresh(e)', e.row # 0
          PROVE  last < e.row
      <3>1. e \in Event /\ e.row > t
        BY <1>f, <2>2 DEF Published
      <3> QED
        BY <1>a, <1>c, <3>1, EventFields
    <2> QED
      BY <1>a, <1>f, <2>1, <2>2 DEF LastIsBehind
  <1>5. Phase'
    <2>1. ASSUME conn'.phase = "live", NEW e \in Range(pending) \cup Range(receiver.queue),
                 e.mine, e.seq > t, Counts(e)
          PROVE  Fresh(e)'
      <3>1. e \in Event /\ Told(e) /\ e.seq \in Nat
        BY <1>f, <2>1, EventFields DEF Published, Truthful
      <3>2. CASE e.row = 0
        BY <1>f, <2>1, <3>2
      <3>3. CASE e.row # 0
        <4>1. /\ e.seq <= Len(oplog) /\ oplog[e.seq].mine = e.mine
              /\ e.row = e.seq \/ oplog[e.seq].by = 0
          BY <3>1, <3>3 DEF Told
        <4>2. CASE e.row = e.seq
          BY <1>f, <2>1, <4>2
        <4>3. CASE oplog[e.seq].by = 0
          <5>1. e.seq \in (t0 + 1) .. Len(oplog) /\ Present(e.seq)
            BY <1>a, <1>c, <2>1, <3>1, <4>1, <4>3 DEF Present
          <5>2. e.seq <= t
            BY <1>a, <2>1, <5>1
          <5> QED
            BY <1>a, <2>1, <3>1, <5>2
        <4> QED
          BY <4>1, <4>2, <4>3
      <3> QED
        BY <3>2, <3>3
    <2>2. last <= t
      BY <1>a, <1>c
    <2>3. conn'.phase = "replay" =>
             \A i \in DOMAIN wire' : i \in Carried' /\ wire'[i].event.seq <= t
      BY <1>a, <1>d, <1>e
    <2>4. cursor <= Len(oplog) /\ last <= Len(oplog)
      BY DEF Phase
    <2> QED
      BY <1>a, <1>f, <2>1, <2>2, <2>3, <2>4 DEF Phase
  <1> QED
    BY <1>b, <1>1, <1>2, <1>3, <1>4, <1>5


LEMMA InitOrder == Init => OrderInv
  <1> SUFFICES ASSUME Init PROVE OrderInv
    OBVIOUS
  <1>1. /\ oplog = <<>> /\ pending = <<>> /\ sweeping = FALSE
        /\ receiver = NoReceiver /\ conn = NoConn /\ wire = <<>>
        /\ cursor = 0 /\ ring = <<>> /\ dropped = 0
        /\ polled = {} /\ given = {} /\ reported = 0 /\ first = 0 /\ last = 0
    BY DEF Init
  <1>2. /\ receiver.queue = <<>> /\ receiver.lagged = <<>>
        /\ receiver \in [queue : Seq(Event), lagged : Seq(Event)]
        /\ conn.phase = "closed" /\ conn.replayedTo = 0
        /\ conn \in [phase : {"closed", "replay", "live"}, after : 0 .. MaxSeq,
                     replayedTo : 0 .. MaxSeq, failed : BOOLEAN]
    BY <1>1, BoundsAssumption DEF NoReceiver, NoConn
  <1>3. Types
    <2>1. /\ oplog \in Seq(Row) /\ Len(oplog) = 0 /\ pending \in Seq(Event)
          /\ wire \in Seq(Frames) /\ ring \in Seq(Event)
      BY <1>1
    <2>2. /\ Len(oplog) <= MaxSeq /\ 0 \in 0 .. MaxSeq
      BY <2>1, BoundsAssumption
    <2>3. sweeping \in BOOLEAN /\ (sweeping => pending # <<>>)
      BY <1>1, Zenon
    <2>4. /\ cursor \in 0 .. MaxSeq /\ dropped \in Nat /\ reported \in Nat
          /\ first \in 0 .. MaxSeq /\ last \in 0 .. MaxSeq
          /\ polled \subseteq 1 .. MaxSeq /\ given \subseteq 1 .. MaxSeq
      BY <1>1, <2>2
    <2> QED
      BY <1>2, <2>1, <2>2, <2>3, <2>4 DEF Types
  <1>4. Published = {} /\ Carried = {} /\ DOMAIN wire = {} /\ DOMAIN pending = {}
        /\ DOMAIN receiver.queue = {} /\ Range(pending) = {} /\ Range(receiver.queue) = {}
    BY <1>1, <1>2, EmptyRange DEF Published, Carried
  <1>5. Truthful /\ PublishedInOrder /\ WireInOrder /\ LastIsBehind
    BY <1>2, <1>4 DEF Truthful, PublishedInOrder, Ordered, WireInOrder, LastIsBehind
  <1>6. Phase
    BY <1>1, <1>2 DEF Phase
  <1> QED
    BY <1>3, <1>5, <1>6 DEF OrderInv

LEMMA StutterOrder ==
    ASSUME OrderInv, UNCHANGED vars
    PROVE  OrderInv'
  BY DEF OrderInv, vars, Types, Truthful, PublishedInOrder, WireInOrder, LastIsBehind, Phase,
         Published, Carried, Told, Before, Ordered, Fresh, Counts

LEMMA OrderStep == OrderInv /\ [Next]_vars => OrderInv'
  <1> SUFFICES ASSUME OrderInv, [Next]_vars PROVE OrderInv'
    OBVIOUS
  <1>1. CASE WriterNext
    BY <1>1, WriteOneOrder, WriteSupersedingOrder, WriteNoopOrder, WriteMergeOrder,
       SweepItemOrder, WriteQuietOrder, SweepDoneOrder, PublishOrder DEF WriterNext
  <1>2. CASE StreamNext
    BY <1>2, SubscribeOrder, ReplayOrder, ReplayFailOrder, StreamOrder DEF StreamNext
  <1>3. CASE pump_changes
    BY <1>3, PumpOrder
  <1>4. CASE disconnect
    BY <1>4, ClosedOrder DEF disconnect, writer
  <1>5. CASE daemon_death
    BY <1>5, ClosedOrder DEF daemon_death
  <1>6. CASE \E max \in 1 .. PollMax : poll_changes(max)
    BY <1>6, PollOrder
  <1>7. CASE UNCHANGED vars
    BY <1>7, StutterOrder
  <1> QED
    BY <1>1, <1>2, <1>3, <1>4, <1>5, <1>6, <1>7 DEF Next

\* One connection never brings a change twice, nor behind a newer one, whatever the sizes
\* of the pages and of the broadcast and wherever the replay and the live events overlap.
THEOREM DeliveredOnce == Spec => []OverlapDeliveredOnce
  <1>1. ASSUME OrderInv PROVE OverlapDeliveredOnce
    <2>1. ASSUME NEW i \in Telling PROVE i \in Carried /\ wire[i].event.row # 0 /\ Counts(wire[i].event)
                                         /\ conn.phase # "closed"
      <3>1. wire # <<>>
        BY <2>1 DEF Telling
      <3> QED
        BY <1>1, <2>1, <3>1 DEF Telling, Carried, Counts, OrderInv, Phase
    <2>2. \A i \in Telling : wire[i].event \in Event /\ last \in Nat
      BY <1>1, <2>1, TypeFacts, BoundsAssumption DEF OrderInv
    <2>3. \A i \in Telling : wire[i].event.row > last
      BY <1>1, <2>1, <2>2, EventFields DEF OrderInv, LastIsBehind
    <2>4. \A i, j \in Telling : i < j => wire[i].event.row < wire[j].event.row
      BY <1>1, <2>1 DEF OrderInv, WireInOrder, Before
    <2> QED
      BY <2>3, <2>4 DEF OverlapDeliveredOnce
  <1> QED
    BY <1>1, InitOrder, OrderStep, PTL DEF Spec

-----------------------------------------------------------------------------
(* What has been accounted for *)

LEMMA RowsOfMember ==
    ASSUME NEW es, NEW s
    PROVE  s \in RowsOf(es) <=> s # 0 /\ \E e \in Range(es) : e.row = s
  BY DEF RowsOf

\* A step that moves events on towards the agent
LEMMA Carry ==
    ASSUME Types, LossInv, UNCHANGED <<oplog, conn, cursor, first>>,
           Accounted \subseteq Accounted',
           (Published \cup OnWire \cup OnLag)' \subseteq Published \cup OnWire \cup OnLag,
           Ahead' \subseteq Ahead, PendingIsWhole',
           \A e \in OnWire : e \in OnWire' \/ e.row = 0 \/ e.row \in Accounted',
           \A s \in Mine : conn.phase = "live" /\ conn.replayedTo < s /\ Way(s) =>
                               s \in Accounted' \/ Way(s)'
    PROVE  LossInv'
  <1>1. Mine' = Mine /\ Changes' = Changes /\ 0 \notin Changes
    BY TypeFacts DEF Mine, Changes
  <1>2. CursorStarts' /\ OwnStamps'
    BY DEF LossInv, CursorStarts, OwnStamps
  <1>3. TakenBelowCursor'
    BY <1>1 DEF LossInv, TakenBelowCursor
  <1>4. ReplayedIsComing'
    BY <1>1 DEF LossInv, ReplayedIsComing
  <1>5. \A s : Started(s)' => Started(s)
    BY DEF Started
  <1>6. LiveIsComing'
    BY <1>1, <1>5 DEF LossInv, LiveIsComing
  <1> QED
    BY <1>2, <1>3, <1>4, <1>6 DEF LossInv

\* A command of the writer: its events are newer than everything, and every change it
\* commits has one.
LEMMA GrowsLoss ==
    ASSUME OrderInv, LossInv, oplog' \in Seq(Row), Len(oplog) <= Len(oplog'),
           \A s \in 1 .. Len(oplog) : Kept(s),
           Range(pending) \subseteq Range(pending'),
           \A e \in Range(pending') :
              e \in Range(pending) \/ (e.seq \in Nat /\ e.seq >= Len(oplog) /\ e.row \in {0, e.seq}),
           \A s \in (Len(oplog) + 1) .. Len(oplog') :
              oplog'[s].mine /\ oplog'[s].kind = "change" => \E e \in Range(pending') : e.row = s,
           UNCHANGED <<receiver, conn, wire, cursor, ring, dropped,
                       polled, given, reported, first, last>>
    PROVE  LossInv'
  <1>a. /\ Len(oplog) \in Nat /\ Len(oplog') \in Nat /\ DOMAIN oplog = 1 .. Len(oplog)
        /\ DOMAIN oplog' = 1 .. Len(oplog') /\ conn.replayedTo \in Nat /\ cursor \in Nat
        /\ conn.replayedTo <= Len(oplog) /\ cursor <= Len(oplog)
        /\ Range(pending) \subseteq Event /\ Published \subseteq Event
    BY TypeFacts, BoundsAssumption DEF OrderInv, Phase
  <1>b. \A s \in Mine' : s \in Nat /\ (s <= Len(oplog) => s \in Mine)
    BY <1>a DEF Mine, Kept
  <1>c. \A s \in Mine' : s > Len(oplog) => \E e \in Range(pending') : e.row = s
    BY <1>a DEF Mine
  <1>d. \A s \in Changes' : s \in Nat /\ (s <= Len(oplog) => s \in Changes)
    BY <1>a DEF Changes, Kept
  <1>e. Accounted' = Accounted /\ OnWire' = OnWire /\ OnLag' = OnLag
    BY DEF Accounted, OnWire, OnLag, Carried
  <1>f. \A e \in Range(pending') : e.row \in {0, e.seq}
    BY DEF LossInv, OwnStamps, Published
  <1>1. CursorStarts'
    BY DEF LossInv, CursorStarts
  <1>2. OwnStamps'
    BY <1>e, <1>f DEF LossInv, OwnStamps, Published
  <1>3. PendingIsWhole'
    <2>1. ASSUME NEW e \in Range(pending'), NEW s \in Mine', s > e.seq
          PROVE  \E f \in Range(pending') : f.row = s
      <3>1. CASE s > Len(oplog)
        BY <1>c, <3>1
      <3>2. CASE s <= Len(oplog)
        <4>1. e \in Range(pending)
          BY <1>a, <1>b, <2>1, <3>2
        <4>2. s \in RowsOf(pending)
          BY <1>b, <2>1, <3>2, <4>1 DEF LossInv, PendingIsWhole
        <4> QED
          BY <4>2, RowsOfMember
      <3> QED
        BY <1>a, <1>b, <3>1, <3>2
    <2>2. \A s \in Mine' : s # 0
      BY <1>a DEF Mine
    <2>3. \A e \in Range(pending') : \A s \in Mine' : s > e.seq => s \in RowsOf(pending')
      BY <2>1, <2>2, RowsOfMember
    <2> QED
      BY <2>3 DEF PendingIsWhole
  <1>4. TakenBelowCursor'
    BY <1>a, <1>d, <1>e DEF LossInv, TakenBelowCursor
  <1>5. ReplayedIsComing'
    BY <1>a, <1>d, <1>e DEF LossInv, ReplayedIsComing
  <1>6. LiveIsComing'
    <2>1. ASSUME conn.phase = "live", NEW s \in Mine', conn.replayedTo < s, Started(s)',
                 s \notin Accounted
          PROVE  Way(s)'
      <3>0. s \in DOMAIN oplog'
        BY DEF Mine
      <3>1. CASE s > Len(oplog)
        <4>1. PICK e \in Range(pending') : e.row = s
          BY <1>c, <3>1
        <4>2. e.seq > conn.replayedTo
          BY <1>a, <1>b, <1>f, <2>1, <3>1, <4>1
        <4> QED
          BY <2>1, <3>0, <4>1, <4>2 DEF Way
      <3>2. CASE s <= Len(oplog)
        <4>1. s \in Mine /\ s \in Nat
          BY <1>b, <3>2
        <4>2. Started(s)
          <5>1. CASE first # 0
            BY <2>1, <5>1 DEF Started
          <5>2. CASE first = 0
            <6>1. PICK e \in Ahead' : e.seq < s
              BY <2>1, <5>2 DEF Started
            <6>2. e \in Ahead
              BY <1>a, <1>e, <3>2, <4>1, <6>1 DEF Ahead
            <6> QED
              BY <5>2, <6>1, <6>2 DEF Started
          <5> QED
            BY <5>1, <5>2
        <4>3. Way(s)
          BY <2>1, <4>1, <4>2 DEF LossInv, LiveIsComing
        <4> QED
          BY <1>e, <3>0, <4>3 DEF Way
      <3> QED
        BY <1>a, <1>b, <3>1, <3>2
    <2> QED
      BY <1>e, <2>1 DEF LiveIsComing
  <1> QED
    BY <1>1, <1>2, <1>3, <1>4, <1>5, <1>6 DEF LossInv

LEMMA WriteOneLoss ==
    ASSUME OrderInv, LossInv, NEW b \in BOOLEAN, write_one(b)
    PROVE  LossInv'
  <1>a. Types /\ Len(oplog) \in Nat /\ ChangeRow(b) \in Row
    BY TypeFacts, RowFacts DEF OrderInv
  <1>1. /\ oplog' \in Seq(Row) /\ Len(oplog') = Len(oplog) + 1
        /\ \A s \in 1 .. Len(oplog) : Kept(s)
    BY <1>a, CommitOne DEF write_one
  <1>2. PICK e : e = LastSeq(Len(oplog'), b, oplog')
    OBVIOUS
  <1>3. e.row = Len(oplog) + 1 /\ e.seq = Len(oplog) + 1
    BY <1>1, <1>2 DEF LastSeq
  <1>4. pending = <<>> /\ pending' = <<e>>
    BY <1>2 DEF write_one, WriterIdle
  <1>5. Range(pending) = {} /\ Range(pending') = {e}
    BY <1>4 DEF Range
  <1>6. UNCHANGED <<receiver, conn, wire, cursor, ring, dropped,
                    polled, given, reported, first, last>>
    BY DEF write_one, daemon, adapter, history
  <1> QED
    BY <1>a, <1>1, <1>3, <1>5, <1>6, GrowsLoss

LEMMA WriteSupersedingLoss ==
    ASSUME OrderInv, LossInv, NEW b \in BOOLEAN, write_superseding(b)
    PROVE  LossInv'
  <1>a. Types /\ Len(oplog) \in Nat /\ ChangeRow(b) \in Row
    BY TypeFacts, RowFacts DEF OrderInv
  <1>1. /\ oplog' \in Seq(Row) /\ Len(oplog') = Len(oplog) + 2
        /\ \A s \in 1 .. Len(oplog) : Kept(s)
    BY <1>a, CommitTwo DEF write_superseding
  <1>2. /\ DOMAIN pending' = 1 .. 2
        /\ \A i \in 1 .. 2 : pending'[i].row = Len(oplog) + i /\ pending'[i].seq = Len(oplog) + i
    BY DEF write_superseding, OwnSeq
  <1>3. Range(pending) = {}
    BY EmptyRange DEF write_superseding, WriterIdle
  <1>4. \A e \in Range(pending') : e.seq \in Nat /\ e.seq >= Len(oplog) /\ e.row \in {0, e.seq}
    BY <1>a, <1>2 DEF Range
  <1>5. ASSUME NEW s \in (Len(oplog) + 1) .. Len(oplog')
        PROVE  \E e \in Range(pending') : e.row = s
    <2>1. PICK i \in 1 .. 2 : s = Len(oplog) + i
      BY <1>a, <1>1
    <2>2. pending'[i] \in Range(pending')
      BY <1>2 DEF Range
    <2> QED
      BY <1>2, <2>1, <2>2
  <1>6. UNCHANGED <<receiver, conn, wire, cursor, ring, dropped,
                    polled, given, reported, first, last>>
    BY DEF write_superseding, daemon, adapter, history
  <1> QED
    BY <1>a, <1>1, <1>3, <1>4, <1>5, <1>6, GrowsLoss

LEMMA WriteQuietLoss ==
    ASSUME OrderInv, LossInv, NEW b \in BOOLEAN, NEW kind \in {"quiet", "bulk"},
           write_quiet(b, kind)
    PROVE  LossInv'
  <1>a. Types /\ Len(oplog) \in Nat
    BY TypeFacts DEF OrderInv
  <1>1. PICK r : r = NewRow(b, kind)
    OBVIOUS
  <1>2. r \in Row /\ r.kind # "change"
    BY <1>1, RowFacts
  <1>3. /\ oplog' \in Seq(Row) /\ Len(oplog') = Len(oplog) + 1
        /\ \A s \in 1 .. Len(oplog) : Kept(s)
        /\ oplog'[Len(oplog) + 1] = r
    BY <1>a, <1>1, <1>2, CommitOne DEF write_quiet
  <1>4. pending' = pending
        /\ UNCHANGED <<receiver, conn, wire, cursor, ring, dropped,
                       polled, given, reported, first, last>>
    BY DEF write_quiet, daemon, adapter, history
  <1> QED
    BY <1>a, <1>2, <1>3, <1>4, GrowsLoss

LEMMA WriteNoopLoss ==
    ASSUME OrderInv, LossInv, NEW b \in BOOLEAN, write_noop(b)
    PROVE  LossInv'
  <1>a. Types /\ Len(oplog) \in Nat /\ oplog \in Seq(Row) /\ oplog' = oplog
    BY TypeFacts DEF OrderInv, write_noop
  <1>1. PICK e : e = LastSeq(0, b, oplog)
    OBVIOUS
  <1>2. e.row = 0 /\ e.seq = Len(oplog)
    BY <1>1 DEF LastSeq
  <1>3. pending = <<>> /\ pending' = <<e>>
    BY <1>1 DEF write_noop, WriterIdle
  <1>4. Range(pending) = {} /\ Range(pending') = {e}
    BY <1>3 DEF Range
  <1>5. UNCHANGED <<receiver, conn, wire, cursor, ring, dropped,
                    polled, given, reported, first, last>>
    BY DEF write_noop, daemon, adapter, history
  <1> QED
    BY <1>a, <1>2, <1>4, <1>5, KeptUnchanged, GrowsLoss

LEMMA SweepItemLoss ==
    ASSUME OrderInv, LossInv, NEW b \in BOOLEAN,
           NEW gone \in SUBSET History(b), sweep_item(b, gone)
    PROVE  LossInv'
  <1>a. Types /\ Len(oplog) \in Nat /\ ChangeRow(b) \in Row /\ pending \in Seq(Event)
    BY TypeFacts, RowFacts DEF OrderInv
  <1>1. /\ oplog' \in Seq(Row) /\ Len(oplog') = Len(oplog) + 1 /\ Len(oplog') <= MaxSeq
        /\ \A s \in 1 .. Len(oplog) : Kept(s)
    BY <1>a, Purged DEF sweep_item
  <1>2. PICK e : e = OwnSeq(Len(oplog'), b, oplog')
    OBVIOUS
  <1>3. e.row = Len(oplog) + 1 /\ e.seq = Len(oplog) + 1 /\ e \in Event
    BY <1>a, <1>1, <1>2, BoundsAssumption DEF OwnSeq, Event
  <1>4. Range(pending') = Range(pending) \cup {e}
    BY <1>a, <1>2, <1>3, AppendFacts DEF sweep_item
  <1>5. UNCHANGED <<receiver, conn, wire, cursor, ring, dropped,
                    polled, given, reported, first, last>>
    BY DEF sweep_item, daemon, adapter, history
  <1> QED
    BY <1>a, <1>1, <1>3, <1>4, <1>5, GrowsLoss

LEMMA SweepDoneLoss ==
    ASSUME OrderInv, LossInv, sweep_done
    PROVE  LossInv'
  <1>a. /\ Types /\ Len(oplog) \in Nat /\ pending \in Seq(Event) /\ pending # <<>>
        /\ oplog \in Seq(Row)
    BY TypeFacts DEF OrderInv, sweep_done
  <1>1. pending[1].mine \in BOOLEAN
    BY <1>a, EventFields
  <1>2. PICK r : r = NewRow(pending[1].mine, "bulk")
    OBVIOUS
  <1>3. r \in Row /\ r.kind # "change"
    BY <1>1, <1>2, RowFacts
  <1>4. /\ pending' = pending
        /\ UNCHANGED <<receiver, conn, wire, cursor, ring, dropped,
                       polled, given, reported, first, last>>
    BY DEF sweep_done, daemon, adapter, history
  <1>5. CASE Commit(<<r>>)
    <2>1. /\ oplog' \in Seq(Row) /\ Len(oplog') = Len(oplog) + 1
          /\ \A s \in 1 .. Len(oplog) : Kept(s)
          /\ oplog'[Len(oplog) + 1] = r
      BY <1>a, <1>3, <1>5, CommitOne
    <2> QED
      BY <1>a, <1>3, <1>4, <2>1, GrowsLoss
  <1>6. CASE oplog' = oplog
    BY <1>a, <1>4, <1>6, KeptUnchanged, GrowsLoss
  <1> QED
    BY <1>2, <1>5, <1>6 DEF sweep_done

LEMMA PublishLoss ==
    ASSUME OrderInv, LossInv, publish_change
    PROVE  LossInv'
  <1>a. /\ Types /\ pending \in Seq(Event) /\ pending # <<>> /\ receiver.queue \in Seq(Event)
        /\ receiver.lagged \in Seq(Event) /\ Ordered(pending)
    BY TypeFacts DEF OrderInv, PublishedInOrder, publish_change
  <1>b. UNCHANGED <<oplog, conn, wire, cursor, ring, dropped, polled, given, reported, first, last>>
    BY DEF publish_change, adapter, history
  <1>1. PICK p : p = Head(pending)
    OBVIOUS
  <1>2. /\ p \in Event /\ Range(pending) = {p} \cup Range(pending')
        /\ \A e \in Range(pending') : Before(p, e)
    BY <1>a, <1>1, TailFacts, OrderedTail DEF publish_change
  <1>3. PendingIsWhole'
    <2>1. ASSUME NEW e \in Range(pending'), NEW s \in Mine, s > e.seq
          PROVE  \E f \in Range(pending') : f.row = s /\ s # 0
      <3>1. s \in RowsOf(pending)
        BY <1>2, <2>1 DEF LossInv, PendingIsWhole
      <3>2. PICK f \in Range(pending) : f.row = s /\ s # 0
        BY <3>1, RowsOfMember
      <3>3. f.seq = s
        BY <3>2 DEF LossInv, OwnStamps, Published
      <3>4. p.seq <= e.seq /\ e \in Event
        BY <1>2, <1>a, RangeType DEF Before
      <3>5. f # p
        BY <1>2, <2>1, <3>2, <3>3, <3>4, EventFields
      <3> QED
        BY <1>2, <3>2, <3>5
    <2>2. Mine' = Mine
      BY <1>b DEF Mine
    <2> QED
      BY <2>1, <2>2, RowsOfMember DEF PendingIsWhole
  <1>c. Accounted' = Accounted /\ OnWire' = OnWire /\ OnLag' = OnLag
    BY <1>b DEF Accounted, OnWire, OnLag, Carried
  <1>4. CASE conn.phase = "closed"
    <2>1. receiver' = receiver
      BY <1>4 DEF publish_change
    <2>2. Published' \subseteq Published /\ Ahead' \subseteq Ahead
      BY <1>2, <1>c, <2>1 DEF Published, Ahead
    <2> QED
      BY <1>a, <1>b, <1>3, <1>4, <1>c, <2>2, Carry
  <1>5. CASE conn.phase # "closed" /\ Len(receiver.queue) < Capacity
    <2>1. receiver' = [receiver EXCEPT !.queue = Append(receiver.queue, p)]
      BY <1>1, <1>5 DEF publish_change
    <2>2. receiver'.queue = Append(receiver.queue, p) /\ receiver'.lagged = receiver.lagged
      BY <1>a, <2>1 DEF Types
    <2>3. Range(receiver'.queue) = Range(receiver.queue) \cup {p}
      BY <1>a, <1>2, <2>2, AppendFacts
    <2>4. Published' \subseteq Published /\ Ahead' \subseteq Ahead
      BY <1>2, <1>c, <2>2, <2>3 DEF Published, Ahead
    <2>5. \A s : Way(s) => Way(s)'
      BY <1>2, <1>b, <1>c, <2>2, <2>3 DEF Way
    <2> QED
      BY <1>a, <1>b, <1>3, <1>c, <2>4, <2>5, Carry
  <1>6. CASE conn.phase # "closed" /\ ~(Len(receiver.queue) < Capacity)
    <2>1. PICK h, t : h = Head(receiver.queue) /\ t = Tail(receiver.queue)
      OBVIOUS
    <2>2. receiver' = [queue |-> Append(t, p), lagged |-> Append(receiver.lagged, h)]
      BY <1>1, <1>6, <2>1 DEF publish_change
    <2>3. receiver.queue # <<>>
      BY <1>a, <1>6, BoundsAssumption
    <2>4. t \in Seq(Event) /\ h \in Event /\ Range(receiver.queue) = {h} \cup Range(t)
      BY <1>a, <2>1, <2>3, TailFacts
    <2>5. /\ Range(receiver'.queue) = Range(t) \cup {p}
          /\ Range(receiver'.lagged) = Range(receiver.lagged) \cup {h}
      BY <1>a, <1>2, <2>2, <2>4, AppendFacts
    <2>6. Published' \subseteq Published /\ Ahead' \subseteq Ahead
      BY <1>2, <1>c, <2>4, <2>5 DEF Published, Ahead
    <2>7. ASSUME NEW s, s # 0, Way(s) PROVE Way(s)'
      BY <1>2, <1>b, <1>c, <2>4, <2>5, <2>7 DEF Way
    <2>8. \A s \in Mine : s # 0
      BY <1>a, TypeFacts DEF Mine
    <2> QED
      BY <1>a, <1>b, <1>3, <1>c, <2>6, <2>7, <2>8, Carry
  <1> QED
    BY <1>4, <1>5, <1>6

LEMMA SubscribeLoss ==
    ASSUME OrderInv, LossInv, subscribe
    PROVE  LossInv'
  <1>a. /\ Types /\ conn.phase = "closed" /\ wire = <<>> /\ receiver = NoReceiver
        /\ Len(oplog) \in Nat /\ DOMAIN oplog = 1 .. Len(oplog) /\ cursor \in Nat
    BY TypeFacts, BoundsAssumption DEF OrderInv, Phase, subscribe
  <1>b. /\ receiver' = receiver
        /\ UNCHANGED <<oplog, pending, wire, cursor, ring, polled, given, first>>
    BY <1>a DEF subscribe, writer, adapter
  <1>c. /\ conn'.replayedTo = cursor /\ (cursor = 0 => conn'.phase = "live")
        /\ (cursor # 0 => conn'.phase = "replay")
    BY DEF subscribe
  <1>d. /\ Accounted' = Accounted /\ OnWire' = OnWire /\ OnWire = {} /\ Mine' = Mine
        /\ Changes' = Changes /\ Published' = Published /\ Range(receiver.queue) = {}
        /\ OnLag' = OnLag
    BY <1>a, <1>b, EmptyRange
       DEF Accounted, OnWire, OnLag, Carried, Mine, Changes, Published, NoReceiver
  <1>1. CursorStarts' /\ OwnStamps' /\ PendingIsWhole' /\ TakenBelowCursor'
    BY <1>b, <1>c, <1>d
       DEF LossInv, CursorStarts, OwnStamps, PendingIsWhole, TakenBelowCursor
  <1>2. ReplayedIsComing'
    BY <1>c, <1>d DEF LossInv, TakenBelowCursor, ReplayedIsComing
  <1>3. LiveIsComing'
    <2>1. ASSUME conn'.phase = "live", NEW s \in Mine, Started(s)' PROVE Way(s)'
      <3>1. cursor = 0 /\ first = 0
        BY <1>c, <2>1 DEF LossInv, CursorStarts
      <3>2. PICK e \in Range(pending) : e.seq < s
        BY <1>b, <1>d, <2>1, <3>1 DEF Started, Ahead
      <3>3. e \in Event /\ s \in Nat /\ s > 0 /\ s \in DOMAIN oplog
        BY <1>a, <3>2, TypeFacts DEF Mine
      <3>4. s \in RowsOf(pending)
        BY <3>2, <3>3, EventFields DEF LossInv, PendingIsWhole
      <3>5. PICK f \in Range(pending) : f.row = s
        BY <3>4, RowsOfMember
      <3>6. f.seq = s
        BY <3>3, <3>5 DEF LossInv, OwnStamps, Published
      <3> QED
        BY <1>b, <1>c, <2>1, <3>1, <3>3, <3>5, <3>6 DEF Way
    <2> QED
      BY <1>d, <2>1 DEF LiveIsComing
  <1> QED
    BY <1>1, <1>2, <1>3 DEF LossInv

LEMMA ClosedLoss ==
    ASSUME OrderInv, LossInv, Closed, UNCHANGED <<oplog, adapter, history>>,
           UNCHANGED pending \/ pending' = <<>>
    PROVE  LossInv'
  <1>1. /\ conn'.phase = "closed" /\ conn'.replayedTo = 0 /\ wire' = <<>>
        /\ receiver'.queue = <<>> /\ receiver'.lagged = <<>>
        /\ UNCHANGED <<oplog, cursor, ring, polled, given, first>>
    BY DEF Closed, NoConn, NoReceiver, adapter, history
  <1>2. /\ Accounted' = Accounted /\ OnWire' = {} /\ Mine' = Mine /\ Changes' = Changes
        /\ Published' \subseteq Published /\ Range(pending') \subseteq Range(pending)
        /\ OnLag' = {}
    BY <1>1, EmptyRange DEF Accounted, OnWire, OnLag, Carried, Mine, Changes, Published
  <1>3. CursorStarts' /\ OwnStamps' /\ TakenBelowCursor'
    BY <1>1, <1>2 DEF LossInv, CursorStarts, OwnStamps, TakenBelowCursor
  <1>4. PendingIsWhole'
    <2>1. CASE pending' = pending
      BY <1>2, <2>1 DEF LossInv, PendingIsWhole
    <2>2. CASE pending' = <<>>
      BY <2>2, EmptyRange DEF PendingIsWhole
    <2> QED
      BY <2>1, <2>2
  <1>5. ReplayedIsComing' /\ LiveIsComing'
    BY <1>1 DEF ReplayedIsComing, LiveIsComing
  <1> QED
    BY <1>3, <1>4, <1>5 DEF LossInv

LEMMA ReplayLoss ==
    ASSUME OrderInv, LossInv, replay_page
    PROVE  LossInv'
  <1>0. PICK t0, t, n, m, told : ReplayEffect(t0, t, n, m, told)
    BY ReplayStep
  <1>a. /\ t0 \in Nat /\ t \in Nat /\ n \in Nat /\ m \in Nat
        /\ t0 = conn.replayedTo /\ t = conn'.replayedTo /\ t0 <= t
        /\ conn'.phase \in {"replay", "live"}
        /\ conn'.phase = "live" => \A s \in (t0 + 1) .. Len(oplog) : Present(s) => s <= t
        /\ DOMAIN wire = 1 .. n /\ DOMAIN wire' = 1 .. (n + m)
        /\ \A i \in 1 .. n : wire'[i] = wire[i]
        /\ \A i \in (n + 1) .. (n + m) :
              /\ wire'[i].type = "change"
              /\ wire'[i].event = [mine |-> TRUE, row |-> told[i], seq |-> told[i]]
        /\ \A s \in (t0 + 1) .. t : Present(s) /\ oplog[s].kind # "bulk" =>
              \E i \in (n + 1) .. (n + m) : s = told[i]
        /\ UNCHANGED <<oplog, pending, receiver, cursor, ring, polled, given, first>>
    BY <1>0 DEF ReplayEffect
  <1>r. ASSUME NEW i \in (n + 1) .. (n + m)
        PROVE  i \in Carried' /\ wire'[i].event.row = told[i] /\ wire'[i].event.seq = told[i]
    <2>1. PICK r : r = told[i]
      OBVIOUS
    <2>2. wire'[i].event = [mine |-> TRUE, row |-> r, seq |-> r]
      BY <1>a, <2>1, <1>r
    <2>3. i \in 1 .. (n + m)
      BY <1>a, <1>r
    <2>4. i \in Carried'
      BY <1>a, <1>r, <2>3 DEF Carried
    <2> QED
      BY <2>1, <2>2, <2>4
  <1>b. conn.phase = "replay" /\ Len(oplog) \in Nat /\ DOMAIN oplog = 1 .. Len(oplog) /\ first # 0
    BY TypeFacts DEF replay_page, OrderInv, LossInv, CursorStarts
  <1>c. OnWire \subseteq OnWire'
    <2>1. \A i \in Carried : i \in Carried' /\ wire'[i] = wire[i]
      BY <1>a DEF Carried
    <2> QED
      BY <2>1 DEF OnWire
  <1>d. \A e \in OnWire' : e \in OnWire \/ e.row = e.seq
    <2>1. ASSUME NEW i \in Carried' PROVE wire'[i].event \in OnWire \/ wire'[i].event.row = wire'[i].event.seq
      <3>1. CASE i \in 1 .. n
        BY <1>a, <2>1, <3>1 DEF OnWire, Carried
      <3>2. CASE i \notin 1 .. n
        <4>1. i \in (n + 1) .. (n + m)
          BY <1>a, <2>1, <3>2 DEF Carried
        <4> QED
          BY <1>r, <4>1
      <3> QED
        BY <3>1, <3>2
    <2> QED
      BY <2>1 DEF OnWire
  <1>e. /\ Accounted' = Accounted /\ Mine' = Mine /\ Changes' = Changes /\ Published' = Published
    BY <1>a DEF Accounted, Mine, Changes, Published
  <1>f. OnLag' \subseteq OnLag
    <2>1. ASSUME NEW i \in (DOMAIN wire') \ Carried' PROVE i \in DOMAIN wire \ Carried /\ wire'[i] = wire[i]
      <3>1. i \in 1 .. n
        BY <1>a, <1>r, <2>1
      <3> QED
        BY <1>a, <2>1, <3>1 DEF Carried
    <2> QED
      BY <2>1 DEF OnLag
  <1>1. CursorStarts' /\ OwnStamps' /\ PendingIsWhole' /\ TakenBelowCursor'
    BY <1>a, <1>b, <1>d, <1>e, <1>f
       DEF LossInv, CursorStarts, OwnStamps, PendingIsWhole, TakenBelowCursor
  <1>2. ReplayedIsComing'
    <2>1. ASSUME NEW s \in Changes, s <= t PROVE s \in Accounted \/ \E e \in OnWire' : e.row = s
      <3>0. s \in 1 .. Len(oplog) /\ Present(s) /\ oplog[s].kind = "change"
        BY <1>b DEF Changes, Present
      <3>1. CASE s <= t0
        BY <1>a, <1>b, <1>c, <2>1, <3>1 DEF LossInv, ReplayedIsComing
      <3>2. CASE s > t0
        <4>1. PICK i \in (n + 1) .. (n + m) : s = told[i]
          BY <1>a, <1>b, <2>1, <3>0, <3>2
        <4>2. i \in Carried' /\ wire'[i].event.row = s
          BY <1>r, <4>1
        <4> QED
          BY <4>2 DEF OnWire
      <3> QED
        BY <1>a, <3>0, <3>1, <3>2
    <2> QED
      BY <1>a, <1>e, <2>1 DEF ReplayedIsComing
  <1>3. LiveIsComing'
    <2>1. ASSUME conn'.phase = "live", NEW s \in Mine, t < s PROVE FALSE
      BY <1>a, <1>b, <2>1 DEF Mine, Present
    <2> QED
      BY <1>a, <1>e, <2>1 DEF LiveIsComing
  <1> QED
    BY <1>1, <1>2, <1>3 DEF LossInv

\* What a frame put on the wire adds
LEMMA FrameAdds ==
    ASSUME Types, NEW f \in Frames, wire' = Append(wire, f)
    PROVE  /\ f.type = "change" => OnWire' = OnWire \cup {f.event} /\ OnLag' = OnLag
           /\ f.type # "change" => OnWire' = OnWire /\ OnLag' = OnLag \cup Range(f.events)
  <1>1. PICK n : n = Len(wire)
    OBVIOUS
  <1>2. /\ n \in Nat /\ DOMAIN wire = 1 .. n /\ DOMAIN wire' = 1 .. (n + 1)
        /\ wire'[n + 1] = f /\ \A i \in 1 .. n : wire'[i] = wire[i]
        /\ Carried' = IF f.type = "change" THEN Carried \cup {n + 1} ELSE Carried
    BY <1>1, WireAppend
  <1>3. DOMAIN wire' = DOMAIN wire \cup {n + 1} /\ n + 1 \notin DOMAIN wire /\ Carried \subseteq DOMAIN wire
    BY <1>2 DEF Carried
  <1>4. \A i \in DOMAIN wire : wire'[i] = wire[i]
    BY <1>2
  <1>5. CASE f.type = "change"
    <2>1. Carried' = Carried \cup {n + 1} /\ (DOMAIN wire') \ Carried' = DOMAIN wire \ Carried
      BY <1>2, <1>3, <1>5
    <2>2. OnWire' = OnWire \cup {f.event}
      BY <1>2, <1>3, <1>4, <2>1 DEF OnWire
    <2>3. OnLag' = OnLag
      BY <1>4, <2>1 DEF OnLag
    <2> QED
      BY <1>5, <2>2, <2>3
  <1>6. CASE f.type # "change"
    <2>1. Carried' = Carried /\ (DOMAIN wire') \ Carried' = (DOMAIN wire \ Carried) \cup {n + 1}
      BY <1>2, <1>3, <1>6
    <2>2. OnWire' = OnWire
      BY <1>3, <1>4, <2>1 DEF OnWire
    <2>3. OnLag' = OnLag \cup Range(f.events)
      BY <1>2, <1>4, <2>1 DEF OnLag
    <2> QED
      BY <1>6, <2>2, <2>3
  <1> QED
    BY <1>5, <1>6

\* What a frame read off the wire takes away
LEMMA FrameTakes ==
    ASSUME Types, wire # <<>>, wire' = Tail(wire)
    PROVE  /\ wire[1].type = "change" => OnWire = OnWire' \cup {wire[1].event} /\ OnLag' = OnLag
           /\ wire[1].type # "change" => OnWire' = OnWire /\ OnLag = OnLag' \cup Range(wire[1].events)
  <1>1. PICK n : n = Len(wire)
    OBVIOUS
  <1>2. /\ n \in Nat /\ DOMAIN wire = 1 .. n /\ 1 \in DOMAIN wire /\ DOMAIN wire' = 1 .. (n - 1)
        /\ \A i \in DOMAIN wire' : /\ i + 1 \in DOMAIN wire /\ wire'[i] = wire[i + 1]
                                   /\ i \in Carried' <=> i + 1 \in Carried
    BY <1>1, WireTail
  <1>3. \A j \in DOMAIN wire : j = 1 \/ \E i \in DOMAIN wire' : j = i + 1
    <2>1. \A j \in DOMAIN wire : j = 1 \/ (j - 1 \in DOMAIN wire' /\ j = (j - 1) + 1)
      BY <1>2
    <2> QED
      BY <2>1
  <1>4. Carried \subseteq DOMAIN wire /\ Carried' \subseteq DOMAIN wire'
    BY DEF Carried
  <1>5. 1 \in Carried <=> wire[1].type = "change"
    BY <1>2 DEF Carried
  <1>6. /\ \A e \in OnWire' : e \in OnWire
        /\ \A e \in OnWire : e \in OnWire' \/ (1 \in Carried /\ e = wire[1].event)
        /\ 1 \in Carried => wire[1].event \in OnWire
    BY <1>2, <1>3, <1>4 DEF OnWire
  <1>7. /\ \A e \in OnLag' : e \in OnLag
        /\ \A e \in OnLag : e \in OnLag' \/ (1 \notin Carried /\ e \in Range(wire[1].events))
        /\ 1 \notin Carried => Range(wire[1].events) \subseteq OnLag
    BY <1>2, <1>3, <1>4 DEF OnLag
  <1> QED
    BY <1>5, <1>6, <1>7

LEMMA LagLoss ==
    ASSUME OrderInv, LossInv, receiver' = [receiver EXCEPT !.lagged = <<>>],
           wire' = Append(wire, LaggedFrame(receiver.lagged)),
           UNCHANGED <<writer, conn, adapter, history>>
    PROVE  LossInv'
  <1>a. /\ Types /\ receiver.lagged \in Seq(Event)
        /\ UNCHANGED <<oplog, pending, conn, cursor, ring, polled, given, first>>
    BY TypeFacts DEF OrderInv, writer, adapter, history
  <1>1. PICK f : f = LaggedFrame(receiver.lagged)
    OBVIOUS
  <1>2. f \in Frames /\ f.type # "change" /\ f.events = receiver.lagged
    BY <1>a, <1>1 DEF LaggedFrame, Frames
  <1>3. OnWire' = OnWire /\ OnLag' = OnLag \cup Range(receiver.lagged)
    BY <1>a, <1>1, <1>2, FrameAdds
  <1>4. receiver'.queue = receiver.queue /\ Range(receiver'.lagged) = {}
    BY <1>a, EmptyRange DEF Types
  <1>5. /\ Accounted' = Accounted /\ Published' \subseteq Published /\ Ahead' = Ahead
        /\ Range(receiver.lagged) \subseteq Published
    BY <1>a, <1>3, <1>4 DEF Accounted, Published, Ahead
  <1>6. PendingIsWhole'
    BY <1>a DEF LossInv, PendingIsWhole, Mine
  <1>7. \A s : Way(s) => Way(s)'
    BY <1>a, <1>3, <1>4 DEF Way
  <1> QED
    BY <1>a, <1>3, <1>5, <1>6, <1>7, Carry

LEMMA ForwardLoss ==
    ASSUME OrderInv, LossInv, receiver.queue # <<>>,
           receiver' = [receiver EXCEPT !.queue = Tail(@)],
           wire' = IF Head(receiver.queue).mine /\ Head(receiver.queue).seq > conn.replayedTo
                   THEN Append(wire, ChangeFrame(Head(receiver.queue))) ELSE wire,
           UNCHANGED <<writer, conn, adapter, history>>
    PROVE  LossInv'
  <1>a. /\ Types /\ receiver.queue \in Seq(Event)
        /\ UNCHANGED <<oplog, pending, conn, cursor, ring, polled, given, first>>
    BY TypeFacts DEF OrderInv, writer, adapter, history
  <1>1. PICK h : h = Head(receiver.queue)
    OBVIOUS
  <1>2. /\ receiver'.queue = Tail(receiver.queue) /\ receiver'.lagged = receiver.lagged
    BY <1>a DEF Types
  <1>3. h \in Event /\ Range(receiver.queue) = {h} \cup Range(receiver'.queue)
    BY <1>a, <1>1, <1>2, TailFacts
  <1>4. h \in Published /\ Told(h)
    BY <1>3 DEF Published, OrderInv, Truthful
  <1>5. /\ OnWire \subseteq OnWire' /\ OnWire' \subseteq OnWire \cup {h} /\ OnLag' = OnLag
        /\ h.mine /\ h.seq > conn.replayedTo => h \in OnWire'
    <2>1. CASE h.mine /\ h.seq > conn.replayedTo
      <3>1. PICK f : f = ChangeFrame(h)
        OBVIOUS
      <3>2. f \in Frames /\ f.type = "change" /\ f.event = h
        BY <1>3, <3>1 DEF ChangeFrame, Frames
      <3>3. OnWire' = OnWire \cup {h} /\ OnLag' = OnLag
        BY <1>a, <1>1, <2>1, <3>1, <3>2, FrameAdds
      <3> QED
        BY <3>3
    <2>2. CASE ~(h.mine /\ h.seq > conn.replayedTo)
      <3>1. wire' = wire
        BY <1>1, <2>2
      <3> QED
        BY <2>2, <3>1 DEF OnWire, OnLag, Carried
    <2> QED
      BY <2>1, <2>2
  <1>6. /\ Accounted' = Accounted
        /\ (Published \cup OnWire \cup OnLag)' \subseteq Published \cup OnWire \cup OnLag
        /\ Ahead' \subseteq Ahead
    BY <1>a, <1>2, <1>3, <1>4, <1>5 DEF Accounted, Published, Ahead
  <1>7. PendingIsWhole'
    BY <1>a DEF LossInv, PendingIsWhole, Mine
  <1>8. ASSUME NEW s \in Mine, conn.replayedTo < s, Way(s) PROVE Way(s)'
    <2>1. s # 0 /\ oplog[s].mine
      BY <1>a, TypeFacts DEF Mine
    <2>2. CASE h.row = s
      <3>1. h.seq = s /\ h.mine
        BY <1>4, <2>1, <2>2 DEF LossInv, OwnStamps, Told
      <3> QED
        BY <1>5, <1>8, <2>1, <2>2, <3>1 DEF Way
    <2>3. CASE h.row # s
      BY <1>a, <1>2, <1>3, <1>5, <1>8, <2>3 DEF Way
    <2> QED
      BY <2>2, <2>3
  <1> QED
    BY <1>a, <1>5, <1>6, <1>7, <1>8, Carry

LEMMA StreamLoss ==
    ASSUME OrderInv, LossInv, stream_changes
    PROVE  LossInv'
  BY LagLoss, ForwardLoss DEF stream_changes

LEMMA PollLoss ==
    ASSUME OrderInv, LossInv, NEW max \in 1 .. PollMax, poll_changes(max)
    PROVE  LossInv'
  <1>a. /\ Types
        /\ UNCHANGED <<oplog, pending, receiver, conn, wire, cursor, given, first>>
    BY DEF OrderInv, poll_changes, writer, daemon
  <1>1. PICK take : take = IF max < Len(ring) THEN max ELSE Len(ring)
    OBVIOUS
  <1>2. /\ polled' = polled \cup RowsOf(SubSeq(ring, 1, take))
        /\ ring' = SubSeq(ring, take + 1, Len(ring))
    BY <1>1 DEF poll_changes
  <1>3. ring \in Seq(Event) /\ Len(ring) \in Nat /\ take \in 0 .. Len(ring)
    BY <1>a, <1>1, BoundsAssumption DEF Types
  <1>4. ASSUME NEW e \in Range(ring)
        PROVE  e \in Range(SubSeq(ring, 1, take)) \/ e \in Range(ring')
    <2>1. PICK i \in 1 .. Len(ring) : e = ring[i]
      BY <1>3, <1>4 DEF Range
    <2>2. CASE i <= take
      <3>1. PICK u : u = SubSeq(ring, 1, take)
        OBVIOUS
      <3>2. DOMAIN u = 1 .. take /\ \A j \in 1 .. take : u[j] = ring[j]
        BY <1>3, <3>1
      <3>3. i \in DOMAIN u /\ u[i] = e
        BY <1>3, <2>1, <2>2, <3>2
      <3>4. e \in Range(u)
        BY <3>3 DEF Range
      <3> QED
        BY <3>1, <3>4
    <2>3. CASE i > take
      <3>1. DOMAIN ring' = 1 .. (Len(ring) - take) /\ \A j \in 1 .. (Len(ring) - take) : ring'[j] = ring[take + j]
        BY <1>2, <1>3
      <3>2. i - take \in DOMAIN ring' /\ ring'[i - take] = e
        BY <1>3, <2>1, <2>3, <3>1
      <3> QED
        BY <3>2 DEF Range
    <2> QED
      BY <1>3, <2>2, <2>3
  <1>5. Accounted \subseteq Accounted'
    <2>1. RowsOf(ring) \subseteq RowsOf(SubSeq(ring, 1, take)) \cup RowsOf(ring')
      BY <1>4 DEF RowsOf
    <2> QED
      BY <1>a, <1>2, <2>1 DEF Accounted
  <1>6. /\ OnWire' = OnWire /\ OnLag' = OnLag /\ Published' = Published /\ Ahead' = Ahead
        /\ \A s : Way(s)' <=> Way(s)
    BY <1>a DEF OnWire, OnLag, Carried, Published, Ahead, Way
  <1>7. PendingIsWhole'
    BY <1>a DEF LossInv, PendingIsWhole, Mine
  <1> QED
    BY <1>a, <1>5, <1>6, <1>7, Carry

LEMMA PushAccounts ==
    ASSUME Types, NEW e \in Event, Push(e), polled' = polled
    PROVE  Accounted \subseteq Accounted' /\ (e.row # 0 => e.row \in Accounted')
  <1>1. ring \in Seq(Event) /\ Len(ring) \in Nat /\ RingCapacity \in Nat \ {0}
    BY BoundsAssumption DEF Types
  <1>2. CASE Len(ring) >= RingCapacity
    <2>1. PICK h, t : h = Head(ring) /\ t = Tail(ring)
      OBVIOUS
    <2>2. ring # <<>>
      BY <1>1, <1>2
    <2>3. h \in Event /\ t \in Seq(Event) /\ Range(ring) = {h} \cup Range(t)
      BY <1>1, <2>1, <2>2, TailFacts
    <2>4. ring' = Append(t, e) /\ given' = given \cup RowsOf(<<h>>)
      BY <1>2, <2>1 DEF Push
    <2>5. Range(ring') = Range(t) \cup {e} /\ Range(<<h>>) = {h}
      BY <2>3, <2>4, AppendFacts DEF Range
    <2> QED
      BY <2>3, <2>4, <2>5 DEF Accounted, RowsOf
  <1>3. CASE ~(Len(ring) >= RingCapacity)
    <2>1. ring' = Append(ring, e) /\ given' = given
      BY <1>3 DEF Push
    <2>2. Range(ring') = Range(ring) \cup {e}
      BY <1>1, <2>1, AppendFacts
    <2> QED
      BY <2>1, <2>2 DEF Accounted, RowsOf
  <1> QED
    BY <1>2, <1>3

\* What is behind a frame on its connection is newer than it.
LEMMA HeadIsOldest ==
    ASSUME OrderInv, LossInv, wire # <<>>, wire' = Tail(wire), wire[1].type = "change",
           NEW s \in Mine, s <= wire[1].event.seq
    PROVE  /\ \A f \in OnWire' : f.row # s
           /\ conn.replayedTo < s =>
                 \A f \in Published \cup OnLag : f.row # s
  <1>a. Types /\ 1 \in Carried /\ conn.replayedTo \in Nat /\ Len(oplog) \in Nat
        /\ DOMAIN oplog = 1 .. Len(oplog)
    BY TypeFacts, WireTail DEF OrderInv, Carried
  <1>1. PICK e : e = wire[1].event
    OBVIOUS
  <1>2. e \in Event /\ e.seq \in Nat /\ s \in Nat /\ s # 0 /\ oplog[s].mine
    BY <1>a, <1>1, TypeFacts, EventFields DEF Mine
  <1>3. ASSUME NEW f \in Event, f.row = s, f.row \in {0, f.seq}, Before(e, f) PROVE FALSE
    BY <1>1, <1>2, <1>3, EventFields DEF Before
  <1>4. ASSUME NEW f \in OnWire', f.row = s PROVE FALSE
    <2>1. PICK i \in Carried' : f = wire'[i].event
      BY <1>4 DEF OnWire
    <2>2. /\ i \in DOMAIN wire' /\ i + 1 \in Carried /\ 1 < i + 1 /\ f = wire[i + 1].event
      BY <1>a, <2>1, WireTail DEF Carried
    <2>3. f \in OnWire /\ f \in Event
      BY <1>a, <2>2, TypeFacts DEF OnWire
    <2>4. f.row \in {0, f.seq}
      BY <2>3 DEF LossInv, OwnStamps
    <2>5. Counts(f)
      BY <1>4, <1>2, <2>4 DEF Counts
    <2>6. Before(e, f)
      BY <1>a, <1>1, <2>2, <2>5 DEF OrderInv, WireInOrder
    <2> QED
      BY <1>3, <1>4, <2>3, <2>4, <2>6
  <1>5. ASSUME conn.replayedTo < s, NEW f \in Event, f.row = s, f.row \in {0, f.seq}, Told(f)
        PROVE  Fresh(f)
    BY <1>2, <1>5 DEF Fresh, Told
  <1>6. ASSUME conn.replayedTo < s, NEW f \in Published, f.row = s PROVE FALSE
    <2>1. f \in Event /\ Told(f) /\ f.row \in {0, f.seq}
      BY <1>a, TypeFacts DEF OrderInv, Truthful, LossInv, OwnStamps
    <2>2. Before(e, f)
      BY <1>a, <1>1, <1>5, <1>6, <2>1 DEF OrderInv, WireInOrder
    <2> QED
      BY <1>3, <1>6, <2>1, <2>2
  <1>7. ASSUME conn.replayedTo < s, NEW f \in OnLag, f.row = s PROVE FALSE
    <2>1. PICK j \in DOMAIN wire \ Carried : f \in Range(wire[j].events)
      BY <1>7 DEF OnLag
    <2>2. f \in Event /\ Told(f) /\ 1 < j
      BY <1>a, <2>1, TypeFacts DEF OrderInv, Truthful
    <2>3. f.row \in {0, f.seq}
      BY DEF LossInv, OwnStamps
    <2>4. Before(e, f)
      BY <1>a, <1>1, <1>5, <1>7, <2>1, <2>2, <2>3 DEF OrderInv, WireInOrder
    <2> QED
      BY <1>3, <1>7, <2>2, <2>3, <2>4
  <1> QED
    BY <1>4, <1>6, <1>7

LEMMA PumpLoss ==
    ASSUME OrderInv, LossInv, pump_changes
    PROVE  LossInv'
  <1>a. /\ Types /\ wire # <<>> /\ wire' = Tail(wire)
        /\ UNCHANGED <<oplog, pending, receiver, conn, polled>>
    BY DEF OrderInv, pump_changes, writer
  <1>b. /\ 1 \in DOMAIN wire /\ Head(wire) = wire[1] /\ wire[1] \in Frames
        /\ Len(oplog) \in Nat /\ DOMAIN oplog = 1 .. Len(oplog)
        /\ conn.replayedTo \in Nat /\ cursor \in Nat /\ first \in Nat
        /\ conn.phase # "closed" /\ Published' = Published /\ Mine' = Mine
    BY <1>a, WireTail, TypeFacts, BoundsAssumption DEF Published, Mine, OrderInv, Phase
  <1>c. PendingIsWhole'
    BY <1>a, <1>b DEF LossInv, PendingIsWhole
  <1>1. CASE wire[1].type = "change"
    <2>1. PICK e : e = wire[1].event
      OBVIOUS
    <2>2. 1 \in Carried /\ e \in OnWire /\ e \in Event /\ e.seq \in Nat /\ e.seq >= 1
      BY <1>a, <1>b, <1>1, <2>1, TypeFacts, EventFields DEF Carried, OnWire
    <2>3. /\ cursor' = Larger(cursor, e.seq) /\ first' = (IF first = 0 THEN e.seq ELSE first)
          /\ Push(e)
      BY <1>b, <1>1, <2>1 DEF pump_changes
    <2>4. Accounted \subseteq Accounted' /\ (e.row # 0 => e.row \in Accounted')
      BY <1>a, <2>2, <2>3, PushAccounts
    <2>5. OnWire = OnWire' \cup {e} /\ OnLag' = OnLag
      BY <1>a, <1>1, <2>1, FrameTakes
    <2>6. \A s \in Mine : s # 0 /\ s \in Nat
      BY <1>b DEF Mine
    <2>7. ASSUME NEW s \in Mine, s <= e.seq
          PROVE  /\ \A f \in OnWire' : f.row # s
                 /\ conn.replayedTo < s => \A f \in Published \cup OnLag : f.row # s
      BY <1>a, <1>1, <2>1, <2>7, HeadIsOldest
    <2>8. CursorStarts'
      BY <1>a, <1>b, <2>2, <2>3 DEF LossInv, CursorStarts, Larger
    <2>9. OwnStamps'
      BY <1>b, <2>5 DEF LossInv, OwnStamps
    <2>10. first # 0 => Changes' = Changes
      BY <1>a, <2>3 DEF Changes
    <2>11. Changes' \subseteq Mine
      BY <1>a DEF Changes, Mine
    <2>12. ASSUME NEW s \in Changes', s <= cursor' PROVE s \in Accounted'
      <3>1. CASE first = 0
        <4>1. cursor = 0 /\ e.seq < s /\ s \in Nat
          BY <1>a, <2>3, <2>6, <2>11, <2>12, <3>1 DEF Changes, LossInv, CursorStarts
        <4> QED
          BY <2>2, <2>3, <2>12, <4>1 DEF Larger
      <3>2. CASE first # 0 /\ s <= cursor
        BY <2>4, <2>10, <3>2 DEF LossInv, TakenBelowCursor
      <3>3. CASE first # 0 /\ ~(s <= cursor)
        <4>1. s \in Changes /\ s \in Mine /\ s <= e.seq /\ s \in Nat /\ s # 0
          BY <1>b, <2>2, <2>3, <2>6, <2>10, <2>11, <2>12, <3>3 DEF Larger
        <4>2. CASE s <= conn.replayedTo
          <5>1. s \in Accounted \/ \E f \in OnWire : f.row = s
            BY <1>b, <3>3, <4>1, <4>2 DEF LossInv, ReplayedIsComing
          <5> QED
            BY <2>4, <2>5, <2>7, <4>1, <5>1
        <4>3. CASE conn.replayedTo < s
          <5>1. conn.phase = "live"
            <6>1. conn.phase # "replay"
              BY <2>1, <2>2, <4>1, <4>3, <1>b DEF OrderInv, Phase
            <6> QED
              BY <1>a, <1>b, <6>1 DEF Types
          <5>2. Started(s)
            BY <3>3, <4>1 DEF Started, Changes
          <5>3. s \in Accounted \/ Way(s)
            BY <4>1, <4>3, <5>1, <5>2 DEF LossInv, LiveIsComing
          <5>4. ASSUME Way(s) PROVE e.row = s
            <6>1. PICK f \in Published \cup OnWire \cup OnLag : f.row = s
              BY <5>4 DEF Way, Published
            <6> QED
              BY <2>5, <2>7, <4>1, <4>3, <6>1
          <5> QED
            BY <2>4, <4>1, <5>3, <5>4
        <4> QED
          BY <1>b, <4>1, <4>2, <4>3
      <3> QED
        BY <3>1, <3>2, <3>3
    <2>13. TakenBelowCursor'
      BY <2>12 DEF TakenBelowCursor
    <2>14. ReplayedIsComing'
      <3>1. CASE first = 0
        BY <1>a, <2>6, <2>11, <3>1 DEF LossInv, CursorStarts, ReplayedIsComing
      <3>2. CASE first # 0
        <4>1. ASSUME NEW s \in Changes', s <= conn.replayedTo
              PROVE  s \in Accounted' \/ \E f \in OnWire' : f.row = s
          <5>1. s \in Accounted \/ \E f \in OnWire : f.row = s
            BY <1>b, <2>10, <3>2, <4>1 DEF LossInv, ReplayedIsComing
          <5> QED
            BY <2>4, <2>5, <2>6, <2>11, <5>1
        <4> QED
          BY <1>a, <4>1 DEF ReplayedIsComing
      <3> QED
        BY <3>1, <3>2
    <2>15. LiveIsComing'
      <3>1. ASSUME conn.phase = "live", NEW s \in Mine, conn.replayedTo < s, Started(s)'
            PROVE  s \in Accounted' \/ Way(s)'
        <4>1. Started(s)
          BY <2>2, <2>3, <3>1 DEF Started, Ahead
        <4>2. s \in Accounted \/ Way(s)
          BY <3>1, <4>1 DEF LossInv, LiveIsComing
        <4>3. Way(s) => e.row = s \/ Way(s)'
          BY <1>a, <2>5 DEF Way
        <4> QED
          BY <2>4, <2>6, <4>2, <4>3
      <3> QED
        BY <1>a, <1>b, <3>1 DEF LiveIsComing
    <2> QED
      BY <1>c, <2>8, <2>9, <2>13, <2>14, <2>15 DEF LossInv
  <1>2. CASE wire[1].type # "change"
    <2>1. PICK es : es = wire[1].events
      OBVIOUS
    <2>2. given' = given \cup RowsOf(es) /\ UNCHANGED <<cursor, ring, first>>
      BY <1>b, <1>2, <2>1 DEF pump_changes
    <2>3. OnWire' = OnWire /\ OnLag = OnLag' \cup Range(es)
      BY <1>a, <1>2, <2>1, FrameTakes
    <2>4. Accounted \subseteq Accounted' /\ RowsOf(es) \subseteq Accounted'
      BY <1>a, <2>2 DEF Accounted
    <2>5. Ahead' = Ahead
      BY <1>a, <2>3 DEF Ahead
    <2>6. ASSUME NEW s, Way(s) PROVE s \in Accounted' \/ Way(s)'
      <3>1. s # 0 /\ (\E f \in Range(es) : f.row = s) => s \in RowsOf(es)
        BY RowsOfMember
      <3> QED
        BY <1>a, <2>3, <2>4, <2>6, <3>1 DEF Way
    <2> QED
      BY <1>a, <1>b, <1>c, <2>2, <2>3, <2>4, <2>5, <2>6, Carry
  <1> QED
    BY <1>1, <1>2

-----------------------------------------------------------------------------
(* What the counts stand for *)

CountInv == Cardinality(given) <= dropped + reported

LEMMA RowsAreFew ==
    ASSUME NEW es \in Seq(Event)
    PROVE  IsFiniteSet(RowsOf(es)) /\ Cardinality(RowsOf(es)) <= Len(es) /\ Cardinality(RowsOf(es)) \in Nat
  <1>1. PICK n : n = Len(es)
    OBVIOUS
  <1>2. n \in Nat /\ DOMAIN es = 1 .. n
    BY <1>1
  <1>3. PICK S : S = {es[i].row : i \in 1 .. n}
    OBVIOUS
  <1>4. PICK f : f = [i \in 1 .. n |-> es[i].row]
    OBVIOUS
  <1>5. f \in Surjection(1 .. n, S)
    BY <1>3, <1>4 DEF Surjection
  <1>6. IsFiniteSet(1 .. n) /\ Cardinality(1 .. n) = n
    BY <1>2, FS_Interval
  <1>7. IsFiniteSet(S) /\ Cardinality(S) <= n
    BY <1>5, <1>6, FS_Surjection
  <1>8. RowsOf(es) \subseteq S
    BY <1>2, <1>3 DEF RowsOf, Range
  <1>9. IsFiniteSet(RowsOf(es)) /\ Cardinality(RowsOf(es)) <= Cardinality(S)
    BY <1>7, <1>8, FS_Subset
  <1>10. Cardinality(RowsOf(es)) \in Nat /\ Cardinality(S) \in Nat
    BY <1>7, <1>9, FS_CardinalityType
  <1> QED
    BY <1>1, <1>2, <1>7, <1>9, <1>10

\* Giving up the rows of some events and counting the events
LEMMA CountGrows ==
    ASSUME Types, CountInv, NEW es \in Seq(Event), given' = given \cup RowsOf(es),
           dropped' = dropped + Len(es), reported' = reported
    PROVE  CountInv'
  <1>1. IsFiniteSet(given)
    <2>1. IsFiniteSet(1 .. MaxSeq) /\ given \in SUBSET (1 .. MaxSeq)
      BY FS_Interval, BoundsAssumption DEF Types
    <2> QED
      BY <2>1, FS_Subset
  <1>2. /\ IsFiniteSet(RowsOf(es)) /\ Cardinality(RowsOf(es)) <= Len(es)
        /\ Cardinality(RowsOf(es)) \in Nat
    BY RowsAreFew
  <1>3. /\ Cardinality(given') =
              Cardinality(given) + Cardinality(RowsOf(es)) - Cardinality(given \cap RowsOf(es))
        /\ IsFiniteSet(given \cap RowsOf(es))
    BY <1>1, <1>2, FS_Union, FS_Intersection
  <1>4. Cardinality(given) \in Nat /\ Cardinality(given \cap RowsOf(es)) \in Nat
    BY <1>1, <1>3, FS_CardinalityType
  <1>5. dropped \in Nat /\ reported \in Nat /\ Len(es) \in Nat
    BY DEF Types
  <1> QED
    BY <1>2, <1>3, <1>4, <1>5 DEF CountInv

LEMMA CountStep ==
    ASSUME OrderInv, CountInv, [Next]_vars
    PROVE  CountInv'
  <1>a. Types /\ dropped \in Nat /\ reported \in Nat
    BY DEF OrderInv, Types
  <1>1. CASE pump_changes
    <2>1. 1 \in DOMAIN wire /\ Head(wire) = wire[1] /\ wire[1] \in Frames /\ reported' = reported
      BY <1>a, <1>1, WireTail DEF pump_changes
    <2>2. CASE wire[1].type = "change"
      <3>1. Push(wire[1].event)
        BY <1>1, <2>1, <2>2 DEF pump_changes
      <3>2. CASE Len(ring) >= RingCapacity
        <4>1. PICK es : es = <<Head(ring)>>
          OBVIOUS
        <4>2. ring \in Seq(Event) /\ ring # <<>>
          BY <1>a, <3>2, BoundsAssumption DEF Types
        <4>3. es \in Seq(Event) /\ Len(es) = 1
          BY <4>1, <4>2, TailFacts, TupleFacts
        <4>4. given' = given \cup RowsOf(es) /\ dropped' = dropped + Len(es)
          BY <3>1, <3>2, <4>1, <4>3 DEF Push
        <4> QED
          BY <1>a, <2>1, <4>3, <4>4, CountGrows
      <3>3. CASE ~(Len(ring) >= RingCapacity)
        BY <2>1, <3>1, <3>3 DEF Push, CountInv
      <3> QED
        BY <3>2, <3>3
    <2>3. CASE wire[1].type # "change"
      <3>1. PICK es : es = wire[1].events
        OBVIOUS
      <3>2. es \in Seq(Event)
        BY <2>1, <2>3, <3>1 DEF Frames
      <3>3. given' = given \cup RowsOf(es) /\ dropped' = dropped + Len(es)
        BY <1>1, <2>1, <2>3, <3>1 DEF pump_changes
      <3> QED
        BY <1>a, <2>1, <3>2, <3>3, CountGrows
    <2> QED
      BY <2>2, <2>3
  <1>2. CASE \E max \in 1 .. PollMax : poll_changes(max)
    <2>1. given' = given /\ reported' = reported + dropped /\ dropped' = 0
      BY <1>2 DEF poll_changes
    <2> QED
      BY <1>a, <2>1 DEF CountInv
  <1>3. CASE WriterNext \/ StreamNext \/ disconnect \/ daemon_death \/ UNCHANGED vars
    <2>1. UNCHANGED <<given, dropped, reported>>
      BY <1>3 DEF WriterNext, StreamNext, write_one, write_superseding, write_noop, write_merge,
                  write_quiet, sweep_item, sweep_done, publish_change, subscribe, replay_page,
                  replay_fail, stream_changes, disconnect, daemon_death, adapter, history, vars
    <2> QED
      BY <2>1 DEF CountInv
  <1> QED
    BY <1>1, <1>2, <1>3 DEF Next

-----------------------------------------------------------------------------
LEMMA InitLoss == Init => OrderInv /\ LossInv /\ CountInv
  <1> SUFFICES ASSUME Init PROVE OrderInv /\ LossInv /\ CountInv
    OBVIOUS
  <1>1. OrderInv
    BY InitOrder
  <1>2. /\ oplog = <<>> /\ cursor = 0 /\ first = 0 /\ conn.phase = "closed" /\ conn.replayedTo = 0
        /\ pending = <<>> /\ wire = <<>> /\ receiver.queue = <<>> /\ receiver.lagged = <<>>
        /\ given = {} /\ dropped = 0 /\ reported = 0
    BY DEF Init, NoConn, NoReceiver
  <1>3. Mine = {} /\ Changes = {} /\ Published = {} /\ OnWire = {} /\ OnLag = {} /\ Range(pending) = {}
    BY <1>2, EmptyRange DEF Mine, Changes, Published, OnWire, OnLag, Carried
  <1>4. LossInv
    BY <1>2, <1>3 DEF LossInv, CursorStarts, OwnStamps, PendingIsWhole, TakenBelowCursor,
                      ReplayedIsComing, LiveIsComing
  <1>5. CountInv
    BY <1>2, FS_EmptySet DEF CountInv
  <1> QED
    BY <1>1, <1>4, <1>5

LEMMA StutterLoss ==
    ASSUME LossInv, UNCHANGED vars
    PROVE  LossInv'
  BY DEF LossInv, CursorStarts, OwnStamps, PendingIsWhole, TakenBelowCursor, ReplayedIsComing,
         LiveIsComing, Started, Way, Ahead, OnWire, OnLag, Carried, Published, Mine, Changes,
         Accounted, RowsOf, vars

\* Without merges and failing replays a change at or below the cursor, which no replay
\* brings again, has been handed to the agent, is buffered for it or is in a dropped count,
\* whatever broke, and the counts are as large as what they stand for.
THEOREM NothingIsLostSilently ==
    ASSUME ~Merging, ~ReplayFails
    PROVE  Spec => []NoSilentLoss
  <1>1. OrderInv /\ LossInv /\ CountInv /\ [Next]_vars => (OrderInv /\ LossInv /\ CountInv)'
    <2> SUFFICES ASSUME OrderInv, LossInv, CountInv, [Next]_vars
                 PROVE  OrderInv' /\ LossInv' /\ CountInv'
      OBVIOUS
    <2>1. OrderInv' /\ CountInv'
      BY OrderStep, CountStep
    <2>2. CASE WriterNext
      BY <2>1, <2>2, WriteOneLoss, WriteSupersedingLoss, WriteNoopLoss, WriteQuietLoss,
         SweepItemLoss, SweepDoneLoss, PublishLoss DEF WriterNext, write_merge
    <2>3. CASE StreamNext
      BY <2>1, <2>3, SubscribeLoss, ReplayLoss, StreamLoss DEF StreamNext, replay_fail
    <2>4. CASE pump_changes
      BY <2>1, <2>4, PumpLoss
    <2>5. CASE disconnect
      BY <2>1, <2>5, ClosedLoss DEF disconnect, writer
    <2>6. CASE daemon_death
      BY <2>1, <2>6, ClosedLoss DEF daemon_death
    <2>7. CASE \E max \in 1 .. PollMax : poll_changes(max)
      BY <2>1, <2>7, PollLoss
    <2>8. CASE UNCHANGED vars
      BY <2>1, <2>8, StutterLoss
    <2> QED
      BY <2>1, <2>2, <2>3, <2>4, <2>5, <2>6, <2>7, <2>8 DEF Next
  <1>2. LossInv /\ CountInv => NoSilentLoss
    BY DEF LossInv, TakenBelowCursor, CountInv, NoSilentLoss
  <1> QED
    BY <1>1, <1>2, InitLoss, PTL DEF Spec
=============================================================================
