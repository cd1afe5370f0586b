---------------------------- MODULE ChangeStream ----------------------------
(***************************************************************************)
(* How a committed change reaches an agent: the writer appends rows to the *)
(* oplog and then publishes events to a bounded broadcast; a connection of *)
(* the daemon (stream_changes) first replays the oplog from the            *)
(* subscriber's cursor and then forwards live events; the MCP adapter      *)
(* pumps frames into a bounded ring that poll_changes drains.  A           *)
(* connection can break and the daemon can die between any two steps.      *)
(***************************************************************************)
EXTENDS Integers, Sequences, FiniteSets, SequencesExt

CONSTANTS
    MaxSeq,         \* bound: rows of the oplog
    MaxNoops,       \* bound: events of writes that changed nothing
    MaxBreaks,      \* bound: broken connections and daemon deaths
    MaxPurges,      \* bound: purges that delete rows
    Capacity,       \* BROADCAST_CAPACITY
    Batch,          \* OPLOG_REPLAY_BATCH
    RingCapacity,   \* capacity of the adapter's ring
    PollMax,        \* the largest max of a poll
    Merging,        \* whether near-duplicates are merged by review
    ReplayFails     \* whether a page of the oplog may fail to be read

ASSUME BoundsAssumption ==
    /\ MaxSeq \in Nat /\ MaxNoops \in Nat /\ MaxBreaks \in Nat /\ MaxPurges \in Nat
    /\ Capacity \in Nat \ {0} /\ Batch \in Nat \ {0}
    /\ RingCapacity \in Nat \ {0} /\ PollMax \in Nat \ {0}
    /\ Merging \in BOOLEAN /\ ReplayFails \in BOOLEAN

VARIABLES
    oplog,      \* memory_oplog: the row with sequence number s is oplog[s]
    pending,    \* the writer: events of committed rows it has still to publish
    sweeping,   \* the writer is inside retention_sweep
    receiver,   \* broadcast receiver: queued events and the events it lagged behind
    conn,       \* stream_changes: its phase, page cursor and dedup watermark; history:
                \* whether its replay failed
    wire,       \* frames written to the socket and not read yet
    cursor,     \* run_subscriber's replay cursor, 0 for None
    ring,       \* ChangeBuffer.events
    dropped,    \* ChangeBuffer.dropped
    polled,     \* history: rows the agent was handed
    given,      \* history: rows given up and counted in dropped
    reported,   \* history: sum of the dropped counts the agent was handed
    first,      \* history: the cursor's first value
    last,       \* history: newest row read off the present connection
    spent       \* bounds: noops, breaks and purges so far

vars == <<oplog, pending, sweeping, receiver, conn, wire, cursor, ring, dropped,
          polled, given, reported, first, last, spent>>

writer == <<oplog, pending, sweeping>>
daemon == <<receiver, conn, wire>>
adapter == <<cursor, ring, dropped>>
history == <<polled, given, reported, first, last>>

-----------------------------------------------------------------------------
\* A row of the oplog: in the subscriber's namespace or another, and whether it
\* describes one memory's change with an event of its own ("change"), one without
\* ("quiet": link, unlink, set_link_strength) or is a bulk row with an empty memory
\* id ("bulk": rename, scrub, sweep and review records).  A row stays in the table
\* (by = 0) until a purge deletes it; history: by is then the purge's own row.
Row == [mine : BOOLEAN, kind : {"change", "quiet", "bulk"}, by : 0 .. MaxSeq]
NewRow(b, kind) == [mine |-> b, kind |-> kind, by |-> 0]
ChangeRow(b) == NewRow(b, "change")

\* A MemoryChanged: the row it tells of (0 for none) and the seq stamped on it
Event == [mine : BOOLEAN, row : 0 .. MaxSeq, seq : 1 .. MaxSeq]

ChangeFrame(e) == [type |-> "change", event |-> e]
LaggedFrame(es) == [type |-> "lagged", events |-> es]

Larger(a, b) == IF a >= b THEN a ELSE b
RowsOf(events) == {e.row : e \in Range(events)} \ {0}

NoReceiver == [queue |-> <<>>, lagged |-> <<>>]
NoConn == [phase |-> "closed", after |-> 0, replayedTo |-> 0, failed |-> FALSE]

Init ==
    /\ oplog = <<>> /\ pending = <<>> /\ sweeping = FALSE
    /\ receiver = NoReceiver /\ conn = NoConn /\ wire = <<>>
    /\ cursor = 0 /\ ring = <<>> /\ dropped = 0
    /\ polled = {} /\ given = {} /\ reported = 0 /\ first = 0 /\ last = 0
    /\ spent = [noops |-> 0, breaks |-> 0, purges |-> 0]

-----------------------------------------------------------------------------
(* The writer thread.  A command's rows are committed before its events are
   published, and no command starts before the last one has published. *)

WriterIdle == pending = <<>> /\ ~sweeping

\* Mutant: every event of a command carries the last row's seq
OwnSeqBatchFinal(s, b, log) == [mine |-> b, row |-> s, seq |-> Len(log)]

\* an event stamped with the seq of its own row
OwnSeq(s, b, log) == [mine |-> b, row |-> s, seq |-> s]

\* publish_change_stamped: MAX(seq) of the whole log
LastSeq(s, b, log) == [mine |-> b, row |-> s, seq |-> Len(log)]

Commit(rows) ==
    /\ Len(oplog) + Len(rows) <= MaxSeq
    /\ oplog' = oplog \o rows

\* Insert, Update, Archive, ArchiveUnattended, RecordFeedback, SetConfidence,
\* SetRecalibratedImportance, Supersede: one row, one event.
write_one(b) ==
    /\ WriterIdle
    /\ Commit(<<ChangeRow(b)>>)
    /\ pending' = <<LastSeq(Len(oplog'), b, oplog')>>
    /\ UNCHANGED <<sweeping, daemon, adapter, history, spent>>

\* InsertSuperseding: two rows, two events, each with its own seq
write_superseding(b) ==
    /\ WriterIdle
    /\ Commit(<<ChangeRow(b), ChangeRow(b)>>)
    /\ pending' = [i \in 1 .. 2 |-> OwnSeq(Len(oplog) + i, b, oplog')]
    /\ UNCHANGED <<sweeping, daemon, adapter, history, spent>>

\* AddLink, DeleteLink, SetLinkStrength, RenameNamespace, Scrub, ReviewSnooze and the
\* review records: a row and no event
write_quiet(b, kind) ==
    /\ WriterIdle
    /\ Commit(<<NewRow(b, kind)>>)
    /\ UNCHANGED <<pending, sweeping, daemon, adapter, history, spent>>

\* Update and Archive of a row they leave as it is: an event and no row
write_noop(b) ==
    /\ WriterIdle /\ oplog # <<>> /\ spent.noops < MaxNoops
    /\ pending' = <<LastSeq(0, b, oplog)>>
    /\ spent' = [spent EXCEPT !.noops = @ + 1]
    /\ UNCHANGED <<oplog, sweeping, daemon, adapter, history>>

\* ReviewMerge: the combined memory, both originals and the audit row in one
\* transaction; the three events carry MAX(seq).
write_merge(b) ==
    /\ Merging /\ WriterIdle
    /\ Commit(<<ChangeRow(b), ChangeRow(b), ChangeRow(b), NewRow(b, "bulk")>>)
    /\ pending' = [i \in 1 .. 3 |-> LastSeq(Len(oplog) + i, b, oplog')]
    /\ UNCHANGED <<sweeping, daemon, adapter, history, spent>>

\* The rows that may be a memory's history: not those of the items before it.  Rows of
\* another namespace are not read here, so that theirs may as well stay.
History(b) == {s \in DOMAIN oplog : /\ b /\ oplog[s].mine /\ oplog[s].kind # "bulk"
                                    /\ oplog[s].by = 0} \ RowsOf(pending)

\* DELETE FROM memory_oplog WHERE memory_id: a purge takes the memory's rows along, an
\* earlier purge of the same id included.
Without(gone) ==
    [s \in DOMAIN oplog |-> IF {s, oplog[s].by} \cap gone = {} THEN oplog[s]
                            ELSE [oplog[s] EXCEPT !.by = Len(oplog) + 1]]

\* RetentionSweep: a transaction per item, which archives (gone is empty) or purges; the
\* events come after the last one.
sweep_item(b, gone) ==
    /\ pending = <<>> \/ (sweeping /\ pending[1].mine = b)
    /\ Len(oplog) < MaxSeq
    /\ oplog' = Append(Without(gone), ChangeRow(b))
    /\ pending' = Append(pending, OwnSeq(Len(oplog'), b, oplog'))
    /\ sweeping' = TRUE
    /\ gone = {} \/ spent.purges < MaxPurges
    /\ spent' = [spent EXCEPT !.purges = @ + IF gone = {} THEN 0 ELSE 1]
    /\ UNCHANGED <<daemon, adapter, history>>

\* The bulk record of the whole pass; failing to write it does not stop the events.
sweep_done ==
    /\ sweeping
    /\ Commit(<<NewRow(pending[1].mine, "bulk")>>) \/ UNCHANGED oplog
    /\ sweeping' = FALSE
    /\ UNCHANGED <<pending, daemon, adapter, history, spent>>

\* The send side of the broadcast channel: a full queue loses its oldest event, and
\* with no receiver the event is dropped.
publish_change ==
    /\ pending # <<>> /\ ~sweeping
    /\ pending' = Tail(pending)
    /\ receiver' =
        IF conn.phase = "closed" THEN receiver
        ELSE IF Len(receiver.queue) < Capacity
             THEN [receiver EXCEPT !.queue = Append(@, Head(pending))]
             ELSE [queue |-> Append(Tail(receiver.queue), Head(pending)),
                   lagged |-> Append(receiver.lagged, Head(receiver.queue))]
    /\ UNCHANGED <<oplog, sweeping, conn, wire, adapter, history, spent>>

-----------------------------------------------------------------------------
(* The connection *)

\* Registers the receiver before anything is read; replays when there is a cursor.
subscribe ==
    /\ conn.phase = "closed"
    /\ receiver' = NoReceiver
    /\ conn' = [phase |-> IF cursor = 0 THEN "live" ELSE "replay",
                after |-> cursor, replayedTo |-> cursor, failed |-> FALSE]
    /\ last' = 0
    /\ UNCHANGED <<writer, wire, adapter, polled, given, reported, first, spent>>

\* The numbers of a finite set in order (ORDER BY seq); there is one such sequence.
Ascending(S) == {rows \in [1 .. Cardinality(S) -> S] :
                    /\ Range(rows) = S
                    /\ \A i, j \in DOMAIN rows : i < j => rows[i] < rows[j]}

\* oplog_changes_since: the rows of one page, bulk rows included
Page(after) ==
    LET Scan == {s \in (after + 1) .. Len(oplog) : oplog[s].mine /\ oplog[s].by = 0}
    IN {s \in Scan : Cardinality({r \in Scan : r < s}) < Batch}
LastScanned(page, default) == IF page = <<>> THEN default ELSE page[Len(page)]

\* Mutant: a page with skipped rows looks like the tail
PageDoneByEvents(page) == Len(SelectSeq(page, LAMBDA s : oplog[s].kind # "bulk")) < Batch

PageDone(page) == Len(page) < Batch

\* The rows of the page an event is sent for, and the frames
Listed(page) == {s \in Range(page) : oplog[s].kind # "bulk"}
Replayed(rows) == [i \in 1 .. Len(rows) |-> ChangeFrame(OwnSeq(rows[i], TRUE, oplog))]

\* Mutant: the watermark stays at the subscriber's cursor
WatermarkUnmoved(page) == conn.replayedTo

\* The dedup watermark: the highest seq scanned
Watermark(page) == LastScanned(page, conn.replayedTo)

replay_page ==
    /\ conn.phase = "replay"
    /\ \E page \in Ascending(Page(conn.after)) :
          /\ \E rows \in Ascending(Listed(page)) : wire' = wire \o Replayed(rows)
          /\ conn' = [conn EXCEPT !.phase = IF PageDone(page) THEN "live" ELSE "replay",
                                  !.after = LastScanned(page, conn.after),
                                  !.replayedTo = Watermark(page)]
    /\ UNCHANGED <<writer, receiver, adapter, history, spent>>

\* A page that cannot be read ends the replay and the stream goes on live.
replay_fail ==
    /\ ReplayFails /\ conn.phase = "replay"
    /\ conn' = [conn EXCEPT !.phase = "live", !.failed = TRUE]
    /\ UNCHANGED <<writer, receiver, wire, adapter, history, spent>>

\* One turn of the live loop: a lag first, then the oldest queued event
stream_changes ==
    /\ conn.phase = "live"
    /\ \/ /\ receiver.lagged # <<>>
          /\ receiver' = [receiver EXCEPT !.lagged = <<>>]
          /\ wire' = Append(wire, LaggedFrame(receiver.lagged))
       \/ /\ receiver.lagged = <<>> /\ receiver.queue # <<>>
          /\ receiver' = [receiver EXCEPT !.queue = Tail(@)]
          /\ LET evt == Head(receiver.queue)
             IN wire' = IF evt.mine /\ evt.seq > conn.replayedTo
                        THEN Append(wire, ChangeFrame(evt)) ELSE wire
    /\ UNCHANGED <<writer, conn, adapter, history, spent>>

Closed == receiver' = NoReceiver /\ conn' = NoConn /\ wire' = <<>>

\* The socket breaks: frames not read yet are lost with it.
disconnect ==
    /\ conn.phase # "closed" /\ spent.breaks < MaxBreaks
    /\ Closed
    /\ spent' = [spent EXCEPT !.breaks = @ + 1]
    /\ UNCHANGED <<writer, adapter, history>>

\* The daemon dies and starts again: what the writer had committed stays, what it had
\* not published is never published.
daemon_death ==
    /\ spent.breaks < MaxBreaks
    /\ Closed
    /\ pending' = <<>> /\ sweeping' = FALSE
    /\ spent' = [spent EXCEPT !.breaks = @ + 1]
    /\ UNCHANGED <<oplog, adapter, history>>

-----------------------------------------------------------------------------
(* The adapter *)

\* ChangeBuffer::push
Push(evt) ==
    IF Len(ring) >= RingCapacity
    THEN /\ ring' = Append(Tail(ring), evt)
         /\ dropped' = dropped + 1
         /\ given' = given \cup RowsOf(<<Head(ring)>>)
    ELSE ring' = Append(ring, evt) /\ UNCHANGED <<dropped, given>>

pump_changes ==
    /\ wire # <<>>
    /\ wire' = Tail(wire)
    /\ LET frame == Head(wire)
       IN \/ /\ frame.type = "change"
             /\ cursor' = Larger(cursor, frame.event.seq)
             /\ first' = IF first = 0 THEN frame.event.seq ELSE first
             /\ last' = Larger(last, frame.event.row)
             /\ Push(frame.event)
          \/ /\ frame.type = "lagged"
             /\ dropped' = dropped + Len(frame.events)
             /\ given' = given \cup RowsOf(frame.events)
             /\ UNCHANGED <<cursor, ring, first, last>>
    /\ UNCHANGED <<writer, receiver, conn, polled, reported, spent>>

\* ChangeBuffer::drain
poll_changes(max) ==
    LET take == IF max < Len(ring) THEN max ELSE Len(ring)
    IN /\ ring # <<>> \/ dropped > 0
       /\ polled' = polled \cup RowsOf(SubSeq(ring, 1, take))
       /\ ring' = SubSeq(ring, take + 1, Len(ring))
       /\ reported' = reported + dropped
       /\ dropped' = 0
       /\ UNCHANGED <<writer, daemon, cursor, given, first, last, spent>>

-----------------------------------------------------------------------------
WriterNext ==
    \/ \E b \in BOOLEAN :
        \/ write_one(b) \/ write_superseding(b) \/ write_noop(b) \/ write_merge(b)
        \/ \E gone \in SUBSET History(b) : sweep_item(b, gone)
        \/ \E kind \in {"quiet", "bulk"} : write_quiet(b, kind)
    \/ sweep_done
    \/ publish_change

StreamNext == subscribe \/ replay_page \/ replay_fail \/ stream_changes

Next ==
    \/ WriterNext \/ StreamNext \/ pump_changes
    \/ disconnect \/ daemon_death
    \/ \E max \in 1 .. PollMax : poll_changes(max)

\* The writer thread publishes what it committed; the subscriber loop reconnects with
\* a bounded backoff for the adapter's lifetime; the two connection tasks are polled
\* by the runtime.  Nothing makes an agent poll or a client write.
Fairness ==
    /\ WF_vars(sweep_done) /\ WF_vars(publish_change)
    /\ WF_vars(subscribe) /\ WF_vars(replay_page) /\ WF_vars(stream_changes)
    /\ WF_vars(pump_changes)

Spec == Init /\ [][Next]_vars
FairSpec == Spec /\ Fairness

-----------------------------------------------------------------------------
(* Properties *)

\* The subscriber's changes after the first event it took that are still in the table
Changes == {s \in DOMAIN oplog : /\ oplog[s].mine /\ oplog[s].kind = "change"
                                 /\ oplog[s].by = 0 /\ first < s}

Accounted == polled \cup RowsOf(ring) \cup given

\* A change in the table at or below the cursor, which no replay brings again, was
\* handed to the agent, is buffered for it or is stood for by a dropped count, whatever connection
\* broke and whenever the daemon died.  The counts the agent is given are as large as
\* what they stand for.
NoSilentLoss ==
    /\ \A s \in Changes : s <= cursor => s \in Accounted
    /\ Cardinality(given) <= dropped + reported

\* The frames on the wire that tell of a row.  Left out are merge events behind a replay
\* that failed: their stamp is another row's, so they may follow their own row's replay.
Telling == {i \in DOMAIN wire :
               /\ wire[i].type = "change" /\ wire[i].event.row # 0
               /\ wire[i].event.seq = wire[i].event.row \/ ~conn.failed}

\* One connection never delivers a change twice, nor after a newer one, though the
\* replay and the receiver overlap: the dedup of stream_changes.
OverlapDeliveredOnce ==
    /\ \A i \in Telling : wire[i].event.row > last
    /\ \A i, j \in Telling : i < j => wire[i].event.row < wire[j].event.row

\* A subscriber that has a cursor ends up with every change, or with a count of it,
\* once the connection stays up.  A memory purged in the meantime takes its earlier
\* changes out of the oplog: then the purge itself is what arrives or is counted.
EveryChangeArrives ==
    \A s \in 1 .. MaxSeq :
        s \in Changes /\ first > 0 ~>
            s \in Accounted \/ (s \in DOMAIN oplog /\ oplog[s].by \in Accounted)
=============================================================================
