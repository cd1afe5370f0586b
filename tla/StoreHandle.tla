---------------------------- MODULE StoreHandle ----------------------------
(***************************************************************************)
(* The single-writer store handle of rb-daemon: tasks that send commands   *)
(* through a bounded queue to one writer thread and await its answer, the  *)
(* writer thread with its connection, the buffer of access bumps and its   *)
(* flusher, and the daemon's way down.                                     *)
(*                                                                         *)
(* A call is one command of one task.  What the command writes is in       *)
(* MemoryStore, what it publishes in ChangeStream: here it commits, fails  *)
(* and rolls back, fails and leaves its transaction open, or panics.       *)
(***************************************************************************)
EXTENDS Naturals, Sequences, FiniteSets

CONSTANTS
    Connections,  \* calls made by connection tasks
    Jobs,         \* calls made by the job scheduler's task
    Flusher,      \* the interval flusher's task
    Daemon,       \* the task of Daemon::run
    Capacity,     \* WRITE_QUEUE_CAPACITY
    MaxFaults,    \* bound: operations that fail, poison the connection or panic
    MaxRecalls    \* bound: accesses buffered

Callers == Connections \cup Jobs
Parties == Callers \cup {Flusher, Daemon}

ASSUME HandleAssumption ==
    /\ Capacity \in Nat \ {0}
    /\ Connections \cap Jobs = {}
    /\ Flusher \notin Callers /\ Daemon \notin Callers /\ Flusher # Daemon
    /\ MaxFaults \in Nat /\ MaxRecalls \in Nat

VARIABLES
    caller,         \* where each call is
    queue,          \* commands in the channel
    answer,         \* what each party's oneshot holds
    writer,         \* where the writer thread is
    current,        \* the command it has received
    conn,           \* its connection: autocommit, a transaction left open, none
    committed,      \* calls whose write is on disk
    shutting_down,  \* the flag send_write reads
    death,          \* the writer-death watch
    daemon,         \* where Daemon::run is
    flusher,        \* where the flusher is
    pending,        \* bumps in the access buffer
    drained,        \* bumps the flusher or the shutdown took out and has yet to send
    applied,        \* bumps on disk
    recalls,        \* bumps ever buffered
    faults          \* failed operations so far

channel == <<queue, answer>>
writerVars == <<writer, current, conn, committed, death>>
bumpVars == <<pending, drained, applied, recalls>>
vars == <<caller, queue, answer, writer, current, conn, committed, shutting_down, death,
          daemon, flusher, pending, drained, applied, recalls, faults>>

Idle == [kind |-> "none", from |-> Daemon, bumps |-> 0]
Command(kind, from, bumps) == [kind |-> kind, from |-> from, bumps |-> bumps]

Init ==
    /\ caller = [c \in Callers |-> "idle"]
    /\ queue = <<>> /\ answer = [p \in Parties |-> "none"]
    /\ writer = "ready" /\ current = Idle /\ conn = "autocommit"
    /\ committed = {} /\ shutting_down = FALSE /\ death = FALSE
    /\ daemon = "serving" /\ flusher = "none"
    /\ pending = 0 /\ drained = [p \in {Flusher, Daemon} |-> 0] /\ applied = 0
    /\ recalls = 0 /\ faults = 0

\* The receiver exists until the writer thread is gone
ChannelOpen == writer # "gone"
CanSend == ChannelOpen /\ Len(queue) < Capacity
Send(cmd) == queue' = Append(queue, cmd)

-----------------------------------------------------------------------------
(* send_write, from its check of the flag to the answer *)

send_write_check(c) ==
    /\ caller[c] = "idle"
    /\ daemon \in {"serving", "aborting"} \/ c \in Jobs
    /\ caller' = [caller EXCEPT ![c] = IF shutting_down THEN "err" ELSE "sending"]
    /\ UNCHANGED <<channel, writerVars, shutting_down, daemon, flusher, bumpVars, faults>>

\* The flag may have been set, and Shutdown sent, since it was read.
send_write_send(c) ==
    /\ caller[c] = "sending"
    /\ \/ /\ CanSend /\ Send(Command("write", c, 0))
          /\ caller' = [caller EXCEPT ![c] = "waiting"]
       \/ /\ ~ChannelOpen
          /\ caller' = [caller EXCEPT ![c] = "err"]
          /\ UNCHANGED queue
    /\ UNCHANGED <<answer, writerVars, shutting_down, daemon, flusher, bumpVars, faults>>

send_write_answer(c) ==
    /\ caller[c] = "waiting" /\ answer[c] # "none"
    /\ caller' = [caller EXCEPT ![c] = IF answer[c] = "ok" THEN "ok" ELSE "err"]
    /\ UNCHANGED <<channel, writerVars, shutting_down, daemon, flusher, bumpVars, faults>>

\* conns.shutdown and scheduler.abort end a task at the point where it waits; a command
\* it has sent stays in the queue.
abort(c) ==
    /\ daemon # "serving" /\ caller[c] \in {"sending", "waiting"}
    /\ caller' = [caller EXCEPT ![c] = "gone"]
    /\ UNCHANGED <<channel, writerVars, shutting_down, daemon, flusher, bumpVars, faults>>

-----------------------------------------------------------------------------
(* writer_loop *)

receive ==
    /\ writer = "ready" /\ queue # <<>>
    /\ current' = Head(queue) /\ queue' = Tail(queue)
    /\ writer' = "busy"
    /\ UNCHANGED <<caller, answer, conn, committed, death, shutting_down, daemon, flusher,
                   bumpVars, faults>>

\* Mutant: what a completed operation returned is not looked at
ResultSwallowed(outcome) == IF outcome = "panicked" THEN "err" ELSE "ok"

\* What the caller is told of an operation's outcome
Result(outcome) == IF outcome = "committed" THEN "ok" ELSE "err"

\* run_store_op: a panic, and an error that left the transaction open (the poison check)
NeedsReopen(outcome) == outcome \in {"poisoned", "panicked"}

\* The outcomes of an operation on this connection: none can begin a transaction
\* within a transaction.
Outcomes ==
    (IF conn = "autocommit" THEN {"committed"} ELSE {})
        \cup (IF faults < MaxFaults THEN {"rolledback", "poisoned", "panicked"} ELSE {})
        \cup (IF conn # "autocommit" THEN {"rolledback"} ELSE {})

\* The connection after the operation: reopened, not reopened, or as it was left
ConnsAfter(outcome) ==
    IF NeedsReopen(outcome) THEN {"autocommit", "none"}
    ELSE {IF outcome = "poisoned" THEN "intransaction" ELSE conn}

\* run_store_op and the arm's reply; a writer without a connection leaves the loop.
run_store_op ==
    /\ writer = "busy" /\ current.kind # "shutdown"
    /\ \E outcome \in Outcomes : \E after \in ConnsAfter(outcome) :
        /\ answer' = [answer EXCEPT ![current.from] = Result(outcome)]
        /\ conn' = after
        /\ writer' = IF after = "none" THEN "leaving" ELSE "ready"
        /\ committed' = IF outcome = "committed" /\ current.kind = "write"
                        THEN committed \cup {current.from} ELSE committed
        /\ applied' = IF outcome = "committed" THEN applied + current.bumps ELSE applied
        /\ faults' = IF outcome = "committed" \/ faults = MaxFaults THEN faults ELSE faults + 1
    /\ current' = Idle
    /\ UNCHANGED <<caller, queue, death, shutting_down, daemon, flusher, pending, drained, recalls>>

\* The Shutdown arm: the WAL is folded back, the death guard disarmed.
run_shutdown ==
    /\ writer = "busy" /\ current.kind = "shutdown"
    /\ answer' = [answer EXCEPT ![Daemon] = "ok"]
    /\ writer' = "disarmed" /\ conn' = "none" /\ current' = Idle
    /\ UNCHANGED <<caller, queue, committed, death, shutting_down, daemon, flusher, bumpVars, faults>>

\* Mutant: a writer that leaves for want of a connection is taken for a graceful exit
DiesSilently == FALSE

\* WriterDeathGuard, dropped armed
DiesLoudly == writer = "leaving"

writer_signals ==
    /\ writer \in {"leaving", "disarmed"}
    /\ death' = (death \/ DiesLoudly)
    /\ writer' = "closing"
    /\ UNCHANGED <<caller, channel, current, conn, committed, shutting_down, daemon, flusher,
                   bumpVars, faults>>

\* Mutant: the commands left in the channel keep their senders
UnansweredForgotten == answer

\* The receiver is dropped with the commands left in it, and so are their oneshots.
Unanswered ==
    [p \in Parties |->
        IF \E i \in DOMAIN queue : queue[i].from = p THEN "dropped" ELSE answer[p]]

writer_closes ==
    /\ writer = "closing"
    /\ writer' = "gone" /\ answer' = Unanswered /\ queue' = <<>>
    /\ UNCHANGED <<caller, current, conn, committed, death, shutting_down, daemon, flusher,
                   bumpVars, faults>>

-----------------------------------------------------------------------------
(* Access bumps *)

\* buffer_accesses, from a recall or a get, and ensure_access_flusher
buffer_accesses ==
    /\ daemon \in {"serving", "aborting"} /\ recalls < MaxRecalls
    /\ pending' = pending + 1 /\ recalls' = recalls + 1
    /\ flusher' = IF flusher = "none" THEN "asleep" ELSE flusher
    /\ UNCHANGED <<caller, channel, writerVars, shutting_down, daemon, drained, applied, faults>>

flusher_wakes ==
    /\ flusher = "asleep"
    /\ flusher' = IF shutting_down THEN "stopped" ELSE "awake"
    /\ UNCHANGED <<caller, channel, writerVars, shutting_down, daemon, bumpVars, faults>>

\* drain_access_buffer
flusher_drains ==
    /\ flusher = "awake"
    /\ drained' = [drained EXCEPT ![Flusher] = pending] /\ pending' = 0
    /\ flusher' = IF pending = 0 THEN "asleep" ELSE "sending"
    /\ UNCHANGED <<caller, channel, writerVars, shutting_down, daemon, applied, recalls, faults>>

flusher_sends ==
    /\ flusher = "sending"
    /\ drained' = [drained EXCEPT ![Flusher] = 0]
    /\ \/ /\ CanSend /\ Send(Command("flush", Flusher, drained[Flusher]))
          /\ answer' = [answer EXCEPT ![Flusher] = "none"]
          /\ flusher' = "waiting"
       \/ ~ChannelOpen /\ flusher' = "cut" /\ UNCHANGED channel
    /\ UNCHANGED <<caller, writerVars, shutting_down, daemon, pending, applied, recalls, faults>>

flusher_answered ==
    /\ flusher = "waiting" /\ answer[Flusher] # "none"
    /\ flusher' = IF answer[Flusher] = "dropped" THEN "cut" ELSE "asleep"
    /\ UNCHANGED <<caller, channel, writerVars, shutting_down, daemon, bumpVars, faults>>

-----------------------------------------------------------------------------
(* The end of Daemon::run and StoreHandle::shutdown *)

Goto(label) == daemon' = label

\* A signal, or the death of the writer
stop ==
    /\ daemon = "serving" /\ Goto("aborting")
    /\ UNCHANGED <<caller, channel, writerVars, shutting_down, flusher, bumpVars, faults>>

\* Mutant: the write path is closed before the final flush
conns_down_flagged ==
    /\ daemon = "aborting"
    /\ \A c \in Connections : caller[c] \notin {"sending", "waiting"}
    /\ Goto("draining") /\ shutting_down' = TRUE
    /\ UNCHANGED <<caller, channel, writerVars, flusher, bumpVars, faults>>

\* conns.shutdown has joined every connection; the scheduler is only told to stop.
conns_down ==
    /\ daemon = "aborting"
    /\ \A c \in Connections : caller[c] \notin {"sending", "waiting"}
    /\ Goto("draining")
    /\ UNCHANGED <<caller, channel, writerVars, shutting_down, flusher, bumpVars, faults>>

\* The final flush_accesses: drain, send_write, its answer
flush_drains ==
    /\ daemon = "draining"
    /\ drained' = [drained EXCEPT ![Daemon] = pending] /\ pending' = 0
    /\ Goto(IF pending = 0 THEN "flagging" ELSE "flushing")
    /\ UNCHANGED <<caller, channel, writerVars, shutting_down, flusher, applied, recalls, faults>>

flush_sends ==
    /\ daemon = "flushing"
    /\ drained' = [drained EXCEPT ![Daemon] = 0]
    /\ \/ /\ CanSend /\ ~shutting_down
          /\ Send(Command("flush", Daemon, drained[Daemon])) /\ Goto("flushed")
       \/ /\ ~ChannelOpen \/ shutting_down
          /\ Goto("flagging") /\ UNCHANGED queue
    /\ UNCHANGED <<caller, answer, writerVars, shutting_down, flusher, pending, applied, recalls, faults>>

flush_answered ==
    /\ daemon = "flushed" /\ answer[Daemon] # "none"
    /\ answer' = [answer EXCEPT ![Daemon] = "none"]
    /\ Goto("flagging")
    /\ UNCHANGED <<caller, queue, writerVars, shutting_down, flusher, bumpVars, faults>>

set_shutting_down ==
    /\ daemon = "flagging"
    /\ shutting_down' = TRUE
    /\ Goto("closing")
    /\ UNCHANGED <<caller, channel, writerVars, flusher, bumpVars, faults>>

shutdown_sends ==
    /\ daemon = "closing"
    /\ \/ CanSend /\ Send(Command("shutdown", Daemon, 0)) /\ Goto("closed")
       \/ ~ChannelOpen /\ Goto("joining") /\ UNCHANGED queue
    /\ UNCHANGED <<caller, answer, writerVars, shutting_down, flusher, bumpVars, faults>>

shutdown_answered ==
    /\ daemon = "closed" /\ answer[Daemon] # "none"
    /\ Goto("joining")
    /\ UNCHANGED <<caller, channel, writerVars, shutting_down, flusher, bumpVars, faults>>

join_writer ==
    /\ daemon = "joining" /\ writer = "gone"
    /\ Goto("done")
    /\ UNCHANGED <<caller, channel, writerVars, shutting_down, flusher, bumpVars, faults>>

-----------------------------------------------------------------------------
writer_loop == receive \/ run_store_op \/ run_shutdown \/ writer_signals \/ writer_closes

flusher_task == flusher_wakes \/ flusher_drains \/ flusher_sends \/ flusher_answered

shutdown ==
    \/ conns_down \/ flush_drains \/ flush_sends \/ flush_answered \/ set_shutting_down
    \/ shutdown_sends \/ shutdown_answered \/ join_writer

call(c) == send_write_send(c) \/ send_write_answer(c)

Next ==
    \/ \E c \in Callers : send_write_check(c) \/ call(c) \/ abort(c)
    \/ buffer_accesses \/ flusher_task \/ stop \/ shutdown \/ writer_loop

\* Tasks and the thread that can run do run; every task that waits for room in the queue
\* gets it in turn (nobody calls again and again); the select! in Daemon::run sees the writer-death watch; an aborted task
\* ends.  Nobody has to call, to recall or to stop the daemon.
Fairness ==
    /\ WF_vars(writer_loop) /\ WF_vars(flusher_task) /\ WF_vars(shutdown)
    /\ WF_vars(death /\ stop)
    /\ \A c \in Callers : WF_vars(call(c)) /\ (c \in Connections => WF_vars(abort(c)))

Spec == Init /\ [][Next]_vars
FairSpec == Spec /\ Fairness

-----------------------------------------------------------------------------
(* Properties *)

\* Still on its way to the writer, or with it
InFlight(c) == current.from = c \/ \E i \in DOMAIN queue : queue[i].from = c

\* A call answered ok is on disk, and one answered with an error is not and never will be:
\* neither a command left in the channel of a writer that went away nor one sent behind
\* Shutdown comes back to life, so a caller may try again without writing twice.
AnswerTellsTruth ==
    \A c \in Callers :
        /\ caller[c] = "ok" => c \in committed
        /\ caller[c] = "err" => c \notin committed /\ ~InFlight(c)

\* A recall's bump survives a shutdown that no failure and no flush under way disturbs:
\* the final drain runs before the flag closes the write path.
BumpsSurviveShutdown ==
    daemon = "done" /\ faults = 0 /\ flusher \in {"none", "asleep", "awake", "stopped"}
        => applied = recalls

\* Every call is answered, whatever the writer and the daemon do meanwhile.
EveryCallAnswered ==
    \A c \in Callers :
        caller[c] \in {"sending", "waiting"} ~> caller[c] \in {"ok", "err", "gone"}

\* A daemon whose writer is gone, and one that was told to stop, comes down: no zombie that
\* answers pings while every write fails, and no shutdown that waits for ever.  Nor does a
\* writer go on with a connection that a failed command left in its transaction.
NoZombie ==
    /\ (writer = "gone" \/ daemon # "serving") ~> daemon = "done"
    /\ [](writer = "ready" => conn = "autocommit")
=============================================================================
