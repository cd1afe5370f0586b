------------------------- MODULE StoreHandleProofs -------------------------
(***************************************************************************)
(* Theorems about StoreHandle, for any number of callers, any queue        *)
(* capacity and any number of failures.  The channel is a sequence, but    *)
(* what the callers are owed depends only on which commands are on their   *)
(* way: the set OnTheWay.                                                  *)
(***************************************************************************)
EXTENDS StoreHandle, SequenceTheorems, TLAPS

Commands == [kind : {"none", "write", "flush", "shutdown"}, from : Parties, bumps : Nat]

\* Every variable has its type.
Types ==
    /\ caller \in [Callers -> {"idle", "sending", "waiting", "ok", "err", "gone"}]
    /\ queue \in Seq(Commands) /\ current \in Commands
    /\ answer \in [Parties -> {"none", "ok", "err", "dropped"}]
    /\ writer \in {"ready", "busy", "leaving", "disarmed", "closing", "gone"}
    /\ conn \in {"autocommit", "intransaction", "none"}
    /\ committed \subseteq Parties
    /\ shutting_down \in BOOLEAN /\ death \in BOOLEAN
    /\ daemon \in {"serving", "aborting", "draining", "flushing", "flushed", "flagging",
                   "closing", "closed", "joining", "done"}
    /\ flusher \in {"none", "asleep", "awake", "sending", "waiting", "stopped", "cut"}
    /\ pending \in Nat /\ applied \in Nat /\ recalls \in Nat /\ faults \in Nat
    /\ drained \in [{Flusher, Daemon} -> Nat]

\* The commands sent and not yet carried out
InQueue == {queue[i] : i \in DOMAIN queue}
OnTheWay == InQueue \cup (IF writer = "busy" THEN {current} ELSE {})

\* Each party has one command in the channel at the most, and none behind the one the
\* writer has in hand.
OnePlace ==
    /\ \A i, j \in DOMAIN queue : queue[i].from = queue[j].from => i = j
    /\ writer = "busy" => \A i \in DOMAIN queue : queue[i].from # current.from
    /\ writer # "busy" => current = Idle

\* A command on its way has no answer yet, and its sender awaits one or was aborted.
Awaited(d) ==
    /\ answer[d.from] = "none"
    /\ d.from \in Callers => d.kind = "write" /\ d.bumps = 0 /\ caller[d.from] \in {"waiting", "gone"}
    /\ d.from = Flusher => d.kind = "flush" /\ flusher = "waiting"
    /\ d.from = Daemon => \/ daemon = "flushed" /\ d.kind = "flush"
                          \/ daemon = "closed" /\ d.kind = "shutdown" /\ d.bumps = 0

\* What a call's answer, its place and the disk say agree.
CallConsistent(c) ==
    /\ answer[c] = "ok" <=> c \in committed
    /\ caller[c] \in {"idle", "sending"} => answer[c] = "none"
    /\ caller[c] = "ok" => answer[c] = "ok"
    /\ caller[c] = "err" => answer[c] # "ok"

\* Where the daemon is on its way down, and what it has put away by then
Stages ==
    /\ daemon \notin {"flushed", "closed", "joining", "done"} => answer[Daemon] = "none"
    /\ shutting_down => daemon \in {"closing", "closed", "joining", "done"}
    /\ daemon \notin {"serving", "aborting", "draining"} => pending = 0
    /\ daemon # "flushing" => drained[Daemon] = 0
    /\ flusher # "sending" => drained[Flusher] = 0
    /\ writer \in {"ready", "busy"} => conn = "autocommit"

\* Without a failure the writer goes away only after Shutdown.
Calm ==
    /\ writer # "leaving"
    /\ writer \in {"disarmed", "closing", "gone"} => daemon \in {"closed", "joining", "done"}

\* A flush the flusher sent behind Shutdown
FlusherLost == flusher = "cut" \/ (flusher = "waiting" /\ answer[Flusher] = "dropped")

\* Every bump is on disk, in the buffer, drained, or carried by a flush on its way: x by
\* the flusher's, y by the daemon's.
Carried(x, y) ==
    /\ recalls = applied + pending + drained[Flusher] + drained[Daemon] + x + y
    /\ \A d \in OnTheWay : /\ d.from = Flusher => d.bumps = x
                           /\ d.from = Daemon => d.bumps = y
    /\ (\A d \in OnTheWay : d.from # Flusher) /\ ~FlusherLost => x = 0
    /\ (\A d \in OnTheWay : d.from # Daemon) => y = 0

HandleInv ==
    /\ Types
    /\ OnePlace
    /\ \A d \in OnTheWay : Awaited(d)
    /\ \A c \in Callers : CallConsistent(c)
    /\ Stages
    /\ faults = 0 => Calm /\ \E x, y \in Nat : Carried(x, y)

-----------------------------------------------------------------------------
(* The channel *)

\* What run_store_op does, its outcome and its connection named
Ran(outcome, after) ==
    /\ writer = "busy" /\ current.kind # "shutdown"
    /\ outcome \in {"committed", "rolledback", "poisoned", "panicked"}
    /\ after \in {conn, "autocommit", "none"}
    /\ outcome # "committed" /\ conn = "autocommit" => faults < MaxFaults
    /\ answer' = [answer EXCEPT ![current.from] = Result(outcome)]
    /\ conn' = after
    /\ writer' = IF after = "none" THEN "leaving" ELSE "ready"
    /\ committed' = IF outcome = "committed" /\ current.kind = "write"
                    THEN committed \cup {current.from} ELSE committed
    /\ applied' = IF outcome = "committed" THEN applied + current.bumps ELSE applied
    /\ faults' = IF outcome = "committed" \/ faults = MaxFaults THEN faults ELSE faults + 1
    /\ outcome = "committed" => after = conn
    /\ current' = Idle
    /\ UNCHANGED <<caller, queue, death, shutting_down, daemon, flusher, pending, drained, recalls>>

LEMMA StoreOpRan ==
    ASSUME run_store_op PROVE \E outcome, after : Ran(outcome, after)
<1>1. PICK outcome \in Outcomes : \E after \in ConnsAfter(outcome) :
          /\ answer' = [answer EXCEPT ![current.from] = Result(outcome)]
          /\ conn' = after
          /\ writer' = IF after = "none" THEN "leaving" ELSE "ready"
          /\ committed' = IF outcome = "committed" /\ current.kind = "write"
                          THEN committed \cup {current.from} ELSE committed
          /\ applied' = IF outcome = "committed" THEN applied + current.bumps ELSE applied
          /\ faults' = IF outcome = "committed" \/ faults = MaxFaults THEN faults ELSE faults + 1
  BY DEF run_store_op
<1>2. PICK after \in ConnsAfter(outcome) :
          /\ answer' = [answer EXCEPT ![current.from] = Result(outcome)]
          /\ conn' = after
          /\ writer' = IF after = "none" THEN "leaving" ELSE "ready"
          /\ committed' = IF outcome = "committed" /\ current.kind = "write"
                          THEN committed \cup {current.from} ELSE committed
          /\ applied' = IF outcome = "committed" THEN applied + current.bumps ELSE applied
          /\ faults' = IF outcome = "committed" \/ faults = MaxFaults THEN faults ELSE faults + 1
  BY <1>1
<1>3. /\ outcome \in {"committed", "rolledback", "poisoned", "panicked"}
      /\ outcome # "committed" /\ conn = "autocommit" => faults < MaxFaults
  BY DEF Outcomes
<1>4. after \in {conn, "autocommit", "none"} /\ (outcome = "committed" => after = conn)
  BY <1>3 DEF ConnsAfter, NeedsReopen
<1>5. Ran(outcome, after)
  BY <1>2, <1>3, <1>4 DEF run_store_op, Ran
<1>6. QED BY <1>5

LEMMA TypesStep == Types /\ [Next]_vars => Types'
<1> SUFFICES ASSUME Types, [Next]_vars PROVE Types'
  OBVIOUS
<1> USE DEF Types
<1>1. Idle \in Commands
  BY DEF Idle, Commands, Parties
<1>2. \A c \in Callers : Command("write", c, 0) \in Commands
  BY DEF Command, Commands, Parties
<1>3. \A n \in Nat, p \in {Flusher, Daemon}, k \in {"flush", "shutdown"} : Command(k, p, n) \in Commands
  BY DEF Command, Commands, Parties
<1>4. ASSUME NEW c \in Callers, send_write_check(c) \/ call(c) \/ abort(c)
      PROVE  Types'
  <2>1. CASE send_write_check(c)
    BY <2>1 DEF send_write_check, channel, writerVars, bumpVars
  <2>2. CASE send_write_send(c)
    <3>1. queue' \in Seq(Commands)
      <4>1. Append(queue, Command("write", c, 0)) \in Seq(Commands)
        BY <1>2
      <4>2. QED BY <2>2, <4>1 DEF send_write_send, Send
    <3>2. QED BY <2>2, <3>1 DEF send_write_send, writerVars, bumpVars
  <2>3. CASE send_write_answer(c)
    BY <2>3 DEF send_write_answer, channel, writerVars, bumpVars
  <2>4. CASE abort(c)
    BY <2>4 DEF abort, channel, writerVars, bumpVars
  <2>5. QED BY <1>4, <2>1, <2>2, <2>3, <2>4 DEF call
<1>5. CASE buffer_accesses
  BY <1>5 DEF buffer_accesses, channel, writerVars
<1>6. CASE flusher_task
  <2>1. CASE flusher_wakes
    BY <2>1 DEF flusher_wakes, channel, writerVars, bumpVars
  <2>2. CASE flusher_drains
    BY <2>2 DEF flusher_drains, channel, writerVars
  <2>3. CASE flusher_sends
    <3>1. queue' \in Seq(Commands)
      <4>1. queue \in Seq(Commands) /\ drained[Flusher] \in Nat
        OBVIOUS
      <4>2. Append(queue, Command("flush", Flusher, drained[Flusher])) \in Seq(Commands)
        BY <1>3, <4>1
      <4>3. QED BY <2>3, <4>1, <4>2 DEF flusher_sends, Send, channel
    <3>2. QED BY <2>3, <3>1 DEF flusher_sends, channel, writerVars
  <2>4. CASE flusher_answered
    BY <2>4 DEF flusher_answered, channel, writerVars, bumpVars
  <2>5. QED BY <1>6, <2>1, <2>2, <2>3, <2>4 DEF flusher_task
<1>7. CASE stop
  BY <1>7 DEF stop, Goto, channel, writerVars, bumpVars
<1>8. CASE shutdown
  <2>1. CASE conns_down
    BY <2>1 DEF conns_down, Goto, channel, writerVars, bumpVars
  <2>2. CASE flush_drains
    BY <2>2 DEF flush_drains, Goto, channel, writerVars
  <2>3. CASE flush_sends
    <3>1. queue' \in Seq(Commands)
      BY <1>3, <2>3 DEF flush_sends, Send
    <3>2. QED BY <2>3, <3>1 DEF flush_sends, Goto, writerVars
  <2>4. CASE flush_answered
    BY <2>4 DEF flush_answered, Goto, writerVars, bumpVars
  <2>5. CASE set_shutting_down
    BY <2>5 DEF set_shutting_down, Goto, channel, writerVars, bumpVars
  <2>6. CASE shutdown_sends
    <3>1. queue' \in Seq(Commands)
      BY <1>3, <2>6 DEF shutdown_sends, Send
    <3>2. QED BY <2>6, <3>1 DEF shutdown_sends, Goto, writerVars, bumpVars
  <2>7. CASE shutdown_answered
    BY <2>7 DEF shutdown_answered, Goto, channel, writerVars, bumpVars
  <2>8. CASE join_writer
    BY <2>8 DEF join_writer, Goto, channel, writerVars, bumpVars
  <2>9. QED
    BY <1>8, <2>1, <2>2, <2>3, <2>4, <2>5, <2>6, <2>7, <2>8 DEF shutdown
<1>9. CASE writer_loop
  <2>1. CASE receive
    BY <2>1 DEF receive, bumpVars
  <2>2. CASE run_store_op
    <3>1. PICK outcome, after : Ran(outcome, after)
      BY <2>2, StoreOpRan
    <3>2. Result(outcome) \in {"ok", "err"} /\ after \in {"autocommit", "intransaction", "none"}
      BY <3>1 DEF Result, Ran
    <3>3. current.bumps \in Nat /\ current.from \in Parties
      BY DEF Commands
    <3>4. QED BY <1>1, <3>1, <3>2, <3>3 DEF Ran
  <2>3. CASE run_shutdown
    BY <1>1, <2>3 DEF run_shutdown, bumpVars
  <2>4. CASE writer_signals
    BY <2>4 DEF writer_signals, DiesLoudly, channel, bumpVars
  <2>5. CASE writer_closes
    BY <2>5 DEF writer_closes, Unanswered, bumpVars
  <2>6. QED BY <1>9, <2>1, <2>2, <2>3, <2>4, <2>5 DEF writer_loop
<1>10. CASE UNCHANGED vars
  BY <1>10 DEF vars
<1>11. QED BY <1>4, <1>5, <1>6, <1>7, <1>8, <1>9, <1>10 DEF Next

LEMMA OnTheWayTyped == Types => \A d \in OnTheWay : d \in Commands /\ d.from \in Parties
<1>1. Types => \A d \in OnTheWay : d \in Commands
  BY DEF Types, OnTheWay, InQueue
<1>2. QED BY <1>1 DEF Commands

\* The four things that happen to the channel, as what they do to the set
LEMMA SendAdds ==
    ASSUME Types, OnePlace, NEW cmd \in Commands, Send(cmd), UNCHANGED <<writer, current>>,
           \A d \in OnTheWay : d.from # cmd.from
    PROVE  OnePlace' /\ OnTheWay' = OnTheWay \cup {cmd}
<1>1. /\ queue' = Append(queue, cmd) /\ queue \in Seq(Commands)
      /\ DOMAIN queue' = DOMAIN queue \cup {Len(queue) + 1}
      /\ queue'[Len(queue) + 1] = cmd /\ Len(queue) + 1 \notin DOMAIN queue
      /\ \A i \in DOMAIN queue : queue'[i] = queue[i]
  BY DEF Types, Send
<1>2. \A i \in DOMAIN queue : queue[i].from # cmd.from
  BY DEF OnTheWay, InQueue
<1>3. writer = "busy" => current.from # cmd.from
  BY DEF OnTheWay
<1>4. OnePlace'
  BY <1>1, <1>2, <1>3 DEF OnePlace
<1>5. InQueue' = InQueue \cup {cmd}
  BY <1>1 DEF InQueue
<1>6. QED BY <1>4, <1>5 DEF OnTheWay

LEMMA ReceiveKeeps ==
    ASSUME Types, OnePlace, receive
    PROVE  OnePlace' /\ OnTheWay' = OnTheWay
<1>1. /\ queue \in Seq(Commands) /\ queue # <<>> /\ queue' = Tail(queue)
      /\ writer = "ready" /\ writer' = "busy" /\ current' = queue[1]
  BY DEF receive, Types
<1>2. /\ Len(queue) > 0 /\ DOMAIN queue = 1 .. Len(queue) /\ Len(queue) \in Nat
      /\ DOMAIN queue' = 1 .. (Len(queue) - 1)
      /\ \A i \in DOMAIN queue' : queue'[i] = queue[i + 1]
  BY <1>1
<1>3. OnePlace'
  BY <1>1, <1>2 DEF OnePlace
<1>4. InQueue' \cup {queue[1]} = InQueue
  <2>1. ASSUME NEW i \in DOMAIN queue PROVE queue[i] \in InQueue' \cup {queue[1]}
    <3>1. CASE i = 1
      BY <3>1
    <3>2. CASE i # 1
      <4>1. i - 1 \in DOMAIN queue' /\ queue'[i - 1] = queue[i]
        BY <1>2, <3>2
      <4>2. QED BY <4>1 DEF InQueue
    <3>3. QED BY <3>1, <3>2
  <2>2. \A i \in DOMAIN queue' : queue'[i] \in InQueue
    BY <1>2 DEF InQueue
  <2>3. queue[1] \in InQueue
    BY <1>2 DEF InQueue
  <2>4. QED BY <2>1, <2>2, <2>3 DEF InQueue
<1>5. QED BY <1>1, <1>3, <1>4 DEF OnTheWay

LEMMA FinishRemoves ==
    ASSUME OnePlace, writer = "busy", writer' # "busy", current' = Idle, UNCHANGED queue
    PROVE  /\ OnePlace' /\ OnTheWay' = OnTheWay \ {current}
           /\ \A d \in OnTheWay' : d.from # current.from
<1>1. \A d \in InQueue : d.from # current.from
  BY DEF OnePlace, InQueue
<1>2. OnTheWay' = InQueue /\ OnTheWay = InQueue \cup {current}
  BY DEF OnTheWay, InQueue
<1>3. OnePlace'
  BY DEF OnePlace
<1>4. QED BY <1>1, <1>2, <1>3

LEMMA CloseRemovesAll ==
    ASSUME OnePlace, writer_closes
    PROVE  OnePlace' /\ OnTheWay' = {} /\ OnTheWay = InQueue
  BY DEF writer_closes, OnePlace, OnTheWay, InQueue

LEMMA ChannelUntouched ==
    ASSUME OnePlace, UNCHANGED queue, UNCHANGED current, writer' = writer \/ {writer, writer'} \subseteq {"leaving", "disarmed", "closing"}
    PROVE  OnePlace' /\ OnTheWay' = OnTheWay
  BY DEF OnePlace, OnTheWay, InQueue

-----------------------------------------------------------------------------
(* The invariant *)

AllAwaited == \A d \in OnTheWay : Awaited(d)
AllConsistent == \A c \in Callers : CallConsistent(c)
BumpsKept == faults = 0 => Calm /\ \E x, y \in Nat : Carried(x, y)

\* A step that moves one caller, and nothing the bumps depend on
LEMMA CallerStep ==
    ASSUME HandleInv, NEW c \in Callers, send_write_check(c) \/ send_write_answer(c) \/ abort(c)
    PROVE  OnePlace' /\ AllAwaited' /\ AllConsistent' /\ Stages' /\ BumpsKept'
<1>1. UNCHANGED <<queue, answer, writer, current, conn, committed, death, shutting_down, daemon,
                  flusher, pending, drained, applied, recalls, faults>>
  BY DEF send_write_check, send_write_answer, abort, channel, writerVars, bumpVars
<1>2. OnePlace' /\ OnTheWay' = OnTheWay
  BY <1>1, ChannelUntouched DEF HandleInv
<1>3. /\ caller \in [Callers -> {"idle", "sending", "waiting", "ok", "err", "gone"}]
      /\ \A k \in Callers \ {c} : caller'[k] = caller[k]
  BY DEF HandleInv, Types, send_write_check, send_write_answer, abort
<1>4. AllAwaited'
  <2> SUFFICES ASSUME NEW d \in OnTheWay PROVE Awaited(d)'
    BY <1>2 DEF AllAwaited
  <2>1. Awaited(d)
    BY DEF HandleInv
  <2>2. d.from = c => caller'[c] \in {"waiting", "gone"}
    BY <1>3, <2>1 DEF Awaited, send_write_check, send_write_answer, abort
  <2>3. QED BY <1>1, <1>3, <2>1, <2>2 DEF Awaited
<1>5. AllConsistent'
  <2> SUFFICES ASSUME NEW k \in Callers PROVE CallConsistent(k)'
    BY DEF AllConsistent
  <2>1. CallConsistent(k)
    BY DEF HandleInv
  <2>2. CASE k # c
    BY <1>1, <1>3, <2>1, <2>2 DEF CallConsistent
  <2>3. CASE k = c
    BY <1>1, <1>3, <2>1, <2>3 DEF CallConsistent, send_write_check, send_write_answer, abort
  <2>4. QED BY <2>2, <2>3
<1>6. Stages'
  BY <1>1 DEF HandleInv, Stages
<1>7. BumpsKept'
  <2> SUFFICES ASSUME faults' = 0 PROVE Calm' /\ \E x, y \in Nat : Carried(x, y)'
    BY DEF BumpsKept
  <2>1. PICK x \in Nat, y \in Nat : Carried(x, y)
    BY <1>1 DEF HandleInv
  <2>2. Carried(x, y)' /\ Calm'
    BY <1>1, <1>2, <2>1 DEF HandleInv, Carried, FlusherLost, Calm
  <2>3. QED BY <2>2
<1>8. QED BY <1>2, <1>4, <1>5, <1>6, <1>7

LEMMA CallSendStep ==
    ASSUME HandleInv, NEW c \in Callers, send_write_send(c)
    PROVE  OnePlace' /\ AllAwaited' /\ AllConsistent' /\ Stages' /\ BumpsKept'
<1>1. /\ UNCHANGED <<answer, writer, current, conn, committed, death, shutting_down, daemon,
                     flusher, pending, drained, applied, recalls, faults>>
      /\ caller[c] = "sending" /\ caller'[c] \in {"waiting", "err"}
      /\ \A k \in Callers \ {c} : caller'[k] = caller[k]
  BY DEF HandleInv, Types, send_write_send, writerVars, bumpVars
<1> DEFINE cmd == Command("write", c, 0)
<1>2. cmd.from = c /\ cmd.kind = "write" /\ cmd.bumps = 0 /\ cmd \in Commands /\ c # Flusher /\ c # Daemon
  BY HandleAssumption DEF Command, Commands, Parties
<1>3. \A d \in OnTheWay : Awaited(d) /\ d.from # c
  BY <1>1 DEF HandleInv, Awaited
<1> HIDE DEF cmd
<1>4. /\ OnePlace'
      /\ \/ OnTheWay' = OnTheWay
         \/ OnTheWay' = OnTheWay \cup {cmd} /\ caller'[c] = "waiting"
  <2>1. CASE Send(cmd) /\ caller'[c] = "waiting"
    BY <1>1, <1>2, <1>3, <2>1, SendAdds DEF HandleInv
  <2>2. CASE UNCHANGED queue
    BY <1>1, <2>2, ChannelUntouched DEF HandleInv
  <2>3. QED BY <2>1, <2>2 DEF send_write_send, cmd, HandleInv, Types
<1>5. AllAwaited'
  <2>1. answer[c] = "none"
    BY <1>1 DEF HandleInv, CallConsistent
  <2>2. QED BY <1>1, <1>2, <1>3, <1>4, <2>1 DEF AllAwaited, Awaited
<1>6. AllConsistent'
  BY <1>1 DEF HandleInv, AllConsistent, CallConsistent
<1>7. Stages'
  BY <1>1 DEF HandleInv, Stages
<1>8. BumpsKept'
  <2> SUFFICES ASSUME faults' = 0 PROVE Calm' /\ \E x, y \in Nat : Carried(x, y)'
    BY DEF BumpsKept
  <2>1. PICK x \in Nat, y \in Nat : Carried(x, y)
    BY <1>1 DEF HandleInv
  <2>2. Carried(x, y)' /\ Calm'
    BY <1>1, <1>2, <1>4, <2>1 DEF HandleInv, Carried, FlusherLost, Calm
  <2>3. QED BY <2>2
<1>9. QED BY <1>4, <1>5, <1>6, <1>7, <1>8

LEMMA BufferStep ==
    ASSUME HandleInv, buffer_accesses
    PROVE  OnePlace' /\ AllAwaited' /\ AllConsistent' /\ Stages' /\ BumpsKept'
<1>1. /\ UNCHANGED <<caller, queue, answer, writer, current, conn, committed, death, shutting_down,
                     daemon, drained, applied, faults>>
      /\ daemon \in {"serving", "aborting"}
      /\ pending' = pending + 1 /\ recalls' = recalls + 1
      /\ flusher' = IF flusher = "none" THEN "asleep" ELSE flusher
  BY DEF buffer_accesses, channel, writerVars
<1>2. OnePlace' /\ OnTheWay' = OnTheWay
  BY <1>1, ChannelUntouched DEF HandleInv
<1>3. AllAwaited' /\ AllConsistent'
  BY <1>1, <1>2 DEF HandleInv, AllAwaited, Awaited, AllConsistent, CallConsistent
<1>4. Stages'
  BY <1>1 DEF HandleInv, Stages
<1>5. BumpsKept'
  <2> SUFFICES ASSUME faults' = 0 PROVE Calm' /\ \E x, y \in Nat : Carried(x, y)'
    BY DEF BumpsKept
  <2>1. PICK x \in Nat, y \in Nat : Carried(x, y)
    BY <1>1 DEF HandleInv
  <2>2. /\ applied \in Nat /\ pending \in Nat /\ recalls \in Nat
        /\ drained[Flusher] \in Nat /\ drained[Daemon] \in Nat
    BY DEF HandleInv, Types
  <2>3. Carried(x, y)' /\ Calm'
    BY <1>1, <1>2, <2>1, <2>2 DEF HandleInv, Carried, FlusherLost, Calm
  <2>4. QED BY <2>3
<1>6. QED BY <1>2, <1>3, <1>4, <1>5

\* flusher_sends apart: nothing is sent
LEMMA FlusherLocalStep ==
    ASSUME HandleInv, flusher_wakes \/ flusher_drains \/ flusher_answered
    PROVE  OnePlace' /\ AllAwaited' /\ AllConsistent' /\ Stages' /\ BumpsKept'
<1>1. UNCHANGED <<caller, queue, answer, writer, current, conn, committed, death, shutting_down,
                  daemon, applied, recalls, faults>>
  BY DEF flusher_wakes, flusher_drains, flusher_answered, channel, writerVars, bumpVars
<1>2. OnePlace' /\ OnTheWay' = OnTheWay
  BY <1>1, ChannelUntouched DEF HandleInv
<1>3. \A d \in OnTheWay : Awaited(d) /\ d.from # Flusher
  BY DEF HandleInv, Awaited, flusher_wakes, flusher_drains, flusher_answered
<1>4. AllAwaited' /\ AllConsistent'
  BY <1>1, <1>2, <1>3 DEF HandleInv, AllAwaited, Awaited, AllConsistent, CallConsistent
<1>5. /\ pending \in Nat /\ drained \in [{Flusher, Daemon} -> Nat] /\ Flusher # Daemon
      /\ applied \in Nat /\ recalls \in Nat
  BY HandleAssumption DEF HandleInv, Types
<1>6. Stages /\ flusher # "sending" /\ drained[Flusher] = 0
  BY DEF HandleInv, Stages, flusher_wakes, flusher_drains, flusher_answered
<1>7. /\ \/ pending' = pending /\ drained' = drained
         \/ pending' = 0 /\ drained'[Flusher] = pending
      /\ drained'[Daemon] = drained[Daemon]
      /\ flusher' # "sending" => drained'[Flusher] = 0
  BY <1>5, <1>6 DEF flusher_wakes, flusher_drains, flusher_answered, bumpVars
<1>8. Stages'
  BY <1>1, <1>6, <1>7 DEF Stages
<1>9. BumpsKept'
  <2> SUFFICES ASSUME faults' = 0 PROVE Calm' /\ \E x, y \in Nat : Carried(x, y)'
    BY DEF BumpsKept
  <2>1. PICK x \in Nat, y \in Nat : Carried(x, y)
    BY <1>1 DEF HandleInv
  <2>2. recalls' = applied' + pending' + drained'[Flusher] + drained'[Daemon] + x + y
    BY <1>1, <1>5, <1>6, <1>7, <2>1 DEF Carried
  <2>3. FlusherLost' <=> FlusherLost
    BY <1>1 DEF FlusherLost, flusher_wakes, flusher_drains, flusher_answered
  <2>4. Carried(x, y)' /\ Calm'
    BY <1>1, <1>2, <2>1, <2>2, <2>3 DEF HandleInv, Carried, Calm
  <2>5. QED BY <2>4
<1>10. QED BY <1>2, <1>4, <1>8, <1>9

LEMMA FlusherSendStep ==
    ASSUME HandleInv, flusher_sends
    PROVE  OnePlace' /\ AllAwaited' /\ AllConsistent' /\ Stages' /\ BumpsKept'
<1>1. /\ UNCHANGED <<caller, writer, current, conn, committed, death, shutting_down,
                     daemon, pending, applied, recalls, faults>>
      /\ flusher = "sending"
  BY DEF flusher_sends, writerVars
<1>2. /\ pending \in Nat /\ drained \in [{Flusher, Daemon} -> Nat] /\ Flusher # Daemon
      /\ applied \in Nat /\ recalls \in Nat /\ answer \in [Parties -> {"none", "ok", "err", "dropped"}]
      /\ Flusher \notin Callers /\ Daemon \notin Callers
      /\ Flusher \in Parties /\ Daemon \in Parties /\ Callers \subseteq Parties
  BY HandleAssumption DEF HandleInv, Types, Parties
<1>3. drained'[Flusher] = 0 /\ drained'[Daemon] = drained[Daemon]
  BY <1>2 DEF flusher_sends
<1>4. \A d \in OnTheWay : Awaited(d) /\ d.from # Flusher /\ d.from \in Parties
  BY <1>1, OnTheWayTyped DEF HandleInv, Awaited
<1>5. Stages'
  <2>1. answer'[Daemon] = answer[Daemon]
    BY <1>2 DEF flusher_sends, channel
  <2>2. QED BY <1>1, <1>3, <2>1 DEF HandleInv, Stages
<1>6. CASE Send(Command("flush", Flusher, drained[Flusher])) /\ flusher' = "waiting"
           /\ answer' = [answer EXCEPT ![Flusher] = "none"]
  <2>0. PICK n \in Nat : n = drained[Flusher]
    BY <1>2
  <2> DEFINE cmd == Command("flush", Flusher, n)
  <2>1. cmd \in Commands /\ cmd.from = Flusher /\ cmd.kind = "flush" /\ cmd.bumps = n
    BY <1>2 DEF Command, Commands
  <2>2. Send(cmd)
    BY <1>6, <2>0
  <2> HIDE DEF cmd
  <2>3. OnePlace' /\ OnTheWay' = OnTheWay \cup {cmd}
    BY <1>1, <1>4, <2>1, <2>2, SendAdds DEF HandleInv
  <2>4. answer'[Flusher] = "none" /\ \A p \in Parties : p # Flusher => answer'[p] = answer[p]
    BY <1>2, <1>6
  <2>5. AllAwaited'
    <3>1. Awaited(cmd)'
      BY <1>2, <1>6, <2>1, <2>4 DEF Awaited
    <3>2. \A d \in OnTheWay : Awaited(d)'
      BY <1>1, <1>4, <1>6, <2>4 DEF Awaited
    <3>3. QED BY <2>3, <3>1, <3>2 DEF AllAwaited
  <2>6. AllConsistent'
    BY <1>1, <1>2, <2>4 DEF HandleInv, AllConsistent, CallConsistent
  <2>7. BumpsKept'
    <3> SUFFICES ASSUME faults' = 0 PROVE Calm' /\ \E x, y \in Nat : Carried(x, y)'
      BY DEF BumpsKept
    <3>1. PICK x \in Nat, y \in Nat : Carried(x, y)
      BY <1>1 DEF HandleInv
    <3>2. x = 0
      BY <1>1, <1>4, <3>1 DEF Carried, FlusherLost
    <3>3. Carried(n, y)'
      BY <1>1, <1>2, <1>3, <1>4, <2>0, <2>1, <2>3, <3>1, <3>2 DEF Carried
    <3>4. Calm'
      BY <1>1 DEF HandleInv, Calm
    <3>5. QED BY <3>3, <3>4
  <2>8. QED BY <1>5, <2>3, <2>5, <2>6, <2>7
<1>7. CASE ~ChannelOpen /\ flusher' = "cut" /\ UNCHANGED channel
  <2>1. UNCHANGED <<queue, answer>>
    BY <1>7 DEF channel
  <2>2. OnePlace' /\ OnTheWay' = OnTheWay
    BY <1>1, <2>1, ChannelUntouched DEF HandleInv
  <2>3. AllAwaited' /\ AllConsistent'
    BY <1>1, <1>4, <2>1, <2>2 DEF HandleInv, AllAwaited, Awaited, AllConsistent, CallConsistent
  <2>4. BumpsKept'
    <3> SUFFICES ASSUME faults' = 0 PROVE Calm' /\ \E x, y \in Nat : Carried(x, y)'
      BY DEF BumpsKept
    <3>1. PICK x \in Nat, y \in Nat : Carried(x, y)
      BY <1>1 DEF HandleInv
    <3>2. PICK n \in Nat : n = x + drained[Flusher]
      BY <1>2
    <3>3. Carried(n, y)'
      BY <1>1, <1>2, <1>3, <1>4, <1>7, <2>2, <3>1, <3>2 DEF Carried, FlusherLost
    <3>4. Calm'
      BY <1>1 DEF HandleInv, Calm
    <3>5. QED BY <3>2, <3>3, <3>4
  <2>5. QED BY <1>5, <2>2, <2>3, <2>4
<1>8. QED BY <1>6, <1>7 DEF flusher_sends

\* The daemon's steps that send nothing
LEMMA DaemonLocalStep ==
    ASSUME HandleInv,
           \/ stop \/ conns_down \/ flush_drains \/ flush_answered \/ set_shutting_down
           \/ shutdown_answered \/ join_writer
    PROVE  OnePlace' /\ AllAwaited' /\ AllConsistent' /\ Stages' /\ BumpsKept'
<1>1. UNCHANGED <<caller, queue, writer, current, conn, committed, death, flusher,
                  applied, recalls, faults>>
  BY DEF stop, conns_down, flush_drains, flush_answered, set_shutting_down, shutdown_answered,
         join_writer, channel, writerVars, bumpVars
<1>2. OnePlace' /\ OnTheWay' = OnTheWay
  BY <1>1, ChannelUntouched DEF HandleInv
<1>3. /\ pending \in Nat /\ drained \in [{Flusher, Daemon} -> Nat] /\ Flusher # Daemon
      /\ applied \in Nat /\ recalls \in Nat /\ answer \in [Parties -> {"none", "ok", "err", "dropped"}]
      /\ Flusher \notin Callers /\ Daemon \notin Callers
      /\ Flusher \in Parties /\ Daemon \in Parties /\ Callers \subseteq Parties
  BY HandleAssumption DEF HandleInv, Types, Parties
<1>4. \A d \in OnTheWay : Awaited(d) /\ d.from # Daemon /\ d.from \in Parties
  <2>1. answer[Daemon] # "none" \/ daemon \notin {"flushed", "closed"}
    BY DEF stop, conns_down, flush_drains, flush_answered, set_shutting_down, shutdown_answered,
           join_writer, Goto
  <2>2. QED BY <2>1, OnTheWayTyped DEF HandleInv, Awaited
<1>5. \A p \in Parties \ {Daemon} : answer'[p] = answer[p]
  BY <1>3 DEF stop, conns_down, flush_drains, flush_answered, set_shutting_down,
              shutdown_answered, join_writer, channel
<1>6. AllAwaited'
  BY <1>1, <1>2, <1>4, <1>5 DEF AllAwaited, Awaited
<1>7. AllConsistent'
  BY <1>1, <1>3, <1>5 DEF HandleInv, AllConsistent, CallConsistent
<1>8. /\ drained'[Flusher] = drained[Flusher]
      /\ \/ pending' = pending /\ drained'[Daemon] = drained[Daemon]
         \/ daemon = "draining" /\ pending' = 0 /\ drained'[Daemon] = pending
  BY <1>3 DEF stop, conns_down, flush_drains, flush_answered, set_shutting_down,
              shutdown_answered, join_writer, bumpVars
<1>9. Stages'
  <2>1. Stages
    BY DEF HandleInv
  <2>2. CASE flush_drains
    BY <1>1, <1>3, <2>1, <2>2 DEF flush_drains, Goto, Stages, channel
  <2>3. CASE flush_answered
    BY <1>1, <1>3, <2>1, <2>3 DEF flush_answered, Goto, Stages, bumpVars
  <2>4. CASE stop \/ conns_down \/ set_shutting_down \/ shutdown_answered \/ join_writer
    BY <1>1, <1>3, <2>1, <2>4
    DEF stop, conns_down, set_shutting_down, shutdown_answered, join_writer, Goto, Stages,
        channel, bumpVars
  <2>5. QED BY <2>2, <2>3, <2>4
<1>10. BumpsKept'
  <2> SUFFICES ASSUME faults' = 0 PROVE Calm' /\ \E x, y \in Nat : Carried(x, y)'
    BY DEF BumpsKept
  <2>1. PICK x \in Nat, y \in Nat : Carried(x, y)
    BY <1>1 DEF HandleInv
  <2>2. Calm'
    BY <1>1 DEF HandleInv, Calm, stop, conns_down, flush_drains, flush_answered,
                set_shutting_down, shutdown_answered, join_writer, Goto
  <2>3. daemon = "draining" => drained[Daemon] = 0
    BY DEF HandleInv, Stages
  <2>4. recalls' = applied' + pending' + drained'[Flusher] + drained'[Daemon] + x + y
    BY <1>1, <1>3, <1>8, <2>1, <2>3 DEF Carried
  <2>5. FlusherLost' <=> FlusherLost
    BY <1>1, <1>3, <1>5 DEF FlusherLost
  <2>6. Carried(x, y)'
    BY <1>2, <2>1, <2>4, <2>5 DEF Carried
  <2>7. QED BY <2>2, <2>6
<1>11. QED BY <1>2, <1>6, <1>7, <1>9, <1>10

LEMMA DaemonSendStep ==
    ASSUME HandleInv, flush_sends \/ shutdown_sends
    PROVE  OnePlace' /\ AllAwaited' /\ AllConsistent' /\ Stages' /\ BumpsKept'
<1>1. /\ UNCHANGED <<caller, answer, writer, current, conn, committed, death, shutting_down,
                     flusher, pending, applied, recalls, faults>>
      /\ daemon \in {"flushing", "closing"}
  BY DEF flush_sends, shutdown_sends, writerVars, bumpVars
<1>2. /\ pending \in Nat /\ drained \in [{Flusher, Daemon} -> Nat] /\ Flusher # Daemon
      /\ applied \in Nat /\ recalls \in Nat
      /\ Flusher \notin Callers /\ Daemon \notin Callers
      /\ Flusher \in Parties /\ Daemon \in Parties /\ Callers \subseteq Parties
  BY HandleAssumption DEF HandleInv, Types, Parties
<1>3. \A d \in OnTheWay : Awaited(d) /\ d.from # Daemon
  BY <1>1 DEF HandleInv, Awaited
<1>4. Stages /\ answer[Daemon] = "none" /\ (daemon = "closing" => drained[Daemon] = 0)
  BY <1>1 DEF HandleInv, Stages
<1>5. drained'[Daemon] = 0 /\ drained'[Flusher] = drained[Flusher]
  BY <1>2, <1>4 DEF flush_sends, shutdown_sends, bumpVars
<1>6. AllConsistent'
  BY <1>1 DEF HandleInv, AllConsistent, CallConsistent
<1>7. Stages'
  BY <1>1, <1>4, <1>5 DEF flush_sends, shutdown_sends, Goto, Stages
<1>8. PICK n \in Nat : n = drained[Daemon]
  BY <1>2
<1>9. ASSUME NEW k \in {"flush", "shutdown"}, Send(Command(k, Daemon, n)),
             \/ k = "flush" /\ daemon' = "flushed"
             \/ k = "shutdown" /\ daemon' = "closed" /\ n = 0
      PROVE  OnePlace' /\ AllAwaited' /\ BumpsKept'
  <2> DEFINE cmd == Command(k, Daemon, n)
  <2>1. cmd \in Commands /\ cmd.from = Daemon /\ cmd.kind = k /\ cmd.bumps = n
    BY <1>2 DEF Command, Commands
  <2>2. Send(cmd)
    BY <1>9
  <2> HIDE DEF cmd
  <2>3. OnePlace' /\ OnTheWay' = OnTheWay \cup {cmd}
    BY <1>1, <1>3, <2>1, <2>2, SendAdds DEF HandleInv
  <2>4. AllAwaited'
    <3>1. Awaited(cmd)'
      BY <1>1, <1>2, <1>4, <1>9, <2>1 DEF Awaited
    <3>2. \A d \in OnTheWay : Awaited(d)'
      BY <1>1, <1>3 DEF Awaited
    <3>3. QED BY <2>3, <3>1, <3>2 DEF AllAwaited
  <2>5. BumpsKept'
    <3> SUFFICES ASSUME faults' = 0 PROVE Calm' /\ \E x, y \in Nat : Carried(x, y)'
      BY DEF BumpsKept
    <3>1. PICK x \in Nat, y \in Nat : Carried(x, y)
      BY <1>1 DEF HandleInv
    <3>2. y = 0
      BY <1>3, <3>1 DEF Carried
    <3>3. FlusherLost' <=> FlusherLost
      BY <1>1 DEF FlusherLost
    <3>4. Carried(x, n)'
      BY <1>1, <1>2, <1>3, <1>5, <1>8, <2>1, <2>3, <3>1, <3>2, <3>3 DEF Carried
    <3>5. Calm'
      BY <1>1, <1>9 DEF HandleInv, Calm
    <3>6. QED BY <3>4, <3>5
  <2>6. QED BY <2>3, <2>4, <2>5
<1>10. ASSUME UNCHANGED queue,
              \/ daemon = "flushing" /\ daemon' = "flagging" /\ (~ChannelOpen \/ shutting_down)
              \/ daemon = "closing" /\ daemon' = "joining" /\ ~ChannelOpen
       PROVE  OnePlace' /\ AllAwaited' /\ BumpsKept'
  <2>1. OnePlace' /\ OnTheWay' = OnTheWay
    BY <1>1, <1>10, ChannelUntouched DEF HandleInv
  <2>2. AllAwaited'
    BY <1>1, <1>3, <2>1 DEF AllAwaited, Awaited
  <2>3. BumpsKept'
    <3> SUFFICES ASSUME faults' = 0 PROVE Calm' /\ \E x, y \in Nat : Carried(x, y)'
      BY DEF BumpsKept
    <3>1. PICK x \in Nat, y \in Nat : Carried(x, y)
      BY <1>1 DEF HandleInv
    <3>2. Calm /\ daemon = "closing" /\ daemon' = "joining"
      BY <1>1, <1>4, <1>10 DEF HandleInv, Calm, ChannelOpen, Stages
    <3>3. Calm'
      BY <1>1, <3>2 DEF Calm
    <3>4. FlusherLost' <=> FlusherLost
      BY <1>1 DEF FlusherLost
    <3>5. Carried(x, y)'
      BY <1>1, <1>2, <1>4, <1>5, <2>1, <3>1, <3>2, <3>4 DEF Carried
    <3>6. QED BY <3>3, <3>5
  <2>4. QED BY <2>1, <2>2, <2>3
<1>11. OnePlace' /\ AllAwaited' /\ BumpsKept'
  <2>1. CASE flush_sends
    BY <1>8, <1>9, <1>10, <2>1 DEF flush_sends, Goto
  <2>2. CASE shutdown_sends
    <3>1. n = 0
      BY <1>4, <1>8, <2>2 DEF shutdown_sends
    <3>2. QED BY <1>9, <1>10, <2>2, <3>1 DEF shutdown_sends, Goto
  <2>3. QED BY <2>1, <2>2
<1>12. QED BY <1>6, <1>7, <1>11

LEMMA ReceiveStep ==
    ASSUME HandleInv, receive
    PROVE  OnePlace' /\ AllAwaited' /\ AllConsistent' /\ Stages' /\ BumpsKept'
<1>1. /\ UNCHANGED <<caller, answer, conn, committed, death, shutting_down, daemon, flusher,
                     pending, drained, applied, recalls, faults>>
      /\ writer = "ready" /\ writer' = "busy"
  BY DEF receive, bumpVars
<1>2. OnePlace' /\ OnTheWay' = OnTheWay
  BY ReceiveKeeps DEF HandleInv
<1>3. AllAwaited' /\ AllConsistent' /\ Stages'
  BY <1>1, <1>2 DEF HandleInv, AllAwaited, Awaited, AllConsistent, CallConsistent, Stages
<1>4. BumpsKept'
  <2> SUFFICES ASSUME faults' = 0 PROVE Calm' /\ \E x, y \in Nat : Carried(x, y)'
    BY DEF BumpsKept
  <2>1. PICK x \in Nat, y \in Nat : Carried(x, y)
    BY <1>1 DEF HandleInv
  <2>2. Carried(x, y)' /\ Calm'
    BY <1>1, <1>2, <2>1 DEF HandleInv, Carried, FlusherLost, Calm
  <2>3. QED BY <2>2
<1>5. QED BY <1>2, <1>3, <1>4

LEMMA StoreOpStep ==
    ASSUME HandleInv, run_store_op
    PROVE  OnePlace' /\ AllAwaited' /\ AllConsistent' /\ Stages' /\ BumpsKept'
<1>1. PICK outcome, after : Ran(outcome, after)
  BY StoreOpRan
<1>2. /\ UNCHANGED <<caller, queue, death, shutting_down, daemon, flusher, pending, drained, recalls>>
      /\ writer = "busy" /\ writer' \in {"ready", "leaving"} /\ current' = Idle
      /\ conn = "autocommit"
  BY <1>1 DEF Ran, HandleInv, Stages
<1>3. /\ OnePlace' /\ OnTheWay' = OnTheWay \ {current}
      /\ \A d \in OnTheWay' : d.from # current.from
  BY <1>2, FinishRemoves DEF HandleInv
<1>4. /\ current \in OnTheWay /\ Awaited(current) /\ current \in Commands
      /\ current.from \in Parties /\ current.bumps \in Nat
  BY <1>2 DEF OnTheWay, HandleInv, Types, Commands
<1>5. /\ answer'[current.from] = Result(outcome)
      /\ \A p \in Parties : p # current.from => answer'[p] = answer[p]
  BY <1>1, <1>4 DEF Ran, HandleInv, Types
<1>6. Flusher # Daemon /\ Flusher \notin Callers /\ Daemon \notin Callers
      /\ Flusher \in Parties /\ Daemon \in Parties /\ Callers \subseteq Parties
  BY HandleAssumption DEF Parties
<1>7. AllAwaited'
  <2> SUFFICES ASSUME NEW d \in OnTheWay' PROVE Awaited(d)'
    BY DEF AllAwaited
  <2>1. d \in OnTheWay /\ Awaited(d) /\ d.from # current.from /\ d.from \in Parties
    BY <1>3, OnTheWayTyped DEF HandleInv
  <2>2. QED BY <1>2, <1>5, <2>1 DEF Awaited
<1>8. AllConsistent'
  <2> SUFFICES ASSUME NEW c \in Callers PROVE CallConsistent(c)'
    BY DEF AllConsistent
  <2>1. CallConsistent(c)
    BY DEF HandleInv
  <2>2. CASE c = current.from
    <3>1. /\ current.kind = "write" /\ answer[c] = "none" /\ c \notin committed
          /\ caller[c] \in {"waiting", "gone"}
      BY <1>4, <2>1, <2>2 DEF Awaited, CallConsistent
    <3>2. answer'[c] = "ok" <=> c \in committed'
      BY <1>1, <1>5, <2>2, <3>1 DEF Ran, Result
    <3>3. QED BY <1>2, <3>1, <3>2 DEF CallConsistent
  <2>3. CASE c # current.from
    <3>1. answer'[c] = answer[c] /\ (c \in committed' <=> c \in committed)
      BY <1>1, <1>5, <1>6, <2>3 DEF Ran
    <3>2. QED BY <1>2, <2>1, <3>1 DEF CallConsistent
  <2>4. QED BY <2>2, <2>3
<1>9. Stages'
  <2>1. daemon \notin {"flushed", "closed", "joining", "done"} => answer'[Daemon] = "none"
    BY <1>4, <1>5, <1>6 DEF HandleInv, Stages, Awaited
  <2>2. writer' \in {"ready", "busy"} => conn' = "autocommit"
    BY <1>1, <1>2 DEF Ran
  <2>3. QED BY <1>2, <2>1, <2>2 DEF HandleInv, Stages
<1>10. BumpsKept'
  <2> SUFFICES ASSUME faults' = 0 PROVE Calm' /\ \E x, y \in Nat : Carried(x, y)'
    BY DEF BumpsKept
  <2>1. outcome = "committed" /\ faults = 0 /\ after = "autocommit"
    BY <1>1, <1>2, HandleAssumption DEF Ran, HandleInv, Types
  <2>2. PICK x \in Nat, y \in Nat : Carried(x, y)
    BY <2>1 DEF HandleInv
  <2>3. Calm'
    BY <1>1, <2>1 DEF Ran, Calm
  <2>4. /\ applied \in Nat /\ pending \in Nat /\ recalls \in Nat
        /\ drained[Flusher] \in Nat /\ drained[Daemon] \in Nat
        /\ applied' = applied + current.bumps
    BY <1>1, <2>1 DEF HandleInv, Types, Ran
  <2>5. CASE current.from = Flusher
    <3>1. current.bumps = x /\ flusher = "waiting"
      BY <1>4, <2>2, <2>5 DEF Carried, Awaited
    <3>2. answer'[Flusher] = "ok" /\ ~FlusherLost'
      BY <1>2, <1>5, <2>1, <2>5, <3>1 DEF Result, FlusherLost
    <3>3. Carried(0, y)'
      BY <1>2, <1>3, <1>4, <1>6, <2>2, <2>4, <2>5, <3>1 DEF Carried
    <3>4. QED BY <2>3, <3>3
  <2>6. CASE current.from = Daemon
    <3>1. current.bumps = y
      BY <1>4, <2>2, <2>6 DEF Carried
    <3>2. FlusherLost' <=> FlusherLost
      BY <1>2, <1>5, <1>6, <2>6 DEF FlusherLost
    <3>3. Carried(x, 0)'
      BY <1>2, <1>3, <1>4, <1>6, <2>2, <2>4, <2>6, <3>1, <3>2 DEF Carried
    <3>4. QED BY <2>3, <3>3
  <2>7. CASE current.from \in Callers
    <3>1. current.bumps = 0
      BY <1>4, <2>7 DEF Awaited
    <3>2. FlusherLost' <=> FlusherLost
      BY <1>2, <1>5, <1>6, <2>7 DEF FlusherLost
    <3>3. Carried(x, y)'
      BY <1>2, <1>3, <1>4, <1>6, <2>2, <2>4, <2>7, <3>1, <3>2 DEF Carried
    <3>4. QED BY <2>3, <3>3
  <2>8. QED BY <1>4, <2>5, <2>6, <2>7 DEF Parties
<1>11. QED BY <1>3, <1>7, <1>8, <1>9, <1>10

LEMMA ShutdownStep ==
    ASSUME HandleInv, run_shutdown
    PROVE  OnePlace' /\ AllAwaited' /\ AllConsistent' /\ Stages' /\ BumpsKept'
<1>1. /\ UNCHANGED <<caller, queue, committed, death, shutting_down, daemon, flusher,
                     pending, drained, applied, recalls, faults>>
      /\ writer = "busy" /\ writer' = "disarmed" /\ current' = Idle
      /\ current.kind = "shutdown" /\ answer' = [answer EXCEPT ![Daemon] = "ok"]
  BY DEF run_shutdown, bumpVars
<1>2. /\ OnePlace' /\ OnTheWay' = OnTheWay \ {current}
      /\ \A d \in OnTheWay' : d.from # current.from
  BY <1>1, FinishRemoves DEF HandleInv
<1>3. current \in OnTheWay /\ Awaited(current) /\ current.from \in Parties
  BY <1>1, OnTheWayTyped DEF OnTheWay, HandleInv
<1>4. current.from = Daemon /\ daemon = "closed" /\ current.bumps = 0
  BY <1>1, <1>3 DEF Awaited, Parties
<1>5. Flusher # Daemon /\ Daemon \notin Callers
      /\ Flusher \in Parties /\ Daemon \in Parties /\ Callers \subseteq Parties
  BY HandleAssumption DEF Parties
<1>6. \A p \in Parties : p # Daemon => answer'[p] = answer[p]
  BY <1>1 DEF HandleInv, Types
<1>7. AllAwaited'
  <2> SUFFICES ASSUME NEW d \in OnTheWay' PROVE Awaited(d)'
    BY DEF AllAwaited
  <2>1. d \in OnTheWay /\ Awaited(d) /\ d.from # Daemon /\ d.from \in Parties
    BY <1>2, <1>4, OnTheWayTyped DEF HandleInv
  <2>2. QED BY <1>1, <1>6, <2>1 DEF Awaited
<1>8. AllConsistent'
  BY <1>1, <1>5, <1>6 DEF HandleInv, AllConsistent, CallConsistent
<1>9. Stages'
  BY <1>1, <1>4 DEF HandleInv, Stages
<1>10. BumpsKept'
  <2> SUFFICES ASSUME faults' = 0 PROVE Calm' /\ \E x, y \in Nat : Carried(x, y)'
    BY DEF BumpsKept
  <2>1. PICK x \in Nat, y \in Nat : Carried(x, y)
    BY <1>1 DEF HandleInv
  <2>2. y = 0
    BY <1>3, <1>4, <2>1 DEF Carried
  <2>3. FlusherLost' <=> FlusherLost
    BY <1>1, <1>5, <1>6 DEF FlusherLost
  <2>4. Carried(x, y)'
    BY <1>1, <1>2, <1>4, <1>5, <2>1, <2>2, <2>3 DEF Carried
  <2>5. Calm'
    BY <1>1, <1>4 DEF Calm
  <2>6. QED BY <2>4, <2>5
<1>11. QED BY <1>2, <1>7, <1>8, <1>9, <1>10

LEMMA SignalStep ==
    ASSUME HandleInv, writer_signals
    PROVE  OnePlace' /\ AllAwaited' /\ AllConsistent' /\ Stages' /\ BumpsKept'
<1>1. /\ UNCHANGED <<caller, queue, answer, current, conn, committed, shutting_down, daemon, flusher,
                     pending, drained, applied, recalls, faults>>
      /\ writer \in {"leaving", "disarmed"} /\ writer' = "closing"
  BY DEF writer_signals, channel, bumpVars
<1>2. OnePlace' /\ OnTheWay' = OnTheWay
  BY <1>1, ChannelUntouched DEF HandleInv
<1>3. AllAwaited' /\ AllConsistent' /\ Stages'
  BY <1>1, <1>2 DEF HandleInv, AllAwaited, Awaited, AllConsistent, CallConsistent, Stages
<1>4. BumpsKept'
  <2> SUFFICES ASSUME faults' = 0 PROVE Calm' /\ \E x, y \in Nat : Carried(x, y)'
    BY DEF BumpsKept
  <2>1. PICK x \in Nat, y \in Nat : Carried(x, y)
    BY <1>1 DEF HandleInv
  <2>2. Carried(x, y)' /\ Calm'
    BY <1>1, <1>2, <2>1 DEF HandleInv, Carried, FlusherLost, Calm
  <2>3. QED BY <2>2
<1>5. QED BY <1>2, <1>3, <1>4

LEMMA CloseStep ==
    ASSUME HandleInv, writer_closes
    PROVE  OnePlace' /\ AllAwaited' /\ AllConsistent' /\ Stages' /\ BumpsKept'
<1>1. /\ UNCHANGED <<caller, current, conn, committed, death, shutting_down, daemon, flusher,
                     pending, drained, applied, recalls, faults>>
      /\ writer = "closing" /\ writer' = "gone" /\ answer' = Unanswered
  BY DEF writer_closes, bumpVars
<1>2. OnePlace' /\ OnTheWay' = {} /\ OnTheWay = InQueue
  BY CloseRemovesAll DEF HandleInv
<1>3. AllAwaited'
  BY <1>2 DEF AllAwaited
<1>4. \A p \in Parties :
          \/ /\ \E d \in OnTheWay : d.from = p
             /\ answer[p] = "none" /\ answer'[p] = "dropped"
          \/ /\ \A d \in OnTheWay : d.from # p
             /\ answer'[p] = answer[p]
  <2> SUFFICES ASSUME NEW p \in Parties
               PROVE  \/ /\ \E d \in OnTheWay : d.from = p
                         /\ answer[p] = "none" /\ answer'[p] = "dropped"
                      \/ /\ \A d \in OnTheWay : d.from # p
                         /\ answer'[p] = answer[p]
    OBVIOUS
  <2>1. (\E i \in DOMAIN queue : queue[i].from = p) <=> \E d \in OnTheWay : d.from = p
    BY <1>2 DEF InQueue
  <2>2. (\E d \in OnTheWay : d.from = p) => answer[p] = "none"
    BY DEF HandleInv, Awaited
  <2>3. answer'[p] = IF \E i \in DOMAIN queue : queue[i].from = p THEN "dropped" ELSE answer[p]
    BY <1>1 DEF Unanswered
  <2>4. QED BY <2>1, <2>2, <2>3
<1>5. Flusher # Daemon /\ Daemon \notin Callers /\ Flusher \notin Callers
      /\ Flusher \in Parties /\ Daemon \in Parties /\ Callers \subseteq Parties
  BY HandleAssumption DEF Parties
<1>6. AllConsistent'
  <2> SUFFICES ASSUME NEW c \in Callers PROVE CallConsistent(c)'
    BY DEF AllConsistent
  <2>1. CallConsistent(c) /\ c \in Parties
    BY <1>5 DEF HandleInv
  <2>2. CASE \E d \in OnTheWay : d.from = c
    <3>1. caller[c] \in {"waiting", "gone"} /\ answer[c] = "none" /\ answer'[c] = "dropped"
      BY <1>4, <2>1, <2>2 DEF HandleInv, Awaited
    <3>2. QED BY <1>1, <2>1, <3>1 DEF CallConsistent
  <2>3. CASE \A d \in OnTheWay : d.from # c
    BY <1>1, <1>4, <2>1, <2>3 DEF CallConsistent
  <2>4. QED BY <2>2, <2>3
<1>7. Stages'
  <2>1. daemon \notin {"flushed", "closed", "joining", "done"} => answer'[Daemon] = "none"
    BY <1>4, <1>5 DEF HandleInv, Stages, Awaited
  <2>2. QED BY <1>1, <2>1 DEF HandleInv, Stages
<1>8. BumpsKept'
  <2> SUFFICES ASSUME faults' = 0 PROVE Calm' /\ \E x, y \in Nat : Carried(x, y)'
    BY DEF BumpsKept
  <2>1. PICK x \in Nat, y \in Nat : Carried(x, y)
    BY <1>1 DEF HandleInv
  <2>2. Calm' /\ daemon \in {"closed", "joining", "done"}
    BY <1>1 DEF HandleInv, Calm
  <2>3. y = 0
    <3>1. CASE \E d \in OnTheWay : d.from = Daemon
      BY <2>1, <2>2, <3>1 DEF HandleInv, Awaited, Carried
    <3>2. CASE \A d \in OnTheWay : d.from # Daemon
      BY <2>1, <3>2 DEF Carried
    <3>3. QED BY <3>1, <3>2
  <2>4. ~FlusherLost' => x = 0
    <3>1. CASE \E d \in OnTheWay : d.from = Flusher
      <4>1. flusher = "waiting"
        BY <3>1 DEF HandleInv, Awaited
      <4>2. answer'[Flusher] = "dropped"
        BY <1>4, <1>5, <3>1
      <4>3. QED BY <1>1, <4>1, <4>2 DEF FlusherLost
    <3>2. CASE \A d \in OnTheWay : d.from # Flusher
      <4>1. answer'[Flusher] = answer[Flusher]
        BY <1>4, <1>5, <3>2
      <4>2. FlusherLost' <=> FlusherLost
        BY <1>1, <4>1 DEF FlusherLost
      <4>3. QED BY <2>1, <3>2, <4>2 DEF Carried
    <3>3. QED BY <3>1, <3>2
  <2>5. Carried(x, y)'
    BY <1>1, <1>2, <2>1, <2>3, <2>4 DEF Carried
  <2>6. QED BY <2>2, <2>5
<1>9. QED BY <1>2, <1>3, <1>6, <1>7, <1>8

LEMMA HandleStep == HandleInv /\ [Next]_vars => HandleInv'
<1> SUFFICES ASSUME HandleInv, [Next]_vars PROVE HandleInv'
  OBVIOUS
<1>1. Types'
  BY TypesStep DEF HandleInv
<1>2. OnePlace' /\ AllAwaited' /\ AllConsistent' /\ Stages' /\ BumpsKept'
  <2>1. ASSUME NEW c \in Callers, send_write_check(c) \/ call(c) \/ abort(c)
        PROVE  OnePlace' /\ AllAwaited' /\ AllConsistent' /\ Stages' /\ BumpsKept'
    BY <2>1, CallerStep, CallSendStep DEF call
  <2>2. CASE buffer_accesses
    BY <2>2, BufferStep
  <2>3. CASE flusher_task
    BY <2>3, FlusherLocalStep, FlusherSendStep DEF flusher_task
  <2>4. CASE stop \/ shutdown
    BY <2>4, DaemonLocalStep, DaemonSendStep DEF shutdown
  <2>5. CASE writer_loop
    BY <2>5, ReceiveStep, StoreOpStep, ShutdownStep, SignalStep, CloseStep DEF writer_loop
  <2>6. CASE UNCHANGED vars
    <3>1. OnePlace' /\ OnTheWay' = OnTheWay
      BY <2>6, ChannelUntouched DEF vars, HandleInv
    <3>2. AllAwaited' /\ AllConsistent' /\ Stages'
      BY <2>6, <3>1 DEF vars, HandleInv, AllAwaited, Awaited, AllConsistent, CallConsistent, Stages
    <3>3. BumpsKept'
      BY <2>6, <3>1 DEF vars, HandleInv, BumpsKept, Carried, FlusherLost, Calm
    <3>4. QED BY <3>1, <3>2, <3>3
  <2>7. QED BY <2>1, <2>2, <2>3, <2>4, <2>5, <2>6 DEF Next
<1>3. QED BY <1>1, <1>2 DEF HandleInv, AllAwaited, AllConsistent, BumpsKept

LEMMA HandleAlways == Spec => []HandleInv
<1>1. Init => HandleInv
  <2> SUFFICES ASSUME Init PROVE HandleInv
    OBVIOUS
  <2>1. Types
    <3>1. Idle \in Commands
      BY DEF Idle, Commands, Parties
    <3>2. queue \in Seq(Commands)
      BY DEF Init
    <3>3. QED BY <3>1, <3>2 DEF Init, Types
  <2>2. OnTheWay = {} /\ OnePlace
    BY DEF Init, OnTheWay, InQueue, OnePlace
  <2>3. Flusher \in Parties /\ Daemon \in Parties /\ Callers \subseteq Parties
    BY DEF Parties
  <2>4. (\A c \in Callers : CallConsistent(c)) /\ Stages /\ Calm
    BY <2>3 DEF Init, CallConsistent, Stages, Calm
  <2>5. Carried(0, 0)
    BY <2>2 DEF Init, Carried
  <2>6. QED BY <2>1, <2>2, <2>4, <2>5 DEF HandleInv
<1>2. QED BY <1>1, HandleStep, PTL DEF Spec

\* A caller told ok has its write on disk, and one told of an error has neither written
\* nor left a command that still could: for any number of callers, queue capacity and
\* failures of the writer, before, during and after the shutdown.
THEOREM AnswersAreTrue == Spec => []AnswerTellsTruth
<1>1. HandleInv => AnswerTellsTruth
  <2> SUFFICES ASSUME HandleInv, NEW c \in Callers
               PROVE  /\ caller[c] = "ok" => c \in committed
                      /\ caller[c] = "err" => c \notin committed /\ ~InFlight(c)
    BY DEF AnswerTellsTruth
  <2>1. CallConsistent(c)
    BY DEF HandleInv
  <2>2. InFlight(c) => \E d \in OnTheWay : d.from = c
    <3>1. current.from = c => writer = "busy"
      BY HandleAssumption DEF HandleInv, OnePlace, Idle
    <3>2. QED BY <3>1 DEF InFlight, OnTheWay, InQueue
  <2>3. InFlight(c) => caller[c] \in {"waiting", "gone"}
    BY <2>2 DEF HandleInv, Awaited
  <2>4. QED BY <2>1, <2>3 DEF CallConsistent
<1>2. QED BY <1>1, HandleAlways, PTL

\* A shutdown that no failure and no flush under way disturbs loses no access bump: the
\* final drain is applied before the flag and Shutdown close the write path.
THEOREM NoBumpLost == Spec => []BumpsSurviveShutdown
<1>1. HandleInv => BumpsSurviveShutdown
  <2> SUFFICES ASSUME HandleInv, daemon = "done", faults = 0,
                      flusher \in {"none", "asleep", "awake", "stopped"}
               PROVE  applied = recalls
    BY DEF BumpsSurviveShutdown
  <2>1. PICK x \in Nat, y \in Nat : Carried(x, y)
    BY DEF HandleInv
  <2>2. \A d \in OnTheWay : d.from # Flusher /\ d.from # Daemon
    BY DEF HandleInv, Awaited
  <2>3. x = 0 /\ y = 0
    BY <2>1, <2>2 DEF Carried, FlusherLost
  <2>4. pending = 0 /\ drained[Flusher] = 0 /\ drained[Daemon] = 0
    BY DEF HandleInv, Stages
  <2>5. applied \in Nat
    BY DEF HandleInv, Types
  <2>6. QED BY <2>1, <2>3, <2>4, <2>5 DEF Carried
<1>2. QED BY <1>1, HandleAlways, PTL

\* The writer takes no command on a connection that an earlier one left inside its
\* transaction: the poison check reopens it or the writer leaves.
THEOREM WriterStartsClean == Spec => [](writer = "ready" => conn = "autocommit")
<1>1. HandleInv => (writer = "ready" => conn = "autocommit")
  BY DEF HandleInv, Stages
<1>2. QED BY <1>1, HandleAlways, PTL
=============================================================================
