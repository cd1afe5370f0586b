----------------------------- MODULE McpSession -----------------------------
(***************************************************************************)
(* An agent's tool calls through the MCP adapter: serve_loop takes them    *)
(* one at a time, handle_tools_call sends a request (and after a recall a  *)
(* second one, Context), ClientProxy connects, sends, waits, reconnects    *)
(* and retries; handle_connection in the daemon reads, dispatches and      *)
(* answers, and closes an idle connection.  The daemon can stop and start  *)
(* between any two steps.  The project's stable entries change under other *)
(* clients, and ContextDelivery says which of them the agent was shown.    *)
(***************************************************************************)
EXTENDS ContextLedger

CONSTANTS
    Tools,       \* the kinds of calls made
    MaxCalls,    \* bound: tool calls
    MaxFaults,   \* bound: daemon stops, failed reconnects, lost or refused requests
    MaxIdles,    \* bound: idle timeouts
    Memories,    \* 1 .. n, by importance
    Versions,    \* fingerprints an entry can have
    MaxChanges,  \* bound: changes by other clients
    MaxStable,   \* MAX_STABLE_ITEMS, or fewer where the token budget is tighter
    OldDaemons   \* whether a daemon without the anchors capability may be started

ToolKinds == {"remember", "anchored", "oversize", "recall", "context"}

ASSUME SessionAssumption ==
    /\ Tools \subseteq ToolKinds
    /\ MaxCalls \in Nat /\ MaxFaults \in Nat /\ MaxIdles \in Nat /\ MaxChanges \in Nat
    /\ Memories \subseteq Nat /\ IsFiniteSet(Memories)
    /\ Versions \subseteq Nat \ {None}
    /\ MaxStable \in Nat \ {0} /\ OldDaemons \in BOOLEAN

VARIABLES
    daemon,    \* whether it runs and whether it understands anchors
    client,    \* ClientProxy.client is Some
    conn,      \* handle_connection: the daemon's end of the present connection
    tool,      \* the call in hand: its kind, request, attempt and phase
    project,   \* the fingerprints of the project's stable entries
    ledger,    \* Server.delivery
    held,      \* history: what the agent was shown and not told to have changed
    applied,   \* history: how often the write of the present or last call was applied
    outcome,   \* history: the last answer given
    spent      \* bounds so far

vars == <<daemon, client, conn, tool, project, ledger, held, applied, outcome, spent>>
agentside == <<ledger, held, outcome>>
store == <<project, applied>>

NoReply == [ok |-> FALSE, of |-> "none", state |-> Nothing(Memories)]
Reply(ok, of) == [ok |-> ok, of |-> of, state |-> IF ok THEN project ELSE Nothing(Memories)]

\* phase: ensure, send, recv, returned or idle; reply: what proxy.call returned, NoReply
\* for an error; seen: the state of the project the last answer was made from; disturbed
\* (history): a fault hit the call
Idle == [kind |-> "none", request |-> "none", attempt |-> 0, phase |-> "idle",
         reply |-> NoReply, seen |-> Nothing(Memories), disturbed |-> FALSE]

\* server: reading, closing (timed out, the stream not dropped yet), busy, done or gone;
\* wire and answer: the request and the response in the socket; fresh: opened by the
\* present call
NoConn == [server |-> "gone", wire |-> "none", result |-> NoReply, answer |-> NoReply,
           anchors |-> FALSE, fresh |-> FALSE]

NoOutcome == [kind |-> "none", result |-> "none", disturbed |-> FALSE]
InCall == tool.phase # "idle"
Spend(what, bound) == spent[what] < bound /\ spent' = [spent EXCEPT ![what] = @ + 1]
Disturbed == [tool EXCEPT !.disturbed = InCall]

Init ==
    /\ daemon = [up |-> TRUE, anchors |-> TRUE]
    /\ client = TRUE /\ conn = [NoConn EXCEPT !.server = "reading", !.anchors = TRUE]
    /\ tool = Idle
    /\ project = Nothing(Memories)
    /\ ledger = [some |-> FALSE, entries |-> Nothing(Memories)]
    /\ held = Nothing(Memories)
    /\ applied = 0 /\ outcome = NoOutcome
    /\ spent = [calls |-> 0, faults |-> 0, idles |-> 0, changes |-> 0]

-----------------------------------------------------------------------------
(* The agent and the adapter's tool handler *)

\* serve_loop reads a line, dispatch and build_request make the first request of the tool.
tools_call(k) ==
    /\ ~InCall
    /\ Spend("calls", MaxCalls)
    /\ tool' = [Idle EXCEPT !.kind = k, !.request = k, !.attempt = 1, !.phase = "ensure"]
    /\ conn' = [conn EXCEPT !.fresh = FALSE]
    /\ applied' = 0 /\ outcome' = NoOutcome
    /\ UNCHANGED <<daemon, client, project, ledger, held>>

\* The answer goes to the agent. seen: what the answer tells of the project; shown: what
\* the agent holds to be current from then on; entries: the ledger's
Answered(result, seen, some, entries, shown) ==
    /\ outcome' = [kind |-> tool.kind, result |-> result, disturbed |-> tool.disturbed]
    /\ tool' = [Idle EXCEPT !.seen = seen]
    /\ ledger' = [some |-> some, entries |-> entries]
    /\ held' = shown

\* Corrections taken out of what the agent holds
Told(shown, state) ==
    [m \in Memories |-> IF m \in Changed(ledger.entries, state) THEN None ELSE shown[m]]

\* Mutant: the correction of a context answer is made after the ledger was replaced
answer_context_recording_first ==
    LET state == tool.reply.state
        recorded == Record(state, MaxStable)
    IN Answered("ok", state, TRUE, recorded,
                [m \in Memories |-> IF recorded[m] # None THEN recorded[m] ELSE held[m]])

\* context: correction from the old ledger, then record
answer_context ==
    LET state == tool.reply.state
        recorded == Record(state, MaxStable)
        told == Told(held, state)
    IN Answered("ok", state, TRUE, recorded,
                [m \in Memories |-> IF recorded[m] # None THEN recorded[m] ELSE told[m]])

\* recall's second request: correction alone
answer_recall ==
    LET state == tool.reply.state
    IN Answered("ok", state, ledger.some, Corrected(ledger.entries, state), Told(held, state))

\* CURRENT_STATE_UNAVAILABLE goes with the answer when something was delivered before.
answer_unavailable(result) ==
    Answered(result, Nothing(Memories), ledger.some, ledger.entries, Nothing(Memories))

answer_plain(result) == Answered(result, Nothing(Memories), ledger.some, ledger.entries, held)

\* handle_tools_call after proxy.call returned
handle_tools_call ==
    /\ tool.phase = "returned"
    /\ \/ /\ tool.kind = "recall" /\ tool.request = "recall" /\ tool.reply.ok /\ ledger.some
          /\ tool' = [tool EXCEPT !.request = "context", !.attempt = 1, !.phase = "ensure"]
          /\ UNCHANGED agentside
       \/ /\ tool.kind = "recall" /\ tool.request = "context"
          /\ IF tool.reply.ok THEN answer_recall ELSE answer_unavailable("ok")
       \/ tool.kind = "recall" /\ tool.reply.ok /\ ~ledger.some /\ answer_plain("ok")
       \/ tool.kind = "context" /\ tool.reply.ok /\ answer_context
       \/ /\ tool.request \in {"recall", "context"} /\ tool.kind = tool.request /\ ~tool.reply.ok
          /\ LET result == IF tool.reply = NoReply THEN "failed" ELSE "refused"
             IN IF ledger.some /\ (result = "failed" \/ tool.kind = "context")
                THEN answer_unavailable(result) ELSE answer_plain(result)
       \/ /\ tool.kind \notin {"recall", "context"}
          /\ answer_plain(IF tool.reply.ok THEN "ok"
                          ELSE IF tool.reply = NoReply THEN "failed" ELSE "refused")
    /\ UNCHANGED <<daemon, client, conn, store, spent>>

-----------------------------------------------------------------------------
(* ClientProxy.call *)

Returns(reply) == tool' = [tool EXCEPT !.phase = "returned", !.reply = reply]

\* connect_or_start: a socket nobody listens on starts a daemon from the adapter's own
\* executable, which understands anchors.
reconnect ==
    /\ tool.phase = "ensure" /\ ~client
    /\ daemon' = IF daemon.up THEN daemon ELSE [up |-> TRUE, anchors |-> TRUE]
    /\ client' = TRUE
    /\ conn' = [NoConn EXCEPT !.server = "reading", !.anchors = daemon'.anchors, !.fresh = TRUE]
    /\ UNCHANGED <<tool, store, agentside, spent>>

\* Every attempt failed before the deadline: no daemon came up, the handshake was
\* rejected, the connection cap was reached.
reconnect_fails ==
    /\ tool.phase = "ensure" /\ ~client
    /\ Spend("faults", MaxFaults)
    /\ tool' = [Disturbed EXCEPT !.phase = "returned", !.reply = NoReply]
    /\ UNCHANGED <<daemon, client, conn, store, agentside>>

\* The anchor gate is on the first attempt alone.
ensure_connected ==
    /\ tool.phase = "ensure" /\ client
    /\ IF tool.request = "anchored" /\ tool.attempt = 1 /\ ~conn.anchors
       THEN Returns(NoReply)
       ELSE tool' = [tool EXCEPT !.phase = "send"]
    /\ UNCHANGED <<daemon, client, conn, store, agentside, spent>>

\* Mutant: every request is repeated when its answer is lost
retry_always(request) == TRUE

retry_safe_after_send(request) == request \in {"recall", "context"}

\* The connection is dropped, and the request tried once more if it may be.
CallFailure(retryable) ==
    /\ client' = FALSE
    /\ IF retryable /\ tool.attempt = 1
       THEN tool' = [tool EXCEPT !.attempt = 2, !.phase = "ensure"]
       ELSE Returns(NoReply)

\* Mutant: a failed send is not repeated
send_request_once ==
    /\ tool.phase = "send"
    /\ IF conn.server = "gone"
       THEN CallFailure(FALSE) /\ UNCHANGED conn
       ELSE /\ conn' = [conn EXCEPT !.wire = tool.request]
            /\ tool' = [tool EXCEPT !.phase = "recv"]
            /\ UNCHANGED client
    /\ UNCHANGED <<daemon, store, agentside, spent>>

\* A request over the frame limit is rejected before a byte is written and the
\* connection stays good. A write to a closed socket fails; any other reaches the
\* socket's buffer, whether or not the daemon will still read it.
send_request ==
    /\ tool.phase = "send"
    /\ \/ tool.request = "oversize" /\ Returns(NoReply) /\ UNCHANGED <<client, conn>>
       \/ /\ tool.request # "oversize" /\ conn.server = "gone"
          /\ CallFailure(TRUE) /\ UNCHANGED conn
       \/ /\ tool.request # "oversize" /\ conn.server # "gone"
          /\ conn' = [conn EXCEPT !.wire = tool.request]
          /\ tool' = [tool EXCEPT !.phase = "recv"]
          /\ UNCHANGED client
    /\ UNCHANGED <<daemon, store, agentside, spent>>

\* What is in the socket is read before its end is seen.
recv_response ==
    /\ tool.phase = "recv"
    /\ \/ /\ conn.answer # NoReply
          /\ conn' = [conn EXCEPT !.answer = NoReply]
          /\ Returns(conn.answer)
          /\ UNCHANGED client
       \/ /\ conn.answer = NoReply /\ conn.server = "gone"
          /\ CallFailure(retry_safe_after_send(tool.request))
          /\ UNCHANGED conn
    /\ UNCHANGED <<daemon, store, agentside, spent>>

-----------------------------------------------------------------------------
(* The daemon *)

\* The timeout fires while no request is in the socket and no call has just opened the
\* connection; the stream is dropped a step later.
idle_timeout ==
    /\ conn.server = "reading" /\ conn.wire = "none" /\ ~conn.fresh
    /\ Spend("idles", MaxIdles)
    /\ conn' = [conn EXCEPT !.server = "closing"]
    /\ UNCHANGED <<daemon, client, tool, store, agentside>>

drop_stream ==
    /\ conn.server = "closing"
    /\ conn' = [conn EXCEPT !.server = "gone", !.wire = "none"]
    /\ UNCHANGED <<daemon, client, tool, store, agentside, spent>>

read_request ==
    /\ conn.server = "reading" /\ conn.wire # "none"
    /\ conn' = [conn EXCEPT !.server = "busy"]
    /\ UNCHANGED <<daemon, client, tool, store, agentside, spent>>

\* What a request does to the store
Applied ==
    /\ applied' = applied + IF conn.wire \in {"remember", "anchored"} THEN 1 ELSE 0
    /\ UNCHANGED project

\* dispatch; a Context is read from one state of the project (module Recall, ContextIsOneState).
dispatch ==
    /\ conn.server = "busy"
    /\ conn' = [conn EXCEPT !.server = "done", !.result = Reply(TRUE, conn.wire)]
    /\ Applied
    /\ UNCHANGED <<daemon, client, tool, agentside, spent>>

\* Response::Error, with nothing written: invalid, busy, a project that kept changing
dispatch_refuses ==
    /\ conn.server = "busy"
    /\ Spend("faults", MaxFaults)
    /\ conn' = [conn EXCEPT !.server = "done", !.result = Reply(FALSE, conn.wire)]
    /\ tool' = Disturbed
    /\ UNCHANGED <<daemon, client, store, agentside>>

\* Mutant: a refusal is logged and not answered
write_frame_ok_only ==
    /\ conn.server = "done"
    /\ conn' = [conn EXCEPT !.server = "reading", !.wire = "none", !.result = NoReply,
                            !.answer = IF conn.result.ok THEN conn.result ELSE NoReply]
    /\ UNCHANGED <<daemon, client, tool, store, agentside, spent>>

write_frame ==
    /\ conn.server = "done"
    /\ conn' = [conn EXCEPT !.server = "reading", !.wire = "none", !.result = NoReply,
                            !.answer = conn.result]
    /\ UNCHANGED <<daemon, client, tool, store, agentside, spent>>

\* A response over the frame limit ends handle_connection with an error.
write_frame_fails ==
    /\ conn.server = "done" /\ conn.wire \in {"recall", "context"}
    /\ Spend("faults", MaxFaults)
    /\ conn' = [conn EXCEPT !.server = "gone", !.wire = "none", !.result = NoReply]
    /\ tool' = Disturbed
    /\ UNCHANGED <<daemon, client, store, agentside>>

\* Shutdown aborts the connections and drains the writer's queue: the command of an
\* aborted connection is applied or not.
daemon_stops ==
    /\ daemon.up
    /\ Spend("faults", MaxFaults)
    /\ daemon' = [daemon EXCEPT !.up = FALSE]
    /\ conn' = [conn EXCEPT !.server = "gone", !.wire = "none", !.result = NoReply]
    /\ IF conn.server = "busy" THEN Applied \/ UNCHANGED store ELSE UNCHANGED store
    /\ tool' = Disturbed
    /\ UNCHANGED <<client, agentside>>

\* Another client starts a daemon, perhaps an older one.
daemon_starts(anchors) ==
    /\ ~daemon.up /\ (anchors \/ OldDaemons)
    /\ daemon' = [up |-> TRUE, anchors |-> anchors]
    /\ UNCHANGED <<client, conn, tool, store, agentside, spent>>

\* Another client changes, adds or retires a memory of the project.
entry_changes(m, v) ==
    /\ daemon.up /\ project[m] # v
    /\ Spend("changes", MaxChanges)
    /\ project' = [project EXCEPT ![m] = v]
    /\ UNCHANGED <<daemon, client, conn, tool, applied, agentside>>

-----------------------------------------------------------------------------
Proxy ==
    \/ handle_tools_call \/ reconnect \/ reconnect_fails \/ ensure_connected
    \/ send_request \/ recv_response

Connection ==
    \/ drop_stream \/ read_request \/ dispatch \/ dispatch_refuses
    \/ write_frame \/ write_frame_fails

Next ==
    \/ \E k \in Tools : tools_call(k)
    \/ Proxy
    \/ Connection
    \/ idle_timeout \/ daemon_stops
    \/ \E anchors \in BOOLEAN : daemon_starts(anchors)
    \/ \E m \in Memories, v \in Versions \cup {None} : entry_changes(m, v)

\* The adapter's task and the connection's task run; agents, faults and other clients
\* do as they like.
Fairness == WF_vars(Proxy) /\ WF_vars(Connection)

Spec == Init /\ [][Next]_vars
FairSpec == Spec /\ Fairness

-----------------------------------------------------------------------------
(* Properties *)

\* However connections end and daemons come and go, a tool call writes once at the most,
\* and exactly once when the agent is told it succeeded.
WrittenAtMostOnce ==
    /\ applied <= 1
    /\ outcome.kind \in {"remember", "anchored"} =>
           /\ outcome.result = "ok" => applied = 1
           /\ outcome.result = "refused" => applied = 0

\* An idle close, or a daemon that stopped between two calls, is not seen by a read: it
\* fails only when something failed during the call itself.
ReadsOutliveIdleClose ==
    outcome.kind \in {"recall", "context"} /\ outcome.result # "ok" => outcome.disturbed

\* After a recall or a context was answered from a state of the project, everything the
\* agent was shown earlier and not warned about is as it was in that state.
StaleContextDisclosed ==
    outcome.kind \in {"recall", "context"} /\ outcome.result = "ok" /\ ledger.some =>
        \A m \in Eligible(held) : held[m] = tool.seen[m]

\* Every tool call is answered.
EveryToolCallAnswered == InCall ~> ~InCall
=============================================================================
