-------------------------- MODULE McpSessionProofs --------------------------
(***************************************************************************)
(* Theorems about McpSession: for any number of tool calls, faults, idle   *)
(* closes, memories and versions.  The argument follows the request of the *)
(* present call: where it is decides whether its write can have happened   *)
(* and whether trying again is harmless.                                   *)
(***************************************************************************)
EXTENDS McpSession, FiniteSetTheorems, TLAPS

States == [Memories -> Versions \cup {None}]
Replies == [ok : BOOLEAN, of : ToolKinds \cup {"none"}, state : States]
Kinds == ToolKinds \cup {"none"}
ConnType == [server : {"reading", "closing", "busy", "done", "gone"}, wire : Kinds,
             result : Replies, answer : Replies, anchors : BOOLEAN, fresh : BOOLEAN]
ToolType == [kind : Kinds, request : Kinds, attempt : {0, 1, 2},
             phase : {"idle", "ensure", "send", "recv", "returned"},
             reply : Replies, seen : States, disturbed : BOOLEAN]
OutcomeType == [kind : Kinds, result : {"none", "ok", "failed", "refused"}, disturbed : BOOLEAN]

\* Every variable has its type.
Types ==
    /\ daemon \in [up : BOOLEAN, anchors : BOOLEAN]
    /\ client \in BOOLEAN
    /\ conn \in ConnType
    /\ tool \in ToolType
    /\ project \in States
    /\ ledger \in [some : BOOLEAN, entries : States]
    /\ held \in States
    /\ applied \in Nat
    /\ outcome \in OutcomeType

\* Where the request of the present call is: in the socket, with the daemon, answered, or
\* lost with the connection.
RequestPlaced ==
    /\ tool.phase # "recv" => conn.wire = "none" /\ conn.answer = NoReply
    /\ conn.server \in {"busy", "done"} => conn.wire # "none"
    /\ conn.wire # "none" => conn.wire = tool.request /\ conn.answer = NoReply
    /\ conn.server = "gone" => conn.wire = "none"
    /\ conn.server = "done" => conn.result.of = conn.wire
    /\ tool.phase = "recv" /\ conn.wire = "none" /\ conn.answer = NoReply => conn.server = "gone"
    /\ tool.phase \in {"send", "recv"} => client

\* What a call in hand is about; its outcome is still to come.
CallInHand ==
    InCall => /\ tool.kind # "none" /\ outcome = NoOutcome /\ tool.attempt \in {1, 2}
              /\ \/ tool.request = tool.kind
                 \/ tool.kind = "recall" /\ tool.request = "context"

Writing == {"remember", "anchored"}
Reading == {"recall", "context"}

\* How often the write of the call was applied, from where its request is
WriteCounted ==
    /\ applied <= 1
    /\ tool.kind \notin Writing /\ InCall => applied = 0
    /\ tool.phase \in {"ensure", "send"} => applied = 0
    /\ tool.kind \in Writing =>
        /\ conn.wire # "none" /\ conn.server # "done" => applied = 0
        /\ conn.server = "done" => applied = IF conn.result.ok THEN 1 ELSE 0
        /\ conn.answer # NoReply => applied = IF conn.answer.ok THEN 1 ELSE 0
        /\ tool.phase = "returned" /\ tool.reply # NoReply =>
               applied = IF tool.reply.ok THEN 1 ELSE 0

\* A connection the call opened itself ends only by a fault; a second attempt is made on
\* such a connection; and what a read was refused was refused by a fault.
ReadCovered ==
    /\ conn.fresh /\ InCall => /\ conn.server # "closing"
                               /\ conn.server = "gone" => tool.disturbed
    /\ InCall /\ tool.attempt = 2 /\ client => conn.fresh
    /\ conn.server = "done" /\ ~conn.result.ok => tool.disturbed
    /\ conn.answer # NoReply /\ ~conn.answer.ok => tool.disturbed
    /\ tool.kind \in Reading /\ tool.phase = "returned" /\ ~tool.reply.ok => tool.disturbed
    /\ ~InCall => ~tool.disturbed

Placed == RequestPlaced /\ CallInHand /\ WriteCounted /\ ReadCovered
SessionInv == Types /\ Placed /\ WrittenAtMostOnce /\ ReadsOutliveIdleClose

-----------------------------------------------------------------------------
(* Types *)

LEMMA Values ==
    /\ Nothing(Memories) \in States
    /\ NoReply \in Replies /\ NoReply.ok = FALSE /\ NoReply.of = "none"
    /\ project \in States =>
          \A ok \in BOOLEAN, of \in Kinds :
              Reply(ok, of) \in Replies /\ Reply(ok, of).ok = ok /\ Reply(ok, of).of = of
<1>1. Nothing(Memories) \in States
  BY DEF Nothing, States
<1>2. QED BY <1>1 DEF NoReply, Replies, Reply, Kinds

\* What the answers write into the ledger is a state of the project.
LEMMA LedgerStates ==
    ASSUME NEW state \in States, NEW entries \in States, NEW shown \in States, NEW cap
    PROVE  /\ Record(state, cap) \in States
           /\ Corrected(entries, state) \in States
           /\ [m \in Memories |-> IF m \in Changed(entries, state) THEN None ELSE shown[m]] \in States
           /\ [m \in Memories |-> IF state[m] # None THEN state[m] ELSE shown[m]] \in States
  BY DEF Record, Corrected, States

LEMMA AnswerTypes ==
    ASSUME Types, handle_tools_call
    PROVE  /\ tool' \in ToolType
           /\ ledger' \in [some : BOOLEAN, entries : States]
           /\ held' \in States
           /\ outcome' \in OutcomeType
<1> USE DEF ToolType, OutcomeType
<1> DEFINE Good ==
    /\ tool' \in ToolType
    /\ ledger' \in [some : BOOLEAN, entries : States]
    /\ held' \in States
    /\ outcome' \in OutcomeType
<1>1. ASSUME NEW result \in {"ok", "failed", "refused"}, NEW seen \in States, NEW some \in BOOLEAN,
             NEW entries \in States, NEW shown \in States,
             Answered(result, seen, some, entries, shown)
      PROVE  Good
  BY <1>1, Values DEF Answered, Types, Idle, Kinds
<1>2. /\ tool.reply.state \in States /\ ledger.entries \in States /\ held \in States
      /\ ledger.some \in BOOLEAN /\ Nothing(Memories) \in States
  BY Values DEF Types, Replies
<1> DEFINE state == tool.reply.state
           recorded == Record(state, MaxStable)
<1>3. recorded \in States /\ Told(held, state) \in States /\ Corrected(ledger.entries, state) \in States
  BY <1>2, LedgerStates DEF Told
<1>4. [m \in Memories |-> IF recorded[m] # None THEN recorded[m] ELSE Told(held, state)[m]] \in States
  <2> HIDE DEF recorded, state
  <2>1. QED BY <1>3 DEF States
<1> HIDE DEF Good
<1>5. answer_context => Good
  BY <1>1, <1>2, <1>3, <1>4 DEF answer_context
<1>6. answer_recall => Good
  BY <1>1, <1>2, <1>3 DEF answer_recall
<1>7. \A r \in {"ok", "failed", "refused"} : answer_unavailable(r) \/ answer_plain(r) => Good
  BY <1>1, <1>2 DEF answer_unavailable, answer_plain
<1>8. ASSUME tool' = [tool EXCEPT !.request = "context", !.attempt = 1, !.phase = "ensure"],
             UNCHANGED agentside
      PROVE  Good
  <2>1. "context" \in Kinds
    BY DEF Kinds, ToolKinds
  <2>2. UNCHANGED <<ledger, held, outcome>>
    BY <1>8 DEF agentside
  <2>3. QED BY <1>8, <2>1, <2>2 DEF Types, Good
<1>9. Good
  BY <1>5, <1>6, <1>7, <1>8 DEF handle_tools_call
<1>10. QED BY <1>9 DEF Good

LEMMA TypesStep == Types /\ [Next]_vars => Types'
<1> SUFFICES ASSUME Types, [Next]_vars PROVE Types'
  OBVIOUS
<1> USE DEF ConnType, ToolType, OutcomeType
<1>1. /\ NoReply \in Replies /\ Nothing(Memories) \in States
      /\ \A ok \in BOOLEAN, of \in Kinds : Reply(ok, of) \in Replies
  BY Values DEF Types
<1>2. /\ \A k \in Tools : k \in Kinds
      /\ "none" \in Kinds
  BY SessionAssumption DEF Kinds
<1>3. conn \in ConnType /\ tool \in ToolType
  BY DEF Types
<1>4. Disturbed \in ToolType
  BY <1>3 DEF Disturbed, InCall
<1>5. ASSUME NEW k \in Tools, tools_call(k) PROVE Types'
  <2>1. tool' \in ToolType /\ conn' \in ConnType
    BY <1>1, <1>2, <1>3, <1>5 DEF tools_call, Idle
  <2>2. outcome' \in OutcomeType
    BY <1>2, <1>5 DEF tools_call, NoOutcome
  <2>3. QED BY <1>5, <2>1, <2>2 DEF tools_call, Types
<1>6. CASE handle_tools_call
  BY <1>6, AnswerTypes DEF handle_tools_call, Types, store
<1>7. CASE reconnect
  <2>1. daemon' \in [up : BOOLEAN, anchors : BOOLEAN]
    BY <1>7 DEF reconnect, Types
  <2>2. conn' \in ConnType
    BY <1>1, <1>2, <1>7, <2>1 DEF reconnect, NoConn
  <2>3. QED BY <1>7, <2>1, <2>2 DEF reconnect, Types, store, agentside
<1>8. CASE reconnect_fails
  <2>1. tool' \in ToolType
    BY <1>1, <1>4, <1>8 DEF reconnect_fails
  <2>2. QED BY <1>8, <2>1 DEF reconnect_fails, Types, store, agentside
<1>9. CASE ensure_connected
  <2>1. tool' \in ToolType
    BY <1>1, <1>3, <1>9 DEF ensure_connected, Returns
  <2>2. QED BY <1>9, <2>1 DEF ensure_connected, Types, store, agentside
<1>10. \A r : CallFailure(r) => tool' \in ToolType /\ client' \in BOOLEAN
  BY <1>1, <1>3 DEF CallFailure, Returns
<1>11. CASE send_request
  <2>1. tool' \in ToolType /\ conn' \in ConnType /\ client' \in BOOLEAN
    <3>1. CASE tool.request = "oversize" /\ Returns(NoReply) /\ UNCHANGED <<client, conn>>
      BY <1>1, <1>3, <3>1 DEF Returns, Types
    <3>2. CASE CallFailure(TRUE) /\ UNCHANGED conn
      BY <1>3, <1>10, <3>2
    <3>3. CASE /\ conn' = [conn EXCEPT !.wire = tool.request]
               /\ tool' = [tool EXCEPT !.phase = "recv"] /\ UNCHANGED client
      BY <1>3, <3>3 DEF Types
    <3>4. QED BY <1>11, <3>1, <3>2, <3>3 DEF send_request
  <2>2. QED BY <1>11, <2>1 DEF send_request, Types, store, agentside
<1>12. CASE recv_response
  <2>1. tool' \in ToolType /\ conn' \in ConnType /\ client' \in BOOLEAN
    <3>1. CASE conn' = [conn EXCEPT !.answer = NoReply] /\ Returns(conn.answer) /\ UNCHANGED client
      BY <1>1, <1>3, <3>1 DEF Returns, Types
    <3>2. CASE CallFailure(retry_safe_after_send(tool.request)) /\ UNCHANGED conn
      BY <1>3, <1>10, <3>2
    <3>3. QED BY <1>12, <3>1, <3>2 DEF recv_response
  <2>2. QED BY <1>12, <2>1 DEF recv_response, Types, store, agentside
<1>13. CASE idle_timeout \/ drop_stream \/ read_request \/ write_frame
  <2>1. conn' \in ConnType
    BY <1>1, <1>2, <1>3, <1>13 DEF idle_timeout, drop_stream, read_request, write_frame
  <2>2. UNCHANGED <<daemon, client, tool, project, applied, ledger, held, outcome>>
    BY <1>13 DEF idle_timeout, drop_stream, read_request, write_frame, store, agentside
  <2>3. QED BY <2>1, <2>2 DEF Types
<1>14. CASE dispatch
  <2>1. conn' \in ConnType
    <3>1. Reply(TRUE, conn.wire) \in Replies
      BY <1>1, <1>3
    <3>2. QED BY <1>3, <1>14, <3>1 DEF dispatch
  <2>2. QED BY <1>14, <2>1 DEF dispatch, Applied, Types, agentside
<1>15. CASE dispatch_refuses
  <2>1. conn' \in ConnType
    <3>1. Reply(FALSE, conn.wire) \in Replies
      BY <1>1, <1>3
    <3>2. QED BY <1>3, <1>15, <3>1 DEF dispatch_refuses
  <2>2. QED BY <1>4, <1>15, <2>1 DEF dispatch_refuses, Types, store, agentside
<1>16. CASE write_frame_fails
  <2>1. conn' \in ConnType
    BY <1>1, <1>2, <1>3, <1>16 DEF write_frame_fails
  <2>2. QED BY <1>4, <1>16, <2>1 DEF write_frame_fails, Types, store, agentside
<1>17. CASE daemon_stops
  <2>1. conn' \in ConnType
    BY <1>1, <1>2, <1>3, <1>17 DEF daemon_stops
  <2>2. applied' \in Nat /\ project' = project
    BY <1>17 DEF daemon_stops, Applied, store, Types
  <2>3. daemon' \in [up : BOOLEAN, anchors : BOOLEAN]
    BY <1>17 DEF daemon_stops, Types
  <2>4. tool' \in ToolType /\ UNCHANGED <<client, ledger, held, outcome>>
    BY ONLY <1>4, <1>17 DEF daemon_stops, agentside
  <2>5. QED BY ONLY Types, <2>1, <2>2, <2>3, <2>4 DEF Types
<1>18. ASSUME NEW anchors \in BOOLEAN, daemon_starts(anchors) PROVE Types'
  BY <1>18 DEF daemon_starts, Types, store, agentside
<1>19. ASSUME NEW m \in Memories, NEW v \in Versions \cup {None}, entry_changes(m, v) PROVE Types'
  BY <1>19 DEF entry_changes, Types, States, agentside
<1>20. CASE UNCHANGED vars
  BY <1>20 DEF vars, Types
<1>21. QED
  BY <1>5, <1>6, <1>7, <1>8, <1>9, <1>11, <1>12, <1>13, <1>14, <1>15, <1>16, <1>17, <1>18, <1>19, <1>20
  DEF Next, Proxy, Connection

-----------------------------------------------------------------------------
(* Where the request is *)

\* A step of a call that neither writes nor answers leaves what was answered as it was.
LEMMA OutcomeKept ==
    ASSUME SessionInv, UNCHANGED <<outcome, applied>>
    PROVE  WrittenAtMostOnce' /\ ReadsOutliveIdleClose'
  BY DEF SessionInv, WrittenAtMostOnce, ReadsOutliveIdleClose

LEMMA ToolsCallPlaced ==
    ASSUME SessionInv, NEW k \in Tools, tools_call(k)
    PROVE  Placed' /\ WrittenAtMostOnce' /\ ReadsOutliveIdleClose'
<1>0. conn \in ConnType /\ tool \in ToolType /\ k \in ToolKinds /\ "none" \notin ToolKinds
  BY SessionAssumption DEF SessionInv, Types, ConnType, ToolType, ToolKinds
<1>1. /\ tool.phase = "idle" /\ applied' = 0 /\ outcome' = NoOutcome /\ client' = client
      /\ tool'.kind = k /\ tool'.request = k /\ tool'.attempt = 1 /\ tool'.phase = "ensure"
      /\ tool'.disturbed = FALSE
  BY DEF tools_call, InCall, Idle
<1>2. /\ conn'.server = conn.server /\ conn'.wire = conn.wire /\ conn'.answer = conn.answer
      /\ conn'.result = conn.result /\ conn'.fresh = FALSE
  BY <1>0 DEF tools_call, ConnType
<1>3. RequestPlaced /\ conn.wire = "none" /\ conn.answer = NoReply /\ conn.server \notin {"busy", "done"}
  BY <1>1 DEF SessionInv, Placed, RequestPlaced
<1>4. RequestPlaced'
  BY <1>1, <1>2, <1>3 DEF RequestPlaced
<1>5. CallInHand'
  BY <1>0, <1>1 DEF CallInHand
<1>6. WriteCounted'
  BY <1>1, <1>2, <1>3 DEF WriteCounted
<1>7. ReadCovered'
  BY <1>1, <1>2, <1>3 DEF ReadCovered, InCall
<1>8. QED
  BY <1>1, <1>4, <1>5, <1>6, <1>7 DEF Placed, WrittenAtMostOnce, ReadsOutliveIdleClose, NoOutcome

LEMMA ReconnectPlaced ==
    ASSUME SessionInv, reconnect
    PROVE  Placed' /\ WrittenAtMostOnce' /\ ReadsOutliveIdleClose'
<1>1. /\ tool.phase = "ensure" /\ UNCHANGED <<tool, applied, outcome>> /\ client' = TRUE
      /\ conn'.server = "reading" /\ conn'.wire = "none" /\ conn'.answer = NoReply
      /\ conn'.fresh = TRUE
  BY DEF reconnect, store, agentside, NoConn
<1>2. RequestPlaced' /\ CallInHand' /\ WriteCounted' /\ ReadCovered'
  BY <1>1 DEF SessionInv, Placed, RequestPlaced, CallInHand, WriteCounted, ReadCovered, InCall
<1>3. QED BY <1>1, <1>2, OutcomeKept DEF Placed

LEMMA ReconnectFailsPlaced ==
    ASSUME SessionInv, reconnect_fails
    PROVE  Placed' /\ WrittenAtMostOnce' /\ ReadsOutliveIdleClose'
<1>0. tool \in ToolType
  BY DEF SessionInv, Types, ToolType
<1>1. /\ tool.phase = "ensure" /\ ~client /\ UNCHANGED <<client, conn, applied, outcome>>
      /\ tool'.phase = "returned" /\ tool'.reply = NoReply /\ tool'.disturbed = TRUE
      /\ tool'.kind = tool.kind /\ tool'.request = tool.request /\ tool'.attempt = tool.attempt
  BY <1>0 DEF reconnect_fails, store, agentside, Disturbed, InCall, ToolType
<1>2. RequestPlaced' /\ CallInHand'
  BY <1>1 DEF SessionInv, Placed, RequestPlaced, CallInHand, InCall
<1>3. WriteCounted'
  BY <1>1, Values DEF SessionInv, Placed, RequestPlaced, WriteCounted, InCall
<1>4. ReadCovered'
  BY <1>1 DEF SessionInv, Placed, RequestPlaced, ReadCovered, InCall
<1>5. QED BY <1>1, <1>2, <1>3, <1>4, OutcomeKept DEF Placed

LEMMA EnsurePlaced ==
    ASSUME SessionInv, ensure_connected
    PROVE  Placed' /\ WrittenAtMostOnce' /\ ReadsOutliveIdleClose'
<1>0. tool \in ToolType
  BY DEF SessionInv, Types, ToolType
<1>1. /\ tool.phase = "ensure" /\ client /\ UNCHANGED <<client, conn, applied, outcome>>
      /\ \/ tool'.phase = "send"
         \/ tool'.phase = "returned" /\ tool'.reply = NoReply /\ tool.request = "anchored"
      /\ tool'.kind = tool.kind /\ tool'.request = tool.request /\ tool'.attempt = tool.attempt
      /\ tool'.disturbed = tool.disturbed
  BY <1>0 DEF ensure_connected, Returns, store, agentside, ToolType
<1>2. RequestPlaced' /\ CallInHand'
  BY <1>1 DEF SessionInv, Placed, RequestPlaced, CallInHand, InCall
<1>3. WriteCounted'
  BY <1>1, Values DEF SessionInv, Placed, RequestPlaced, WriteCounted, InCall
<1>4. ReadCovered'
  BY <1>1 DEF SessionInv, Placed, RequestPlaced, CallInHand, ReadCovered, InCall, Reading
<1>5. QED BY <1>1, <1>2, <1>3, <1>4, OutcomeKept DEF Placed

LEMMA SendPlaced ==
    ASSUME SessionInv, send_request
    PROVE  Placed' /\ WrittenAtMostOnce' /\ ReadsOutliveIdleClose'
<1>0. tool \in ToolType /\ conn \in ConnType
  BY DEF SessionInv, Types, ToolType, ConnType
<1>a. tool.phase = "send" /\ UNCHANGED <<applied, outcome>> /\ InCall
  BY DEF send_request, store, agentside, InCall
<1>b. client /\ conn.wire = "none" /\ conn.answer = NoReply /\ conn.server \notin {"busy", "done"}
  BY <1>a DEF SessionInv, Placed, RequestPlaced
<1>c. /\ applied = 0 /\ tool.kind # "none" /\ tool.attempt \in {1, 2}
      /\ \/ tool.request = tool.kind
         \/ tool.kind = "recall" /\ tool.request = "context"
  BY <1>a DEF SessionInv, Placed, CallInHand, WriteCounted
<1>1. /\ tool.phase = "send" /\ client /\ UNCHANGED <<applied, outcome>> /\ applied = 0
      /\ conn.wire = "none" /\ conn.answer = NoReply /\ tool.kind # "none"
      /\ conn.server \notin {"busy", "done"} /\ InCall /\ tool.attempt \in {1, 2}
      /\ \/ tool.request = tool.kind
         \/ tool.kind = "recall" /\ tool.request = "context"
  BY <1>a, <1>b, <1>c
<1>2. CASE tool.request = "oversize" /\ Returns(NoReply) /\ UNCHANGED <<client, conn>>
  <2>1. /\ tool'.phase = "returned" /\ tool'.reply = NoReply /\ tool'.attempt = tool.attempt
        /\ tool'.kind = tool.kind /\ tool'.request = tool.request /\ tool'.disturbed = tool.disturbed
        /\ tool.kind = "oversize"
    BY <1>0, <1>1, <1>2 DEF Returns, ToolType
  <2>2. RequestPlaced' /\ CallInHand' /\ WriteCounted'
    BY <1>1, <1>2, <2>1 DEF SessionInv, Placed, RequestPlaced, CallInHand, WriteCounted, InCall, Writing
  <2>3. ReadCovered'
    BY <1>1, <1>2, <2>1 DEF SessionInv, Placed, ReadCovered, InCall, Reading
  <2>4. QED BY <2>2, <2>3 , <1>1, OutcomeKept DEF Placed
<1>3. CASE conn.server = "gone" /\ CallFailure(TRUE) /\ UNCHANGED conn
  <2>1. /\ client' = FALSE
        /\ \/ tool'.phase = "ensure" /\ tool'.attempt = 2
           \/ /\ tool'.phase = "returned" /\ tool'.reply = NoReply /\ tool'.attempt = tool.attempt
              /\ tool.attempt # 1
        /\ tool'.kind = tool.kind /\ tool'.request = tool.request /\ tool'.disturbed = tool.disturbed
    BY <1>0, <1>3 DEF CallFailure, Returns, ToolType
  <2>2. RequestPlaced' /\ CallInHand' /\ WriteCounted'
    BY <1>1, <1>3, <2>1 DEF SessionInv, Placed, RequestPlaced, CallInHand, WriteCounted, InCall
  <2>3. ReadCovered'
    BY <1>1, <1>3, <2>1 DEF SessionInv, Placed, ReadCovered, InCall
  <2>4. QED BY <2>2, <2>3 , <1>1, OutcomeKept DEF Placed
<1>4. CASE /\ conn.server # "gone" /\ conn' = [conn EXCEPT !.wire = tool.request]
           /\ tool' = [tool EXCEPT !.phase = "recv"] /\ UNCHANGED client
  <2>1. /\ tool'.phase = "recv" /\ tool'.kind = tool.kind /\ tool'.request = tool.request
        /\ tool'.disturbed = tool.disturbed /\ tool'.attempt = tool.attempt
        /\ conn'.wire = tool.request /\ conn'.server = conn.server /\ conn'.answer = conn.answer
        /\ conn'.fresh = conn.fresh /\ conn'.result = conn.result /\ tool.request # "none"
    BY <1>0, <1>1, <1>4 DEF ToolType, ConnType
  <2>2. RequestPlaced' /\ CallInHand' /\ WriteCounted'
    BY <1>1, <1>4, <2>1 DEF SessionInv, Placed, RequestPlaced, CallInHand, WriteCounted, InCall
  <2>3. ReadCovered'
    BY <1>1, <1>4, <2>1 DEF SessionInv, Placed, ReadCovered, InCall
  <2>4. QED BY <2>2, <2>3 , <1>1, OutcomeKept DEF Placed
<1>5. QED BY <1>2, <1>3, <1>4 DEF send_request

LEMMA RecvPlaced ==
    ASSUME SessionInv, recv_response
    PROVE  Placed' /\ WrittenAtMostOnce' /\ ReadsOutliveIdleClose'
<1>0. tool \in ToolType /\ conn \in ConnType
  BY DEF SessionInv, Types
<1>1. tool.phase = "recv" /\ UNCHANGED <<applied, outcome>> /\ InCall
  BY DEF recv_response, store, agentside, InCall
<1>2. /\ tool.kind # "none" /\ outcome = NoOutcome /\ tool.attempt \in {1, 2} /\ client
      /\ \/ tool.request = tool.kind
         \/ tool.kind = "recall" /\ tool.request = "context"
  BY <1>1 DEF SessionInv, Placed, CallInHand, RequestPlaced
<1>3. CASE /\ conn.answer # NoReply /\ conn' = [conn EXCEPT !.answer = NoReply]
           /\ Returns(conn.answer) /\ UNCHANGED client
  <2>1. conn.wire = "none" /\ conn.server \notin {"busy", "done"}
    BY <1>3 DEF SessionInv, Placed, RequestPlaced
  <2>2. /\ tool'.phase = "returned" /\ tool'.reply = conn.answer /\ tool'.attempt = tool.attempt
        /\ tool'.kind = tool.kind /\ tool'.request = tool.request /\ tool'.disturbed = tool.disturbed
        /\ conn'.wire = conn.wire /\ conn'.server = conn.server /\ conn'.answer = NoReply
        /\ conn'.fresh = conn.fresh /\ conn'.result = conn.result
    BY <1>0, <1>3 DEF Returns, ToolType, ConnType
  <2>3. RequestPlaced' /\ CallInHand'
    BY <1>1, <1>2, <1>3, <2>1, <2>2 DEF RequestPlaced, CallInHand, SessionInv, Placed
  <2>4. WriteCounted'
    BY <1>1, <1>3, <2>1, <2>2 DEF SessionInv, Placed, WriteCounted, InCall
  <2>5. ReadCovered'
    BY <1>1, <1>3, <2>1, <2>2 DEF SessionInv, Placed, ReadCovered, InCall
  <2>6. QED BY <1>1, <2>3, <2>4, <2>5, OutcomeKept DEF Placed
<1>4. CASE /\ conn.answer = NoReply /\ conn.server = "gone"
           /\ CallFailure(retry_safe_after_send(tool.request)) /\ UNCHANGED conn
  <2>1. conn.wire = "none"
    BY <1>4 DEF SessionInv, Placed, RequestPlaced
  <2>2. /\ client' = FALSE
        /\ \/ /\ tool'.phase = "ensure" /\ tool'.attempt = 2 /\ tool.request \in Reading
           \/ /\ tool'.phase = "returned" /\ tool'.reply = NoReply /\ tool'.attempt = tool.attempt
              /\ tool.attempt # 1 \/ tool.request \notin Reading
        /\ tool'.kind = tool.kind /\ tool'.request = tool.request /\ tool'.disturbed = tool.disturbed
    BY <1>0, <1>4 DEF CallFailure, Returns, ToolType, retry_safe_after_send, Reading
  <2>3. tool.request \in Reading => tool.kind \in Reading /\ applied = 0
    BY <1>1, <1>2 DEF SessionInv, Placed, WriteCounted, Reading, Writing
  <2>4. RequestPlaced' /\ CallInHand'
    BY <1>1, <1>2, <1>4, <2>1, <2>2 DEF RequestPlaced, CallInHand, InCall
  <2>5. WriteCounted'
    BY <1>1, <1>4, <2>1, <2>2, <2>3 DEF SessionInv, Placed, WriteCounted, InCall
  <2>6. tool.attempt # 1 => tool.disturbed
    BY <1>1, <1>2, <1>4 DEF SessionInv, Placed, ReadCovered
  <2>7. tool.kind \in Reading => tool.request \in Reading
    BY <1>2 DEF Reading
  <2>8. ReadCovered'
    BY <1>1, <1>4, <2>1, <2>2, <2>6, <2>7 DEF SessionInv, Placed, ReadCovered, InCall
  <2>9. QED BY <1>1, <2>4, <2>5, <2>8, OutcomeKept DEF Placed
<1>5. QED BY <1>3, <1>4 DEF recv_response

\* An answer says what was written, and a read fails only after a fault.
LEMMA AnswerPlaced ==
    ASSUME SessionInv, handle_tools_call
    PROVE  Placed' /\ WrittenAtMostOnce' /\ ReadsOutliveIdleClose'
<1>0. tool \in ToolType /\ conn \in ConnType
  BY DEF SessionInv, Types
<1>1. tool.phase = "returned" /\ UNCHANGED <<client, conn, applied>> /\ InCall
  BY DEF handle_tools_call, store, InCall
<1>2. /\ tool.kind # "none" /\ outcome = NoOutcome /\ tool.attempt \in {1, 2}
      /\ \/ tool.request = tool.kind
         \/ tool.kind = "recall" /\ tool.request = "context"
  BY <1>1 DEF SessionInv, Placed, CallInHand
<1>3. conn.wire = "none" /\ conn.answer = NoReply /\ conn.server \notin {"busy", "done"}
  BY <1>1 DEF SessionInv, Placed, RequestPlaced
<1>4. /\ applied <= 1 /\ (tool.kind \notin Writing => applied = 0)
      /\ tool.kind \in Writing /\ tool.reply # NoReply => applied = IF tool.reply.ok THEN 1 ELSE 0
      /\ tool.kind \in Reading /\ ~tool.reply.ok => tool.disturbed
  BY <1>1 DEF SessionInv, Placed, WriteCounted, ReadCovered
<1>5. ASSUME tool.kind = "recall", UNCHANGED agentside,
             tool' = [tool EXCEPT !.request = "context", !.attempt = 1, !.phase = "ensure"]
      PROVE  Placed' /\ WrittenAtMostOnce' /\ ReadsOutliveIdleClose'
  <2>1. /\ tool'.phase = "ensure" /\ tool'.attempt = 1 /\ tool'.request = "context"
        /\ tool'.kind = "recall" /\ tool'.disturbed = tool.disturbed /\ outcome' = outcome
    BY <1>0, <1>5 DEF ToolType, agentside
  <2>2. RequestPlaced' /\ CallInHand'
    BY <1>1, <1>2, <1>3, <2>1 DEF RequestPlaced, CallInHand
  <2>3. WriteCounted'
    BY <1>1, <1>3, <1>4, <1>5, <2>1 DEF WriteCounted, Writing
  <2>4. ReadCovered'
    BY <1>1, <1>3, <2>1 DEF SessionInv, Placed, ReadCovered, InCall
  <2>5. QED BY <1>1, <2>1, <2>2, <2>3, <2>4, OutcomeKept DEF Placed
<1>6. ASSUME NEW result, NEW seen, NEW some, NEW entries, NEW shown,
             Answered(result, seen, some, entries, shown),
             tool.kind \in Reading => result = "ok" \/ ~tool.reply.ok,
             tool.kind \in Writing =>
                 /\ result = "ok" => tool.reply.ok
                 /\ result = "refused" => ~tool.reply.ok /\ tool.reply # NoReply
      PROVE  Placed' /\ WrittenAtMostOnce' /\ ReadsOutliveIdleClose'
  <2>1. /\ tool'.phase = "idle" /\ tool'.disturbed = FALSE /\ tool'.kind = "none"
        /\ outcome'.kind = tool.kind /\ outcome'.result = result
        /\ outcome'.disturbed = tool.disturbed
    BY <1>6 DEF Answered, Idle
  <2>2. RequestPlaced' /\ CallInHand'
    BY <1>1, <1>3, <2>1 DEF RequestPlaced, CallInHand, InCall
  <2>3. WriteCounted'
    BY <1>1, <1>3, <1>4, <2>1 DEF WriteCounted, Writing, InCall
  <2>4. ReadCovered'
    BY <1>1, <1>3, <2>1 DEF ReadCovered, InCall
  <2>5. WrittenAtMostOnce'
    <3>1. applied' = applied /\ (tool.reply.ok => tool.reply # NoReply)
      BY <1>1, Values
    <3>2. tool.kind \in Writing =>
            /\ result = "ok" => applied = 1
            /\ result = "refused" => applied = 0
      BY <1>4, <1>6, <3>1
    <3>3. QED BY <1>4, <2>1, <3>1, <3>2 DEF WrittenAtMostOnce, Writing
  <2>6. ReadsOutliveIdleClose'
    BY <1>4, <1>6, <2>1 DEF ReadsOutliveIdleClose, Reading
  <2>7. QED BY <2>2, <2>3, <2>4, <2>5, <2>6 DEF Placed
<1> DEFINE Goal == Placed' /\ WrittenAtMostOnce' /\ ReadsOutliveIdleClose'
<1> HIDE DEF Goal
<1>7. tool.kind \in Reading /\ (answer_context \/ answer_recall) => Goal
  BY <1>6 DEF answer_context, answer_recall, Reading, Writing, Goal
<1>8. ASSUME NEW result, answer_unavailable(result) \/ answer_plain(result),
             tool.kind \in Reading, result = "ok" \/ ~tool.reply.ok
      PROVE  Goal
  BY <1>6, <1>8 DEF answer_unavailable, answer_plain, Reading, Writing, Goal
<1>9. ASSUME tool.kind \notin Reading,
             answer_plain(IF tool.reply.ok THEN "ok"
                          ELSE IF tool.reply = NoReply THEN "failed" ELSE "refused")
      PROVE  Goal
  BY <1>6, <1>9 DEF answer_plain, Goal
<1>10. Goal
  <2>1. CASE /\ tool.kind = "recall" /\ tool' = [tool EXCEPT !.request = "context", !.attempt = 1, !.phase = "ensure"]
             /\ UNCHANGED agentside
    BY <1>5, <2>1 DEF Goal
  <2>2. CASE /\ tool.kind = "recall" /\ tool.request = "context"
             /\ IF tool.reply.ok THEN answer_recall ELSE answer_unavailable("ok")
    BY <1>7, <1>8, <2>2 DEF Reading
  <2>3. CASE tool.kind = "recall" /\ tool.reply.ok /\ ~ledger.some /\ answer_plain("ok")
    BY <1>8, <2>3 DEF Reading
  <2>4. CASE tool.kind = "context" /\ tool.reply.ok /\ answer_context
    BY <1>7, <2>4 DEF Reading
  <2>5. ASSUME tool.request \in Reading, tool.kind = tool.request, ~tool.reply.ok,
               NEW result, answer_unavailable(result) \/ answer_plain(result)
        PROVE  Goal
    BY <1>8, <2>5
  <2>6. CASE /\ tool.kind \notin Reading
             /\ answer_plain(IF tool.reply.ok THEN "ok"
                             ELSE IF tool.reply = NoReply THEN "failed" ELSE "refused")
    BY <1>9, <2>6
  <2>7. QED BY <2>1, <2>2, <2>3, <2>4, <2>5, <2>6 DEF handle_tools_call, Reading
<1>11. QED BY <1>10 DEF Goal

\* The daemon's steps on the connection that change no more than the connection
LEMMA QuietConnectionPlaced ==
    ASSUME SessionInv, idle_timeout \/ drop_stream \/ read_request \/ write_frame
    PROVE  Placed' /\ WrittenAtMostOnce' /\ ReadsOutliveIdleClose'
<1>0. conn \in ConnType
  BY DEF SessionInv, Types
<1>1. UNCHANGED <<client, tool, applied, outcome>>
  BY DEF idle_timeout, drop_stream, read_request, write_frame, store, agentside
<1>2. CallInHand'
  BY <1>1 DEF SessionInv, Placed, CallInHand, InCall
<1>3. CASE idle_timeout
  <2>1. /\ conn.server = "reading" /\ conn.wire = "none" /\ ~conn.fresh
        /\ conn'.server = "closing" /\ conn'.wire = conn.wire /\ conn'.answer = conn.answer
        /\ conn'.result = conn.result /\ conn'.fresh = conn.fresh
    BY <1>0, <1>3 DEF idle_timeout, ConnType
  <2>2. RequestPlaced'
    BY <1>1, <2>1 DEF SessionInv, Placed, RequestPlaced
  <2>3. WriteCounted' /\ ReadCovered'
    BY <1>1, <2>1 DEF SessionInv, Placed, WriteCounted, ReadCovered, InCall
  <2>4. QED BY <1>1, <1>2, <2>2, <2>3, OutcomeKept DEF Placed
<1>4. CASE drop_stream
  <2>1. /\ conn.server = "closing"
        /\ conn'.server = "gone" /\ conn'.wire = "none" /\ conn'.answer = conn.answer
        /\ conn'.result = conn.result /\ conn'.fresh = conn.fresh
    BY <1>0, <1>4 DEF drop_stream, ConnType
  <2>2. RequestPlaced'
    BY <1>1, <2>1 DEF SessionInv, Placed, RequestPlaced
  <2>3. WriteCounted' /\ ReadCovered'
    BY <1>1, <2>1 DEF SessionInv, Placed, WriteCounted, ReadCovered, InCall
  <2>4. QED BY <1>1, <1>2, <2>2, <2>3, OutcomeKept DEF Placed
<1>5. CASE read_request
  <2>1. /\ conn.server = "reading" /\ conn.wire # "none"
        /\ conn'.server = "busy" /\ conn'.wire = conn.wire /\ conn'.answer = conn.answer
        /\ conn'.result = conn.result /\ conn'.fresh = conn.fresh
    BY <1>0, <1>5 DEF read_request, ConnType
  <2>2. RequestPlaced'
    BY <1>1, <2>1 DEF SessionInv, Placed, RequestPlaced
  <2>3. WriteCounted' /\ ReadCovered'
    BY <1>1, <2>1 DEF SessionInv, Placed, WriteCounted, ReadCovered, InCall
  <2>4. QED BY <1>1, <1>2, <2>2, <2>3, OutcomeKept DEF Placed
<1>6. CASE write_frame
  <2>1. /\ conn.server = "done"
        /\ conn'.server = "reading" /\ conn'.wire = "none" /\ conn'.answer = conn.result
        /\ conn'.fresh = conn.fresh
    BY <1>0, <1>6 DEF write_frame, ConnType
  <2>2. tool.phase = "recv" /\ conn.result # NoReply /\ client
    BY <2>1, Values DEF SessionInv, Placed, RequestPlaced
  <2>3. RequestPlaced'
    BY <1>1, <2>1, <2>2 DEF RequestPlaced
  <2>4. WriteCounted'
    BY <1>1, <2>1, <2>2 DEF SessionInv, Placed, WriteCounted, InCall
  <2>5. ReadCovered'
    BY <1>1, <2>1, <2>2 DEF SessionInv, Placed, ReadCovered, InCall
  <2>6. QED BY <1>1, <1>2, <2>3, <2>4, <2>5, OutcomeKept DEF Placed
<1>7. QED BY <1>3, <1>4, <1>5, <1>6

\* With a request in the daemon's hands the call waits for its answer, and a write was not
\* applied yet.
LEMMA InTheDaemon ==
    ASSUME SessionInv, conn.wire # "none"
    PROVE  /\ tool.phase = "recv" /\ InCall /\ client /\ outcome = NoOutcome
           /\ conn.answer = NoReply /\ conn.wire = tool.request /\ conn.server # "gone"
           /\ conn.server # "done" => applied = 0
           /\ tool.kind \in Writing <=> conn.wire \in Writing
<1>1. tool.phase = "recv" /\ conn.answer = NoReply /\ conn.wire = tool.request /\ conn.server # "gone"
  BY DEF SessionInv, Placed, RequestPlaced
<1>2. InCall /\ client
  BY <1>1 DEF SessionInv, Placed, RequestPlaced, InCall
<1>3. /\ outcome = NoOutcome
      /\ \/ tool.request = tool.kind
         \/ tool.kind = "recall" /\ tool.request = "context"
  BY <1>2 DEF SessionInv, Placed, CallInHand
<1>4. conn.server # "done" => applied = 0
  BY <1>2 DEF SessionInv, Placed, WriteCounted
<1>5. tool.kind \in Writing <=> conn.wire \in Writing
  BY <1>1, <1>3 DEF Writing
<1>6. QED BY <1>1, <1>2, <1>3, <1>4, <1>5

LEMMA DispatchPlaced ==
    ASSUME SessionInv, dispatch
    PROVE  Placed' /\ WrittenAtMostOnce' /\ ReadsOutliveIdleClose'
<1>0. conn \in ConnType /\ Reply(TRUE, conn.wire).ok = TRUE /\ Reply(TRUE, conn.wire).of = conn.wire
  BY Values DEF SessionInv, Types, ConnType
<1>1. conn.server = "busy" /\ UNCHANGED <<client, tool, outcome>>
  BY DEF dispatch, agentside
<1>2. conn.wire # "none"
  BY <1>1 DEF SessionInv, Placed, RequestPlaced
<1>3. /\ conn'.server = "done" /\ conn'.result = Reply(TRUE, conn.wire) /\ conn'.wire = conn.wire
      /\ conn'.answer = conn.answer /\ conn'.fresh = conn.fresh
  BY <1>0 DEF dispatch, ConnType
<1>4. applied' = IF tool.kind \in Writing THEN 1 ELSE 0
  BY <1>1, <1>2, InTheDaemon DEF dispatch, Applied, Writing
<1>5. RequestPlaced' /\ CallInHand'
  BY <1>0, <1>1, <1>2, <1>3, InTheDaemon DEF SessionInv, Placed, RequestPlaced, CallInHand, InCall
<1>6. WriteCounted'
  <2>1. tool'.phase = "recv" /\ conn'.answer = NoReply /\ tool'.kind = tool.kind
    BY <1>1, <1>2, <1>3, InTheDaemon
  <2>2. conn'.server = "done" /\ conn'.result.ok = TRUE
    BY <1>0, <1>3
  <2>3. QED BY <1>4, <2>1, <2>2 DEF WriteCounted
<1>7. ReadCovered'
  BY <1>0, <1>1, <1>2, <1>3, InTheDaemon DEF SessionInv, Placed, ReadCovered, InCall
<1>8. WrittenAtMostOnce' /\ ReadsOutliveIdleClose'
  BY <1>1, <1>2, <1>4, InTheDaemon DEF WrittenAtMostOnce, ReadsOutliveIdleClose, NoOutcome
<1>9. QED BY <1>5, <1>6, <1>7, <1>8 DEF Placed

LEMMA RefusalPlaced ==
    ASSUME SessionInv, dispatch_refuses
    PROVE  Placed' /\ WrittenAtMostOnce' /\ ReadsOutliveIdleClose'
<1>0. /\ conn \in ConnType /\ tool \in ToolType
      /\ Reply(FALSE, conn.wire).ok = FALSE /\ Reply(FALSE, conn.wire).of = conn.wire
  BY Values DEF SessionInv, Types, ConnType
<1>1. conn.server = "busy" /\ UNCHANGED <<client, applied, outcome>>
  BY DEF dispatch_refuses, store, agentside
<1>2. conn.wire # "none"
  BY <1>1 DEF SessionInv, Placed, RequestPlaced
<1>3. /\ conn'.server = "done" /\ conn'.result = Reply(FALSE, conn.wire) /\ conn'.wire = conn.wire
      /\ conn'.answer = conn.answer /\ conn'.fresh = conn.fresh
  BY <1>0 DEF dispatch_refuses, ConnType
<1>4. /\ tool'.phase = tool.phase /\ tool'.kind = tool.kind /\ tool'.request = tool.request
      /\ tool'.attempt = tool.attempt /\ tool'.disturbed = TRUE
  BY <1>0, <1>2, InTheDaemon DEF dispatch_refuses, Disturbed, ToolType
<1>5. RequestPlaced' /\ CallInHand'
  BY <1>0, <1>1, <1>2, <1>3, <1>4, InTheDaemon DEF SessionInv, Placed, RequestPlaced, CallInHand, InCall
<1>6. WriteCounted'
  <2>1. tool'.phase = "recv" /\ conn'.answer = NoReply /\ applied' = 0
    BY <1>1, <1>2, <1>3, <1>4, InTheDaemon
  <2>2. conn'.server = "done" /\ conn'.result.ok = FALSE
    BY <1>0, <1>3
  <2>3. QED BY <2>1, <2>2 DEF WriteCounted
<1>7. ReadCovered'
  BY <1>0, <1>1, <1>2, <1>3, <1>4, InTheDaemon DEF SessionInv, Placed, ReadCovered, InCall
<1>8. QED BY <1>1, <1>5, <1>6, <1>7, OutcomeKept DEF Placed

LEMMA FrameFailsPlaced ==
    ASSUME SessionInv, write_frame_fails
    PROVE  Placed' /\ WrittenAtMostOnce' /\ ReadsOutliveIdleClose'
<1>0. conn \in ConnType /\ tool \in ToolType
  BY DEF SessionInv, Types
<1>1. conn.server = "done" /\ conn.wire \in Reading /\ UNCHANGED <<client, applied, outcome>>
  BY DEF write_frame_fails, store, agentside, Reading
<1>2. conn.wire # "none" /\ tool.kind \notin Writing
  BY <1>1, InTheDaemon DEF Reading, Writing
<1>3. /\ conn'.server = "gone" /\ conn'.wire = "none"
      /\ conn'.answer = conn.answer /\ conn'.fresh = conn.fresh
  BY <1>0 DEF write_frame_fails, ConnType
<1>4. /\ tool'.phase = tool.phase /\ tool'.kind = tool.kind /\ tool'.request = tool.request
      /\ tool'.attempt = tool.attempt /\ tool'.disturbed = TRUE
  BY <1>0, <1>2, InTheDaemon DEF write_frame_fails, Disturbed, ToolType
<1>5. RequestPlaced' /\ CallInHand'
  BY <1>1, <1>2, <1>3, <1>4, InTheDaemon DEF SessionInv, Placed, RequestPlaced, CallInHand, InCall
<1>6. WriteCounted'
  BY <1>1, <1>2, <1>3, <1>4, InTheDaemon DEF SessionInv, Placed, WriteCounted, InCall
<1>7. ReadCovered'
  BY <1>1, <1>2, <1>3, <1>4, InTheDaemon DEF SessionInv, Placed, ReadCovered, InCall
<1>8. QED BY <1>1, <1>5, <1>6, <1>7, OutcomeKept DEF Placed

LEMMA DaemonStopsPlaced ==
    ASSUME SessionInv, daemon_stops
    PROVE  Placed' /\ WrittenAtMostOnce' /\ ReadsOutliveIdleClose'
<1>0. conn \in ConnType /\ tool \in ToolType /\ applied \in Nat
  BY DEF SessionInv, Types
<1>1. /\ UNCHANGED <<client, outcome>>
      /\ conn'.server = "gone" /\ conn'.wire = "none"
      /\ conn'.answer = conn.answer /\ conn'.fresh = conn.fresh
  BY <1>0 DEF daemon_stops, agentside, ConnType
<1>2. /\ tool'.phase = tool.phase /\ tool'.kind = tool.kind /\ tool'.request = tool.request
      /\ tool'.attempt = tool.attempt /\ tool'.reply = tool.reply
      /\ tool'.disturbed = (tool.phase # "idle")
  BY <1>0 DEF daemon_stops, Disturbed, ToolType, InCall
<1>3. \/ applied' = applied
      \/ /\ conn.wire # "none" /\ applied' \in {0, 1} /\ tool.phase = "recv" /\ conn.answer = NoReply
         /\ outcome = NoOutcome
         /\ tool.kind \notin Writing => applied' = 0
  <2>1. CASE conn.server # "busy"
    BY <2>1 DEF daemon_stops, store
  <2>2. CASE conn.server = "busy"
    <3>1. conn.wire # "none"
      BY <2>2 DEF SessionInv, Placed, RequestPlaced
    <3>2. /\ applied = 0 /\ tool.phase = "recv" /\ conn.answer = NoReply /\ outcome = NoOutcome
          /\ tool.kind \in Writing <=> conn.wire \in Writing
      BY <2>2, <3>1, InTheDaemon
    <3>3. Applied \/ UNCHANGED store
      BY <2>2 DEF daemon_stops
    <3>4. applied' = applied \/ applied' = IF conn.wire \in Writing THEN 1 ELSE 0
      BY <3>2, <3>3 DEF Applied, store, Writing
    <3>5. QED BY <3>1, <3>2, <3>4
  <2>3. QED BY <2>1, <2>2
<1>4. RequestPlaced' /\ CallInHand'
  BY <1>1, <1>2 DEF SessionInv, Placed, RequestPlaced, CallInHand, InCall
<1>5. WriteCounted'
  BY <1>1, <1>2, <1>3 DEF SessionInv, Placed, WriteCounted, InCall
<1>6. ReadCovered'
  BY <1>1, <1>2 DEF SessionInv, Placed, RequestPlaced, ReadCovered, InCall
<1>7. WrittenAtMostOnce' /\ ReadsOutliveIdleClose'
  <2>1. CASE applied' = applied
    BY <1>1, <2>1, OutcomeKept
  <2>2. CASE outcome = NoOutcome /\ applied' \in {0, 1}
    BY <1>1, <2>2 DEF WrittenAtMostOnce, ReadsOutliveIdleClose, NoOutcome
  <2>3. QED BY <1>3, <2>1, <2>2
<1>8. QED BY <1>4, <1>5, <1>6, <1>7 DEF Placed

LEMMA SessionStep == SessionInv /\ [Next]_vars => SessionInv'
<1> SUFFICES ASSUME SessionInv, [Next]_vars PROVE SessionInv'
  OBVIOUS
<1>1. Types'
  BY TypesStep DEF SessionInv
<1> DEFINE Goal == Placed' /\ WrittenAtMostOnce' /\ ReadsOutliveIdleClose'
<1>2. UNCHANGED <<client, conn, tool, applied, outcome>> => Goal
  BY OutcomeKept
  DEF SessionInv, Placed, RequestPlaced, CallInHand, WriteCounted, ReadCovered, InCall
<1> HIDE DEF Goal
<1>3. \A anchors \in BOOLEAN : daemon_starts(anchors) => Goal
  BY <1>2 DEF daemon_starts, store, agentside
<1>4. \A m \in Memories, v \in Versions \cup {None} : entry_changes(m, v) => Goal
  BY <1>2 DEF entry_changes, agentside
<1>5. UNCHANGED vars => Goal
  BY <1>2 DEF vars
<1>6. \A k \in Tools : tools_call(k) => Goal
  BY ToolsCallPlaced DEF Goal
<1>7. Proxy => Goal
  BY AnswerPlaced, ReconnectPlaced, ReconnectFailsPlaced, EnsurePlaced, SendPlaced, RecvPlaced
  DEF Proxy, Goal
<1>8. Connection \/ idle_timeout \/ daemon_stops => Goal
  BY QuietConnectionPlaced, DispatchPlaced, RefusalPlaced, FrameFailsPlaced, DaemonStopsPlaced
  DEF Connection, Goal
<1>9. Goal
  BY <1>3, <1>4, <1>5, <1>6, <1>7, <1>8 DEF Next
<1>10. QED BY <1>1, <1>9 DEF SessionInv, Goal

LEMMA SessionStarts == Init => SessionInv
<1> SUFFICES ASSUME Init PROVE SessionInv
  OBVIOUS
<1>1. NoReply \in Replies /\ Nothing(Memories) \in States /\ "none" \in Kinds
  BY Values DEF Kinds
<1>2. Types
  BY <1>1 DEF Init, Types, NoConn, Idle, NoOutcome, ConnType, ToolType, OutcomeType
<1>3. /\ tool.phase = "idle" /\ conn.wire = "none" /\ conn.answer = NoReply
      /\ conn.server = "reading" /\ applied = 0 /\ tool.kind = "none" /\ tool.disturbed = FALSE
      /\ outcome.kind = "none"
  BY DEF Init, NoConn, Idle, NoOutcome
<1>4. Placed
  BY <1>3 DEF Placed, RequestPlaced, CallInHand, WriteCounted, ReadCovered, InCall, Writing
<1>5. QED
  BY <1>2, <1>3, <1>4 DEF SessionInv, WrittenAtMostOnce, ReadsOutliveIdleClose

LEMMA SessionAlways == Spec => []SessionInv
  BY SessionStarts, SessionStep, PTL DEF Spec

\* However often daemons stop, connections close and requests are repeated, a tool call
\* writes once at the most, and the agent is told the truth about it.
THEOREM CallWritesOnce == Spec => []WrittenAtMostOnce
<1>1. SessionInv => WrittenAtMostOnce
  BY DEF SessionInv
<1>2. QED BY <1>1, SessionAlways, PTL

\* A recall or a context that fails was hit by a fault during the call: a connection
\* closed for idleness before it is replaced unseen, since reads are tried again.
THEOREM ReadsSurviveIdleClose == Spec => []ReadsOutliveIdleClose
<1>1. SessionInv => ReadsOutliveIdleClose
  BY DEF SessionInv
<1>2. QED BY <1>1, SessionAlways, PTL

-----------------------------------------------------------------------------
(* What the agent was shown *)

\* What the agent holds to be current is in the ledger as it was shown.
HeldIsRecorded == \A m \in Memories : held[m] # None => ledger.entries[m] = held[m]

DisclosureInv == HeldIsRecorded /\ StaleContextDisclosed

\* Where the item cap leaves room for every entry of the project, a context shows all.
LEMMA RecordsAll ==
    ASSUME NEW state \in States, Cardinality(Memories) <= MaxStable
    PROVE  Record(state, MaxStable) = state
<1>1. IsFiniteSet(Memories) /\ Memories \subseteq Nat /\ MaxStable \in Nat
  BY SessionAssumption
<1>2. ASSUME NEW m \in Eligible(state) PROVE m \in Rendered(state, MaxStable)
  <2> DEFINE before == {k \in Eligible(state) : k < m}
  <2>1. m \in Memories /\ m \in Nat /\ before \subseteq Memories \ {m}
    BY <1>1 DEF Eligible, States
  <2>2. /\ IsFiniteSet(Memories \ {m})
        /\ Cardinality(Memories \ {m}) = Cardinality(Memories) - 1
    BY <1>1, <2>1, FS_RemoveElement
  <2>3. Cardinality(before) <= Cardinality(Memories \ {m}) /\ IsFiniteSet(before)
    BY <2>1, <2>2, FS_Subset
  <2>4. Cardinality(before) \in Nat /\ Cardinality(Memories) \in Nat
    BY <1>1, <2>3, FS_CardinalityType
  <2>5. Cardinality(before) < MaxStable
    <3> HIDE DEF before
    <3>1. QED BY <1>1, <2>2, <2>3, <2>4
  <2>6. QED BY <2>5 DEF Rendered
<1>3. \A m \in Memories : (IF m \in Rendered(state, MaxStable) THEN state[m] ELSE None) = state[m]
  BY <1>2 DEF Eligible, States
<1>4. QED BY <1>3 DEF Record, States

LEMMA DisclosureAnswer ==
    ASSUME SessionInv, DisclosureInv, handle_tools_call, Cardinality(Memories) <= MaxStable
    PROVE  DisclosureInv'
<1>0. /\ ledger.entries \in States /\ held \in States /\ tool.reply.state \in States
      /\ None = 0 /\ Nothing(Memories) = [m \in Memories |-> None]
  BY DEF SessionInv, Types, ToolType, Replies, None, Nothing
<1>1. HeldIsRecorded /\ DOMAIN held = Memories /\ DOMAIN ledger.entries = Memories
  BY <1>0 DEF DisclosureInv, States
<1>2. ASSUME NEW result, NEW seen, NEW some, NEW entries, NEW shown \in States,
             Answered(result, seen, some, entries, shown),
             \A m \in Memories : shown[m] # None => entries[m] = shown[m],
             \/ result # "ok" \/ some = FALSE \/ tool.kind \notin Reading
             \/ \A m \in Memories : shown[m] # None => shown[m] = seen[m]
      PROVE  DisclosureInv'
  <2>1. /\ outcome'.kind = tool.kind /\ outcome'.result = result /\ tool'.seen = seen
        /\ ledger'.some = some /\ ledger'.entries = entries /\ held' = shown
    BY <1>2 DEF Answered, Idle
  <2>2. DOMAIN shown = Memories
    BY DEF States
  <2>3. HeldIsRecorded'
    BY <1>2, <2>1 DEF HeldIsRecorded
  <2>4. StaleContextDisclosed'
    BY <1>2, <2>1, <2>2 DEF StaleContextDisclosed, Eligible, Reading
  <2>5. QED BY <2>3, <2>4 DEF DisclosureInv
<1> DEFINE state == tool.reply.state
<1>3. /\ Told(held, state) \in States
      /\ \A m \in Memories : Told(held, state)[m] # None =>
            /\ Told(held, state)[m] = held[m] /\ state[m] = held[m]
            /\ Corrected(ledger.entries, state)[m] = held[m]
  <2>1. Told(held, state) \in States
    BY <1>0, LedgerStates DEF Told
  <2>2. ASSUME NEW m \in Memories, Told(held, state)[m] # None
        PROVE  /\ Told(held, state)[m] = held[m] /\ state[m] = held[m]
               /\ Corrected(ledger.entries, state)[m] = held[m]
    <3>1. m \notin Changed(ledger.entries, state) /\ Told(held, state)[m] = held[m] /\ held[m] # None
      BY <2>2 DEF Told
    <3>2. ledger.entries[m] = held[m]
      BY <1>1, <3>1 DEF HeldIsRecorded
    <3>3. state[m] = held[m]
      BY <1>1, <3>1, <3>2 DEF Changed, Eligible
    <3>4. QED BY <1>1, <3>1, <3>2, <3>3 DEF Corrected
  <2>3. QED BY <2>1, <2>2
<1>4. answer_recall => DisclosureInv'
  <2>1. SUFFICES ASSUME answer_recall PROVE DisclosureInv'
    OBVIOUS
  <2>2. Answered("ok", state, ledger.some, Corrected(ledger.entries, state), Told(held, state))
    BY <2>1 DEF answer_recall
  <2>3. /\ Told(held, state) \in States
        /\ \A m \in Memories : Told(held, state)[m] # None =>
              Corrected(ledger.entries, state)[m] = Told(held, state)[m]
        /\ \A m \in Memories : Told(held, state)[m] # None => Told(held, state)[m] = state[m]
    BY <1>3
  <2> HIDE DEF state
  <2>4. QED BY ONLY <1>2, <2>2, <2>3
<1>5. answer_context => DisclosureInv'
  <2>1. SUFFICES ASSUME answer_context PROVE DisclosureInv'
    OBVIOUS
  <2> DEFINE shown == [m \in Memories |-> IF state[m] # None THEN state[m] ELSE Told(held, state)[m]]
  <2>2. Answered("ok", state, TRUE, state, shown)
    BY <1>0, <2>1, RecordsAll DEF answer_context
  <2>3. shown \in States
    BY <1>0, <1>3, LedgerStates
  <2>4. \A m \in Memories : shown[m] # None => shown[m] = state[m]
    BY <1>3
  <2> HIDE DEF state, shown
  <2>5. QED BY <1>2, <2>2, <2>3, <2>4
<1>6. \A r : answer_unavailable(r) => DisclosureInv'
  <2>1. SUFFICES ASSUME NEW r, answer_unavailable(r) PROVE DisclosureInv'
    OBVIOUS
  <2>2. Nothing(Memories) \in States /\ \A m \in Memories : Nothing(Memories)[m] = None
    BY Values, <1>0
  <2>3. Answered(r, Nothing(Memories), ledger.some, ledger.entries, Nothing(Memories))
    BY <2>1 DEF answer_unavailable
  <2>4. /\ \A m \in Memories : Nothing(Memories)[m] # None =>
              ledger.entries[m] = Nothing(Memories)[m]
        /\ \A m \in Memories : Nothing(Memories)[m] # None =>
              Nothing(Memories)[m] = Nothing(Memories)[m]
    BY <2>2
  <2>5. QED BY ONLY <1>2, <2>2, <2>3, <2>4
<1>7. ASSUME NEW r, answer_plain(r), \/ r # "ok" \/ ledger.some = FALSE \/ tool.kind \notin Reading
      PROVE  DisclosureInv'
  <2>1. Answered(r, Nothing(Memories), ledger.some, ledger.entries, held)
    BY <1>7 DEF answer_plain
  <2>2. QED BY <1>0, <1>1, <1>2, <1>7, <2>1 DEF HeldIsRecorded
<1>8. ASSUME UNCHANGED agentside, tool.phase # "idle" PROVE DisclosureInv'
  <2>1. outcome = NoOutcome /\ UNCHANGED <<held, ledger, outcome>>
    BY <1>8 DEF SessionInv, Placed, CallInHand, InCall, agentside
  <2>2. QED
    BY <1>1, <2>1 DEF DisclosureInv, HeldIsRecorded, StaleContextDisclosed, NoOutcome
<1>9. QED
  <2>1. tool.phase = "returned" /\ ledger.some \in BOOLEAN
    BY DEF handle_tools_call, SessionInv, Types
  <2> DEFINE Goal == DisclosureInv'
  <2> HIDE DEF Goal
  <2>2. /\ answer_context => Goal
        /\ answer_recall => Goal
        /\ \A r : answer_unavailable(r) => Goal
        /\ \A r : answer_plain(r) /\ (\/ r # "ok" \/ ~ledger.some \/ tool.kind \notin Reading) => Goal
        /\ UNCHANGED agentside => Goal
    BY <1>4, <1>5, <1>6, <1>7, <1>8, <2>1 DEF Goal
  <2>3. Goal
    BY <2>2 DEF handle_tools_call, Reading
  <2>4. QED BY <2>3 DEF Goal

LEMMA DisclosureStep ==
    ASSUME SessionInv, DisclosureInv, [Next]_vars, Cardinality(Memories) <= MaxStable
    PROVE  DisclosureInv'
<1>1. CASE handle_tools_call
  BY <1>1, DisclosureAnswer
<1>2. CASE \E k \in Tools : tools_call(k)
  BY <1>2 DEF tools_call, DisclosureInv, HeldIsRecorded, StaleContextDisclosed, NoOutcome
<1>3. ASSUME UNCHANGED <<ledger, held, outcome>>, InCall \/ tool'.seen = tool.seen
      PROVE  DisclosureInv'
  <2>1. InCall => outcome.kind = "none"
    BY DEF SessionInv, Placed, CallInHand, NoOutcome
  <2>2. QED BY <1>3, <2>1 DEF DisclosureInv, HeldIsRecorded, StaleContextDisclosed
<1> DEFINE Goal == DisclosureInv'
<1> HIDE DEF Goal
<1>4. reconnect \/ reconnect_fails \/ ensure_connected \/ send_request \/ recv_response => Goal
  BY <1>3
  DEF reconnect, reconnect_fails, ensure_connected, send_request, recv_response, agentside, InCall, Goal
<1>5. Disturbed.seen = tool.seen
  BY DEF SessionInv, Types, ToolType, Disturbed
<1>6. Connection \/ idle_timeout \/ daemon_stops => Goal
  BY <1>3, <1>5
  DEF Connection, drop_stream, read_request, dispatch, dispatch_refuses, write_frame,
      write_frame_fails, idle_timeout, daemon_stops, agentside, Goal
<1>7. /\ \A anchors \in BOOLEAN : daemon_starts(anchors) => Goal
      /\ \A m \in Memories, v \in Versions \cup {None} : entry_changes(m, v) => Goal
      /\ UNCHANGED vars => Goal
  BY <1>3 DEF daemon_starts, entry_changes, vars, agentside, Goal
<1>8. Goal
  BY <1>1, <1>2, <1>4, <1>6, <1>7 DEF Next, Proxy, Goal
<1>9. QED BY <1>8 DEF Goal

\* Where the item cap leaves room for the whole project, an agent that has had a recall or
\* a context answered holds nothing that differs from the state it was answered from,
\* however the project changed in between. Beyond the cap it is not so: an entry that was
\* shown, then pushed out of the ledger by a later context, is no longer followed.
THEOREM NothingStaleWithinTheCap ==
    ASSUME Cardinality(Memories) <= MaxStable
    PROVE  Spec => []StaleContextDisclosed
<1>1. Init => DisclosureInv
  BY DEF Init, DisclosureInv, HeldIsRecorded, StaleContextDisclosed, NoOutcome, Nothing
<1>2. SessionInv /\ DisclosureInv /\ [Next]_vars => DisclosureInv'
  BY DisclosureStep
<1>3. DisclosureInv => StaleContextDisclosed
  BY DEF DisclosureInv
<1>4. QED BY <1>1, <1>2, <1>3, SessionAlways, PTL DEF Spec
=============================================================================
