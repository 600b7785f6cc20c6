-------------------------- MODULE BridgeConnection --------------------------
(***************************************************************************)
(* One connection between the TypeScript BridgeClient and the Rust bridge  *)
(* process: handshake, requests and their cancellation, control requests   *)
(* with their timeouts, late replies, the request-id limit, shutdown, and  *)
(* the loss of the process at any moment.                                  *)
(*                                                                         *)
(* Flow control of one request's events is the subject of FlowControl;     *)
(* here an event frame only matters because its handler may still be       *)
(* running when the result arrives.  Client callbacks are atomic (one      *)
(* JavaScript thread); the serve loop and the request tasks interleave.    *)
(***************************************************************************)
EXTENDS Integers, Sequences, FiniteSets

CONSTANTS
    Requests,       \* client.request() calls: the streamed and native methods
    Controls,       \* calls of decideApproval, writeSession, resizeSession, ...
    MaxRequestIds,  \* MAX_REQUEST_IDS_PER_CONNECTION, 65536 in the bridge
    MaxEvents       \* bound: event frames one request emits

CancelOf(r) == <<"cancel", r>>
InitId == <<"initialize">>
ShutdownId == <<"shutdown">>
NoId == <<"none">>

\* Every frame of the client has an id of its own.
ASSUME ConnectionAssumption ==
    /\ MaxRequestIds \in Nat \ {0}
    /\ MaxEvents \in Nat
    /\ (Requests \cup Controls)
          \cap ({InitId, ShutdownId, NoId} \cup {CancelOf(r) : r \in Requests}) = {}

ControlIds == {CancelOf(r) : r \in Requests} \cup Controls \cup {ShutdownId}
Ids == Requests \cup ControlIds
Spawned == Requests \cup Controls  \* the ids the bridge may run as tasks of their own

VARIABLES
    \* the client
    client,     \* "new", "connecting", "ready", "closing" or "closed"
    cause,      \* why the client closed
    record,     \* the client's view of every request id
    running,    \* requests with an event handler still on their promise chain
    \* the two pipes
    toBridge, toClient,
    \* the bridge
    serve,      \* "uninitialized", "serving", "draining", "exited"
    seen,       \* seen_request_ids
    tasks,      \* the request tasks
    active,     \* keys of ConnectionState.active
    cancelled,  \* requests whose token is cancelled
    emitted,    \* event frames sent per request
    replyTo     \* the shutdown request to answer once everything is joined

clientVars == <<client, cause, record, running>>
bridgeVars == <<serve, seen, tasks, active, cancelled, emitted, replyTo>>
vars == <<clientVars, toBridge, toClient, bridgeVars>>

Frame(type, id) == [type |-> type, id |-> id]

-----------------------------------------------------------------------------
(* The client.                                                             *)

IsReady == client = "ready"
Open == client \in {"connecting", "ready", "closing"}

\* #fail and close: reject everything that is pending, kill the process.
RejectAll == [id \in Ids |-> IF record[id] \in {"pending", "queued"} THEN "rejected" ELSE record[id]]

CloseWith(why) ==
    /\ client' = "closed"
    /\ cause' = why
    /\ record' = RejectAll

Write(frame) == toBridge' = Append(toBridge, frame)

\* connect: spawn the process and write the initialize frame.
Connect ==
    /\ client = "new"
    /\ client' = "connecting"
    /\ Write(Frame("initialize", InitId))
    /\ UNCHANGED <<cause, record, running, toClient, bridgeVars>>

HandshakeTimeout ==
    /\ client = "connecting"
    /\ CloseWith("handshake_timeout")
    /\ UNCHANGED <<running, toBridge, toClient, bridgeVars>>

Request(r) ==
    /\ IsReady
    /\ record[r] = "unused"
    /\ record' = [record EXCEPT ![r] = "pending"]
    /\ Write(Frame("request", r))
    /\ UNCHANGED <<client, cause, running, toClient, bridgeVars>>

\* #rejectPending and #ignoreLateMessages.  A request whose result is already
\* queued behind its handlers will never see another terminal frame, so its id
\* stays ignored for the rest of the connection.
Ignore(id) == IF record[id] = "queued" THEN "ignoredForever" ELSE "ignored"

AbortedRecord_NotIgnored(r) == [record EXCEPT ![r] = "rejected"]
AbortedRecord(r) == [record EXCEPT ![r] = Ignore(r)]

\* The abort listener of request: reject, ignore late frames, send cancel.
\* While the client is closing #requireReady refuses the cancel frame.
Abort(r) ==
    /\ client \in {"ready", "closing"}
    /\ record[r] \in {"pending", "queued"}
    /\ IF IsReady
       THEN /\ record' = [AbortedRecord(r) EXCEPT ![CancelOf(r)] = "pending"]
            /\ Write(Frame("cancel", CancelOf(r)))
       ELSE /\ record' = AbortedRecord(r)
            /\ UNCHANGED toBridge
    /\ UNCHANGED <<client, cause, running, toClient, bridgeVars>>

\* #controlRequest: writeSession, or decideApproval, resizeSession, terminateSession.
Control(c) ==
    /\ IsReady
    /\ record[c] = "unused"
    /\ record' = [record EXCEPT ![c] = "pending"]
    /\ \E type \in {"sessionWrite", "control"} : Write(Frame(type, c))
    /\ UNCHANGED <<client, cause, running, toClient, bridgeVars>>

\* shutdown: #closing is set and the shutdown frame is a control request.
Shutdown ==
    /\ IsReady
    /\ client' = "closing"
    /\ record' = [record EXCEPT ![ShutdownId] = "pending"]
    /\ Write(Frame("shutdown", ShutdownId))
    /\ UNCHANGED <<cause, running, toClient, bridgeVars>>

\* A control request runs out of time or its signal aborts: reject it and ignore
\* its late reply.  #performShutdown then closes the transport.
ControlTimeout(c) ==
    /\ client \in {"ready", "closing"}
    /\ record[c] = "pending"
    /\ IF c = ShutdownId
       THEN /\ client' = "closed"
            /\ cause' = "shutdown"
            /\ record' = [RejectAll EXCEPT ![c] = "ignored"]
       ELSE /\ record' = [record EXCEPT ![c] = "ignored"]
            /\ UNCHANGED <<client, cause>>
    /\ UNCHANGED <<running, toBridge, toClient, bridgeVars>>

\* The write of a frame to a process that is gone fails: its request is rejected,
\* and nothing late is expected of it.  #performShutdown then closes the transport.
WriteFails ==
    /\ client \in {"ready", "closing"}
    /\ serve = "exited" /\ toBridge # <<>>
    /\ LET id == Head(toBridge).id IN
         IF id = ShutdownId
         THEN CloseWith("shutdown") /\ UNCHANGED toBridge
         ELSE /\ record' = [record EXCEPT ![id] = IF @ = "pending" THEN "rejected" ELSE @]
              /\ toBridge' = Tail(toBridge)
              /\ UNCHANGED <<client, cause>>
    /\ UNCHANGED <<running, toClient, bridgeVars>>

TerminalFrame_ResultOnly(frame) == frame.type = "result"
\* The frame that ends a request.
TerminalFrame(frame) == frame.type \in {"result", "error"}

\* Frames while the client is ready or closing: #route.
Route(frame) ==
    LET id == frame.id IN
    CASE id = NoId -> CloseWith("uncorrelated_error") /\ UNCHANGED running
      [] id # NoId /\ record[id] \in {"ignored", "ignoredForever"} ->
           /\ record' = [record EXCEPT ![id] = IF TerminalFrame(frame) THEN "forgotten" ELSE @]
           /\ UNCHANGED <<client, cause, running>>
      [] id # NoId /\ record[id] \in {"pending", "queued"} /\ frame.type = "event" ->
           /\ running' = running \cup {id}
           /\ UNCHANGED <<client, cause, record>>
      [] id # NoId /\ record[id] \in {"pending", "queued"} /\ frame.type = "error" ->
           IF id = ShutdownId
           THEN CloseWith("shutdown") /\ UNCHANGED running
           ELSE /\ record' = [record EXCEPT ![id] = "rejected"]
                /\ UNCHANGED <<client, cause, running>>
      [] id # NoId /\ record[id] \in {"pending", "queued"} /\ frame.type = "result" ->
           IF id = ShutdownId
           THEN /\ client' = "closed" /\ cause' = "shutdown"
                /\ record' = [RejectAll EXCEPT ![id] = "resolved"]
                /\ UNCHANGED running
           ELSE /\ record' = [record EXCEPT ![id] = IF id \in running THEN "queued" ELSE "resolved"]
                /\ UNCHANGED <<client, cause, running>>
      [] id # NoId /\ record[id] \in {"resolved", "rejected", "forgotten", "unused"} ->
           IF frame.type = "error"
           THEN UNCHANGED <<client, cause, record, running>>
           ELSE CloseWith("unknown_request") /\ UNCHANGED running

\* #routeHandshake: the first frame must answer the initialize request.
RouteHandshake(frame) ==
    /\ IF frame.type = "handshake"
       THEN client' = "ready" /\ UNCHANGED <<cause, record>>
       ELSE CloseWith("handshake_rejected")
    /\ UNCHANGED running

\* A chunk of stdout arrives at a client that is not closed.
Receive ==
    /\ toClient # <<>>
    /\ toClient' = Tail(toClient)
    /\ \/ client = "connecting" /\ RouteHandshake(Head(toClient))
       \/ client \in {"ready", "closing"} /\ Route(Head(toClient))
    /\ UNCHANGED <<toBridge, bridgeVars>>

\* The last handler of a request's chain finishes: a queued result settles it.
HandlersFinish(r) ==
    /\ r \in running
    /\ running' = running \ {r}
    /\ record' = [record EXCEPT ![r] = IF @ = "queued" THEN "resolved" ELSE @]
    /\ UNCHANGED <<client, cause, toBridge, toClient, bridgeVars>>

\* A handler throws: #enqueueHandler fails the connection.
HandlerThrows(r) ==
    /\ r \in running
    /\ Open
    /\ CloseWith("handler_failed")
    /\ running' = running \ {r}
    /\ UNCHANGED <<toBridge, toClient, bridgeVars>>

\* #receive of a closed client drops whatever is still in the pipe.
DropLateOutput ==
    /\ client = "closed"
    /\ toClient # <<>>
    /\ toClient' = <<>>
    /\ UNCHANGED <<clientVars, toBridge, bridgeVars>>

\* The exit event of the child process.  It is not ordered after the data that
\* is still in the stdout pipe.
TransportClosed ==
    /\ serve = "exited"
    /\ Open
    /\ CloseWith("process_exited")
    /\ UNCHANGED <<running, toBridge, toClient, bridgeVars>>

\* close(), called by the owner of the client.
Close ==
    /\ Open
    /\ CloseWith("closed")
    /\ UNCHANGED <<running, toBridge, toClient, bridgeVars>>

Client ==
    \/ Connect \/ HandshakeTimeout \/ Shutdown \/ Receive \/ DropLateOutput \/ TransportClosed
    \/ Close \/ WriteFails
    \/ \E r \in Requests : Request(r) \/ Abort(r)
    \/ \E r \in Spawned : HandlersFinish(r) \/ HandlerThrows(r)
    \/ \E c \in Controls : Control(c)
    \/ \E c \in ControlIds : ControlTimeout(c)

-----------------------------------------------------------------------------
(* The bridge process.                                                     *)

\* A closed client has stopped reading: what is written then is lost.
Send(frame) == toClient' = IF client = "closed" THEN toClient ELSE Append(toClient, frame)

Reads(type) ==
    /\ serve = IF type = "initialize" THEN "uninitialized" ELSE "serving"
    /\ toBridge # <<>>
    /\ Head(toBridge).type = type
    /\ toBridge' = Tail(toBridge)

WithinLimit_OffByOne == Cardinality(seen) <= MaxRequestIds
WithinLimit == Cardinality(seen) < MaxRequestIds

Initialize ==
    /\ Reads("initialize")
    /\ serve' = "serving"
    /\ seen' = seen \cup {InitId}
    /\ Send(Frame("handshake", InitId))
    /\ UNCHANGED <<tasks, active, cancelled, emitted, replyTo, clientVars>>

StartRequest ==
    /\ Reads("request")
    /\ WithinLimit
    /\ LET r == Head(toBridge).id IN
       /\ seen' = seen \cup {r}
       /\ active' = active \cup {r}
       /\ tasks' = [tasks EXCEPT ![r] = "running"]
    /\ UNCHANGED <<serve, cancelled, emitted, replyTo, toClient, clientVars>>

\* write_session: an unknown or exited session and an empty write are answered at
\* once; any other write becomes a task, which may have to ask for approval.
WriteSession ==
    /\ Reads("sessionWrite")
    /\ WithinLimit
    /\ LET w == Head(toBridge).id IN
       /\ seen' = seen \cup {w}
       /\ \/ /\ \E type \in {"result", "error"} : Send(Frame(type, w))
             /\ UNCHANGED <<active, tasks>>
          \/ /\ active' = active \cup {w}
             /\ tasks' = [tasks EXCEPT ![w] = "running"]
             /\ UNCHANGED toClient
    /\ UNCHANGED <<serve, cancelled, emitted, replyTo, clientVars>>

\* cancel_request: cancel an active target, answer the cancel request.
CancelRequest ==
    /\ Reads("cancel")
    /\ WithinLimit
    /\ LET id == Head(toBridge).id
           target == id[2]
       IN /\ seen' = seen \cup {id}
          /\ cancelled' = IF target \in active THEN cancelled \cup {target} ELSE cancelled
          /\ Send(Frame(IF target \in active THEN "result" ELSE "error", id))
    /\ UNCHANGED <<serve, tasks, active, emitted, replyTo, clientVars>>

\* resolve_approval, resize_session, terminate_session: one terminal frame, either way.
ControlRequest ==
    /\ Reads("control")
    /\ WithinLimit
    /\ seen' = seen \cup {Head(toBridge).id}
    /\ \E type \in {"result", "error"} : Send(Frame(type, Head(toBridge).id))
    /\ UNCHANGED <<serve, tasks, active, cancelled, emitted, replyTo, clientVars>>

\* Leaving the serve loop: every active request is cancelled.
Stop ==
    /\ serve' = "draining"
    /\ cancelled' = cancelled \cup active

ShutdownReply_Immediate == replyTo' = NoId /\ Send(Frame("result", ShutdownId))
\* The shutdown request is answered only after the requests were joined.
ShutdownReply == replyTo' = ShutdownId /\ UNCHANGED toClient

ShutdownRequest ==
    /\ Reads("shutdown")
    /\ WithinLimit
    /\ seen' = seen \cup {Head(toBridge).id}
    /\ Stop
    /\ ShutdownReply
    /\ UNCHANGED <<tasks, active, emitted, clientVars>>

\* The id limit is checked before a frame is even looked at.
RequestLimitExceeded ==
    /\ serve = "serving"
    /\ toBridge # <<>>
    /\ ~WithinLimit
    /\ toBridge' = Tail(toBridge)
    /\ Send(Frame("error", NoId))
    /\ Stop
    /\ UNCHANGED <<seen, tasks, active, emitted, replyTo, clientVars>>

\* stdin reached its end: the client closed the transport.
EndOfInput ==
    /\ serve \in {"uninitialized", "serving"}
    /\ client = "closed"
    /\ toBridge = <<>>
    /\ Stop
    /\ UNCHANGED <<seen, tasks, active, emitted, replyTo, toBridge, toClient, clientVars>>

\* An event, an approval request or a backpressure frame of a running task.
TaskEmits(r) ==
    /\ serve # "exited"
    /\ tasks[r] = "running"
    /\ emitted[r] < MaxEvents
    /\ emitted' = [emitted EXCEPT ![r] = @ + 1]
    /\ Send(Frame("event", r))
    /\ UNCHANGED <<serve, seen, tasks, active, cancelled, replyTo, toBridge, clientVars>>

TaskReturns(r) ==
    /\ serve # "exited"
    /\ tasks[r] = "running"
    /\ tasks' = [tasks EXCEPT ![r] = "finished"]
    /\ \E type \in {"result", "error"} : Send(Frame(type, r))
    /\ UNCHANGED <<serve, seen, active, cancelled, emitted, replyTo, toBridge, clientVars>>

\* A task that panics sends no terminal frame, and join_next yields an error
\* without its id: its entry stays active until the drain clears the map.
TaskPanics(r) ==
    /\ serve # "exited"
    /\ tasks[r] = "running"
    /\ tasks' = [tasks EXCEPT ![r] = "panicked"]
    /\ UNCHANGED <<serve, seen, active, cancelled, emitted, replyTo, toBridge, toClient, clientVars>>

\* join_next and remove_completed, in the loop or while draining.
RemoveCompleted(r) ==
    /\ serve # "exited"
    /\ tasks[r] = "finished"
    /\ tasks' = [tasks EXCEPT ![r] = "joined"]
    /\ active' = active \ {r}
    /\ UNCHANGED <<serve, seen, cancelled, emitted, replyTo, toBridge, toClient, clientVars>>

AbortAll_NoDeadline == FALSE /\ UNCHANGED vars
\* The five second deadline of cancel_and_join_requests aborts what still runs.
AbortAll ==
    /\ serve = "draining"
    /\ \E r \in Spawned : tasks[r] = "running"
    /\ tasks' = [r \in Spawned |-> IF tasks[r] = "none" THEN "none" ELSE "joined"]
    /\ active' = {}
    /\ UNCHANGED <<serve, seen, cancelled, emitted, replyTo, toBridge, toClient, clientVars>>

Joined == \A r \in Spawned : tasks[r] \in {"none", "joined", "panicked"}

\* Everything is joined: answer the shutdown request, flush, exit.
Exit ==
    /\ serve = "draining"
    /\ Joined
    /\ serve' = "exited"
    /\ IF replyTo = NoId THEN UNCHANGED toClient ELSE Send(Frame("result", replyTo))
    /\ replyTo' = NoId
    /\ active' = {}
    /\ UNCHANGED <<seen, tasks, cancelled, emitted, toBridge, clientVars>>

\* The process dies: it crashes or is killed, or child.kill() of a closed
\* client reaches it.  What it wrote may still be read, what it had not read is lost.
Die ==
    /\ serve # "exited"
    /\ client # "new"
    /\ serve' = "exited"
    /\ tasks' = [r \in Spawned |-> IF tasks[r] = "none" THEN "none" ELSE "joined"]
    /\ active' = {}
    /\ toBridge' = <<>>
    /\ UNCHANGED <<seen, cancelled, emitted, replyTo, toClient, clientVars>>

Bridge ==
    \/ Initialize \/ StartRequest \/ WriteSession \/ CancelRequest \/ ControlRequest
    \/ ShutdownRequest \/ RequestLimitExceeded \/ EndOfInput \/ AbortAll \/ Exit \/ Die
    \/ \E r \in Spawned : TaskEmits(r) \/ TaskReturns(r) \/ TaskPanics(r) \/ RemoveCompleted(r)

-----------------------------------------------------------------------------

Init ==
    /\ client = "new" /\ cause = "none"
    /\ record = [id \in Ids |-> "unused"]
    /\ running = {}
    /\ toBridge = <<>> /\ toClient = <<>>
    /\ serve = "uninitialized" /\ seen = {}
    /\ tasks = [r \in Spawned |-> "none"]
    /\ active = {} /\ cancelled = {}
    /\ emitted = [r \in Spawned |-> 0]
    /\ replyTo = NoId

\* The connection is over, or idle with every id of the model used up.
Idle ==
    /\ \/ client = "closed" /\ serve = "exited"
       \/ IsReady /\ \A id \in Ids \ {ShutdownId} : record[id] # "unused"
    /\ UNCHANGED vars

Next == Client \/ Bridge \/ Idle

Spec == Init /\ [][Next]_vars

\* Fairness: the serve loop reaches its deadline, joins what ended and exits.
\* Nothing obliges a request task to return, a frame to be sent or a process to die.
Fairness ==
    /\ WF_vars(AbortAll)
    /\ WF_vars(Exit)
    /\ \A r \in Spawned : WF_vars(RemoveCompleted(r))

FairSpec == Spec /\ Fairness

-----------------------------------------------------------------------------
(* Properties.                                                             *)

RecordState ==
    {"unused", "pending", "queued", "ignored", "ignoredForever", "forgotten", "resolved", "rejected"}

\* Every variable keeps its type.
TypeOK ==
    /\ client \in {"new", "connecting", "ready", "closing", "closed"}
    /\ cause \in {"none", "handshake_timeout", "handshake_rejected", "uncorrelated_error", "shutdown",
                  "unknown_request", "handler_failed", "process_exited", "closed"}
    /\ record \in [Ids -> RecordState]
    /\ running \subseteq Spawned
    /\ \A i \in DOMAIN toBridge : toBridge[i].id \in Ids \cup {InitId}
    /\ \A i \in DOMAIN toClient : toClient[i].id \in Ids \cup {InitId, NoId}
    /\ serve \in {"uninitialized", "serving", "draining", "exited"}
    /\ seen \subseteq Ids \cup {InitId}
    /\ Cardinality(seen) <= MaxRequestIds
    /\ tasks \in [Spawned -> {"none", "running", "finished", "panicked", "joined"}]
    /\ active \subseteq Spawned
    /\ cancelled \subseteq Spawned
    /\ emitted \in [Spawned -> 0..MaxEvents]
    /\ replyTo \in {NoId, ShutdownId}

\* However aborts, control timeouts, late replies and shutdown interleave, the
\* client never meets a frame it cannot attribute: it closes because it was told
\* to, because the process died, because a handler threw, because the handshake
\* timed out, or because the bridge reported its id limit.
EveryFrameIsAttributed ==
    /\ cause \notin {"unknown_request", "handshake_rejected"}
    /\ cause = "uncorrelated_error" => Cardinality(seen) >= MaxRequestIds

\* When shutdown resolves, the bridge has joined (or, at the deadline, aborted)
\* every request task, and no frame of theirs follows the reply.
ShutdownQuiesces ==
    record[ShutdownId] = "resolved" => Joined /\ active = {} /\ toClient = <<>>

\* An id is awaited or ignored only as long as its terminal frame is still to
\* come: no caller waits for a frame that nobody will send, and the set of ignored
\* ids (with its limit of 65536) is not used up by finished requests.  Two
\* exceptions: a request task that panicked, whose caller waits until the
\* connection ends, and an abort after the result was received and before its
\* handlers finished ("ignoredForever").
AwaitedIsAnswered ==
    \A id \in Ids :
        record[id] \in {"pending", "ignored"} /\ Open /\ serve = "serving" =>
            \/ \E i \in DOMAIN toBridge : toBridge[i].id = id
            \/ \E i \in DOMAIN toClient : toClient[i].id = id /\ toClient[i].type \in {"result", "error"}
            \/ id \in Spawned /\ tasks[id] \in {"running", "panicked"}

\* A request task that does not react to its cancellation cannot keep the bridge
\* from exiting.
DrainingEnds == serve = "draining" ~> serve = "exited"

\* Both ends agree on whose frames they exchange: the state is typed, no frame
\* is unexpected, and an id is awaited or ignored exactly as long as its terminal
\* frame is still to come.
FramesAreAttributed == TypeOK /\ EveryFrameIsAttributed /\ AwaitedIsAnswered
=============================================================================
