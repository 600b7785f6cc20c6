---------------------------- MODULE FlowControl ----------------------------
(***************************************************************************)
(* One streamed request across the bridge: the Rust request task that      *)
(* emits events through its FlowController, the serve loop that reads      *)
(* acknowledgements and cancellations, the bounded output channel between  *)
(* them and stdout, and the TypeScript client that queues the events of a  *)
(* request on one promise chain, handles them in order and acknowledges    *)
(* each one.                                                               *)
(*                                                                         *)
(* The FlowState mutex is never held across an await, so every critical    *)
(* section is one step.  What is NOT one step is the code of emit between  *)
(* the release of that mutex and the creation of the Notified future:      *)
(* other tasks run there, and the model interleaves them.                  *)
(***************************************************************************)
EXTENDS Integers, Sequences

CONSTANTS
    Window,          \* MAX_PENDING_EVENTS, 256 in the bridge
    OutputCapacity,  \* OUTPUT_CHANNEL_CAPACITY, 64 in the bridge
    MaxSequence      \* u32::MAX, where checked_add fails

ASSUME FlowAssumption ==
    /\ Window \in Nat \ {0}
    /\ OutputCapacity \in Nat \ {0}
    /\ MaxSequence \in Nat

VARIABLES
    lastSent, lastAcknowledged, paused,  \* FlowState
    task,         \* where the request task stands
    cancelled,    \* its CancellationToken
    active,       \* the request has an entry in ConnectionState.active
    owed,         \* what the serve loop is about to send, or None
    output,       \* the output channel, drained by write_loop into the pipe
    input,        \* frames the client wrote that the serve loop has not read
    request,      \* the client's record of the request
    eventChain,   \* the handlers queued on PendingRequest.eventChain
    handled,      \* how many events onEvent has handled and acknowledged
    connection    \* "ready", or what made the client fail

bridgeVars == <<lastSent, lastAcknowledged, paused, task, cancelled, active, owed>>
clientVars == <<request, eventChain, handled, connection>>
vars == <<bridgeVars, clientVars, output, input>>

None == [type |-> "none"]
Event(n) == [type |-> "event", sequence |-> n]
Paused == [type |-> "paused"]
Resumed == [type |-> "resumed"]
Terminal == {[type |-> "result"], [type |-> "error"]}
CancelReply == [type |-> "cancelReply"]
ProtocolError == [type |-> "protocolError"]  \* an error frame with no requestId
Acknowledge(n) == [type |-> "acknowledge", sequence |-> n]
Cancel == [type |-> "cancel"]

ServerFrame ==
    [type : {"event"}, sequence : 1..MaxSequence]
      \cup {Paused, Resumed, CancelReply, ProtocolError} \cup Terminal
ClientFrame == [type : {"acknowledge"}, sequence : 1..MaxSequence] \cup {Cancel}

-----------------------------------------------------------------------------
(* The FlowController and the request task.                                *)

\* A failed client kills the bridge process: after that neither side takes a
\* step that can be observed.
Live == connection = "ready"

\* A channel send completes only when the channel has room.
HasRoom == Len(output) < OutputCapacity

Push(frame) == HasRoom /\ output' = Append(output, frame)

MayEmit_OffByOne == lastSent - lastAcknowledged <= Window
MayEmit == lastSent - lastAcknowledged < Window

SequenceExhausted_Unchecked == FALSE
\* last_sent.checked_add(1) fails.
SequenceExhausted == lastSent = MaxSequence

\* One critical section of emit: number the event, give up because the
\* sequence is exhausted, or mark the flow as paused.
EmitLocked ==
    /\ Live
    /\ task \in {"running", "emit"}
    /\ \/ /\ MayEmit /\ ~SequenceExhausted
          /\ lastSent' = lastSent + 1
          /\ task' = "sendEvent"
          /\ UNCHANGED paused
       \/ /\ MayEmit /\ SequenceExhausted
          /\ task' = "sendError"
          /\ UNCHANGED <<lastSent, paused>>
       \/ /\ ~MayEmit
          /\ paused' = TRUE
          /\ task' = IF paused THEN "register" ELSE "announcePause"
          /\ UNCHANGED lastSent
    /\ UNCHANGED <<lastAcknowledged, cancelled, active, owed, output, input, clientVars>>

EmitEvent ==
    /\ Live
    /\ task = "sendEvent"
    /\ Push(Event(lastSent))
    /\ task' = "running"
    /\ UNCHANGED <<lastSent, lastAcknowledged, paused, cancelled, active, owed, input, clientVars>>

AnnouncePause ==
    /\ Live
    /\ task = "announcePause"
    /\ Push(Paused)
    /\ task' = "register"
    /\ UNCHANGED <<lastSent, lastAcknowledged, paused, cancelled, active, owed, input, clientVars>>

\* acknowledgement.notified() is created: only from here on can
\* notify_waiters reach the emitter.
RegisterWaiter ==
    /\ Live
    /\ task = "register"
    /\ task' = "waiting"
    /\ UNCHANGED <<lastSent, lastAcknowledged, paused, cancelled, active, owed, output, input, clientVars>>

EmitCancelled_Uncancellable == FALSE /\ UNCHANGED vars
\* The cancellation branch of the select in emit.
EmitCancelled ==
    /\ Live
    /\ task = "waiting"
    /\ cancelled
    /\ task' = "sendResult"
    /\ UNCHANGED <<lastSent, lastAcknowledged, paused, cancelled, active, owed, output, input, clientVars>>

\* dispatch returns between two emits: completed, failed, or aborted.
DispatchReturns ==
    /\ Live
    /\ task = "running"
    /\ task' \in {"sendResult", "sendError"}
    /\ UNCHANGED <<lastSent, lastAcknowledged, paused, cancelled, active, owed, output, input, clientVars>>

\* The last statement of run_request.
SendTerminal ==
    /\ Live
    /\ task \in {"sendResult", "sendError"}
    /\ Push([type |-> IF task = "sendResult" THEN "result" ELSE "error"])
    /\ task' = "done"
    /\ UNCHANGED <<lastSent, lastAcknowledged, paused, cancelled, active, owed, input, clientVars>>

RequestTask ==
    \/ EmitLocked \/ EmitEvent \/ AnnouncePause \/ RegisterWaiter
    \/ EmitCancelled \/ DispatchReturns \/ SendTerminal

-----------------------------------------------------------------------------
(* The serve loop.                                                         *)

\* join_next reports the finished task and remove_completed drops its entry.
RemoveCompleted ==
    /\ Live
    /\ owed = None
    /\ task = "done"
    /\ active
    /\ active' = FALSE
    /\ UNCHANGED <<lastSent, lastAcknowledged, paused, task, cancelled, owed, output, input, clientVars>>

NotifyWaiters_Lost == UNCHANGED task
\* notify_waiters wakes the emitter only if it is already registered.
NotifyWaiters == task' = IF task = "waiting" THEN "emit" ELSE task

UnknownTarget_Reject == owed' = ProtocolError
\* The acknowledged request is not active but its id was seen: ignore it.
UnknownTarget == UNCHANGED owed

ServeAcknowledge ==
    /\ Live
    /\ owed = None
    /\ input # <<>> /\ Head(input).type = "acknowledge"
    /\ input' = Tail(input)
    /\ LET sequence == Head(input).sequence IN
       IF ~active
       THEN UnknownTarget /\ UNCHANGED <<lastAcknowledged, paused, task>>
       ELSE IF sequence > lastSent
       THEN owed' = ProtocolError /\ UNCHANGED <<lastAcknowledged, paused, task>>
       ELSE IF sequence <= lastAcknowledged
       THEN UNCHANGED <<lastAcknowledged, paused, task, owed>>
       ELSE /\ lastAcknowledged' = sequence
            /\ paused' = FALSE
            /\ NotifyWaiters
            /\ owed' = IF paused THEN Resumed ELSE None
    /\ UNCHANGED <<lastSent, cancelled, active, output, clientVars>>

\* cancel_request: an active target is cancelled; either way one reply frame
\* answers the cancel request itself.
ServeCancel ==
    /\ Live
    /\ owed = None
    /\ input # <<>> /\ Head(input) = Cancel
    /\ input' = Tail(input)
    /\ cancelled' = (cancelled \/ active)
    /\ owed' = CancelReply
    /\ UNCHANGED <<lastSent, lastAcknowledged, paused, task, active, output, clientVars>>

\* The serve loop awaits its own send before it reads the next frame.
ServeSend ==
    /\ Live
    /\ owed # None
    /\ Push(owed)
    /\ owed' = None
    /\ UNCHANGED <<lastSent, lastAcknowledged, paused, task, cancelled, active, input, clientVars>>

ServeLoop == RemoveCompleted \/ ServeAcknowledge \/ ServeCancel \/ ServeSend

-----------------------------------------------------------------------------
(* The client.                                                             *)

Fail(cause) == connection' = cause /\ UNCHANGED <<request, eventChain>>

Enqueue_AtHead(frame) == <<frame>> \o eventChain
\* eventChain.then(handler): handlers run in the order their frames arrived.
Enqueue(frame) == Append(eventChain, frame)

QueueResult_Eager ==
    /\ request' = "resolved"
    /\ UNCHANGED <<eventChain, connection>>
\* A result waits for the handlers that are already queued.
QueueResult ==
    /\ eventChain' = Enqueue([type |-> "result"])
    /\ UNCHANGED <<request, connection>>

\* A frame of this request: #route.
Route(frame) ==
    CASE request = "ignored" ->
           /\ request' = IF frame \in Terminal THEN "forgotten" ELSE request
           /\ UNCHANGED <<eventChain, connection>>
      [] request # "ignored" /\ frame.type = "error" ->
           /\ request' = IF request = "pending" THEN "rejected" ELSE request
           /\ UNCHANGED <<eventChain, connection>>
      [] request \notin {"ignored", "pending"} /\ frame.type # "error" ->
           Fail(frame.type)
      [] request = "pending" /\ frame.type = "result" ->
           QueueResult
      [] request = "pending" /\ frame.type \in {"event", "paused", "resumed"} ->
           /\ eventChain' = Enqueue(frame)
           /\ UNCHANGED <<request, connection>>

\* One frame leaves the channel, crosses the pipe and is routed.
Receive ==
    /\ Live
    /\ output # <<>>
    /\ output' = Tail(output)
    /\ CASE Head(output) = CancelReply -> UNCHANGED <<request, eventChain, connection>>
         [] Head(output) = ProtocolError -> Fail("protocolError")
         [] OTHER -> Route(Head(output))
    /\ UNCHANGED <<bridgeVars, input, handled>>

\* The handler at the head of the chain finishes: an event is acknowledged, a
\* result that waited for the handlers before it settles the request.
RunHandler ==
    /\ Live
    /\ eventChain # <<>>
    /\ eventChain' = Tail(eventChain)
    /\ LET item == Head(eventChain) IN
       /\ IF item.type = "event"
          THEN /\ handled' = handled + 1
               /\ input' = Append(input, Acknowledge(item.sequence))
          ELSE UNCHANGED <<handled, input>>
       /\ request' = IF item.type = "result" /\ request = "pending"
                     THEN "resolved" ELSE request
    /\ UNCHANGED <<bridgeVars, output, connection>>

\* A handler throws: the whole connection fails and every request of it is
\* rejected.
HandlerThrows ==
    /\ Live
    /\ eventChain # <<>> /\ Head(eventChain).type # "result"
    /\ connection' = "handler"
    /\ UNCHANGED <<bridgeVars, output, input, request, eventChain, handled>>

\* The caller's signal aborts: reject, ignore what still arrives, send cancel.
Abort ==
    /\ Live
    /\ request = "pending"
    /\ request' = "ignored"
    /\ input' = Append(input, Cancel)
    /\ UNCHANGED <<bridgeVars, output, eventChain, handled, connection>>

Client == Receive \/ RunHandler \/ HandlerThrows \/ Abort

-----------------------------------------------------------------------------

Init ==
    /\ lastSent = 0 /\ lastAcknowledged = 0 /\ paused = FALSE
    /\ task = "running" /\ cancelled = FALSE /\ active = TRUE /\ owed = None
    /\ output = <<>> /\ input = <<>>
    /\ request = "pending" /\ eventChain = <<>> /\ handled = 0
    /\ connection = "ready"

\* Nothing is left to do: the exchange ended, or the client killed the bridge.
Finished ==
    /\ \/ ~Live
       \/ /\ ~active /\ owed = None
          /\ output = <<>> /\ input = <<>> /\ eventChain = <<>>
          /\ request # "pending"
    /\ UNCHANGED vars

Next == RequestTask \/ ServeLoop \/ Client \/ Finished

Spec == Init /\ [][Next]_vars

\* Fairness: the tokio scheduler runs a task that can make progress, the pipe
\* delivers, and event handlers return.  dispatch is only owed to return once it
\* is cancelled, handlers are not owed to throw and callers not to abort.
Fairness ==
    /\ WF_vars(EmitEvent \/ AnnouncePause \/ RegisterWaiter \/ EmitCancelled \/ SendTerminal)
    /\ WF_vars(task = "emit" /\ EmitLocked)
    /\ WF_vars(cancelled /\ DispatchReturns)
    /\ WF_vars(ServeLoop)
    /\ WF_vars(Receive)
    /\ WF_vars(RunHandler)

FairSpec == Spec /\ Fairness

-----------------------------------------------------------------------------
(* Properties.                                                             *)

TaskState == {"running", "emit", "sendEvent", "announcePause", "register", "waiting",
              "sendResult", "sendError", "done"}
RequestState == {"pending", "ignored", "forgotten", "resolved", "rejected"}

\* Every variable keeps its type.
TypeOK ==
    /\ lastSent \in 0..MaxSequence
    /\ lastAcknowledged \in 0..MaxSequence
    /\ paused \in BOOLEAN
    /\ task \in TaskState
    /\ cancelled \in BOOLEAN
    /\ active \in BOOLEAN
    /\ owed \in {None, Resumed, CancelReply, ProtocolError}
    /\ output \in Seq(ServerFrame)
    /\ input \in Seq(ClientFrame)
    /\ request \in RequestState
    /\ eventChain \in Seq(ServerFrame)
    /\ handled \in Nat
    /\ connection \in {"ready", "handler", "event", "paused", "resumed", "result", "protocolError"}

\* The sequence numbers of the events in a queue of frames.
EventsIn(queue) == {queue[i].sequence : i \in {j \in DOMAIN queue : queue[j].type = "event"}}

\* The events that are numbered and not yet handled by the client.
Unhandled ==
    EventsIn(eventChain) \cup EventsIn(output)
      \cup (IF task = "sendEvent" THEN {lastSent} ELSE {})

\* The acknowledgements on their way to the serve loop.
AcknowledgementsInFlight ==
    {input[i].sequence : i \in {j \in DOMAIN input : input[j].type = "acknowledge"}}

\* emit counts what it sent against what was acknowledged; end to end this
\* bounds everything that is buffered anywhere: an event in the channel, in the
\* pipe, on the promise chain, or whose acknowledgement is on its way back, is
\* one of the last Window events.
EndToEndWindow ==
    \A n \in Unhandled \cup AcknowledgementsInFlight : n <= lastSent /\ lastSent - n < Window

\* As long as the request is pending the client misses no event: what is still
\* to be handled is exactly what follows the handled events, and the promise
\* chain offers them in order.
InOrderWithoutGaps ==
    /\ request = "pending" => Unhandled = (handled + 1)..lastSent
    /\ \A i \in DOMAIN eventChain :
          /\ eventChain[i].type = "event"
          /\ \A j \in 1..(i - 1) : eventChain[j].type # "event"
          => eventChain[i].sequence = handled + 1

\* Whatever the interleaving of aborts, terminal frames and late
\* acknowledgements, the bridge never answers an acknowledgement with the
\* uncorrelated error that makes the client drop the connection, and the only
\* frame that can reach the client for a request it has settled is a "resumed"
\* backpressure frame.
OnlyLateResumeIsFatal ==
    connection \in {"ready", "handler", "resumed"}

\* An emitter that is registered while acknowledgements are outstanding goes on.
RegisteredEmitterResumes ==
    (task = "waiting" /\ lastAcknowledged < lastSent) ~> (task # "waiting" \/ ~Live)

\* "Stream event production pauses after 256 unacknowledged events and resumes
\* after acknowledgement" (docs/bridge-protocol.md).
ResumesAfterAcknowledgement ==
    (task = "waiting") ~> (task # "waiting" \/ ~Live)

\* A request whose cancellation reached the bridge comes to an end: its task
\* finishes and its entry is removed, wherever emit was blocked.
CancellationEnds ==
    cancelled ~> (~active \/ ~Live)

\* The streamed request implements the abstract event stream: the caller's
\* promise resolves only after every event was handled, in order, and never
\* more than Window events are outstanding.
Stream == INSTANCE EventStream WITH
    produced <- lastSent,
    consumed <- handled,
    outcome <- CASE request = "resolved" -> "resolved"
                 [] request = "pending" /\ connection = "ready" -> "open"
                 [] OTHER -> "rejected"
ImplementsEventStream == Stream!Spec

\* The emitter makes progress: once it waits registered it goes on when events
\* are acknowledged, and a cancellation ends its request wherever emit blocks.
EmitterProgress == RegisteredEmitterResumes /\ CancellationEnds
=============================================================================
