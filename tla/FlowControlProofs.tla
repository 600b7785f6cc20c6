------------------------- MODULE FlowControlProofs -------------------------
(***************************************************************************)
(* Proofs about one streamed request, for every window, channel capacity   *)
(* and sequence limit; the last part shows that FlowControl implements     *)
(* EventStream.                                                            *)
(*                                                                         *)
(* The window and the absence of uncorrelated errors rest on one fact      *)
(* about all the places an event number can be: the acknowledgements on    *)
(* their way to the bridge, the events on the client's promise chain and   *)
(* the events in the output channel form, in this order, one strictly      *)
(* increasing line between lastAcknowledged and lastSent.                  *)
(***************************************************************************)
EXTENDS FlowControl, TLAPS

-----------------------------------------------------------------------------
(* The inductive invariant.                                                *)

\* The numbers of the frames of type t in a queue increase.
Increasing(q, t) ==
    \A i, j \in DOMAIN q : i < j /\ q[i].type = t /\ q[j].type = t => q[i].sequence < q[j].sequence

\* Those of type s in p are below those of type t in q.
Precede(p, s, q, t) ==
    \A i \in DOMAIN p, j \in DOMAIN q : p[i].type = s /\ q[j].type = t => p[i].sequence < q[j].sequence

Between(q, t, low, high) ==
    \A i \in DOMAIN q : q[i].type = t => low < q[i].sequence /\ q[i].sequence <= high

\* The last event that has entered the output channel.
LastPushed == IF task = "sendEvent" THEN lastSent - 1 ELSE lastSent

Line ==
    /\ lastAcknowledged <= LastPushed
    /\ lastSent - lastAcknowledged <= Window
    /\ Between(input, "acknowledge", lastAcknowledged, LastPushed)
    /\ Between(eventChain, "event", lastAcknowledged, LastPushed)
    /\ Between(output, "event", lastAcknowledged, LastPushed)
    /\ Increasing(input, "acknowledge")
    /\ Increasing(eventChain, "event")
    /\ Increasing(output, "event")
    /\ Precede(input, "acknowledge", eventChain, "event")
    /\ Precede(input, "acknowledge", output, "event")
    /\ Precede(eventChain, "event", output, "event")

\* No uncorrelated error is sent or about to be sent.
Correlated ==
    /\ owed # ProtocolError
    /\ \A i \in DOMAIN output : output[i] # ProtocolError

\* Frames that may still follow the terminal frame of the request.
Trailing == {Resumed, CancelReply}

\* The terminal frame is the last thing the request task sends.
TerminalIsLast ==
    /\ \A i \in DOMAIN output : output[i] \in Terminal =>
          task = "done" /\ \A j \in DOMAIN output : i < j => output[j] \in Trailing
    /\ (request \in {"resolved", "rejected", "forgotten"}
          \/ \E i \in DOMAIN eventChain : eventChain[i].type = "result") =>
          task = "done" /\ \A j \in DOMAIN output : output[j] \in Trailing

IInv == TypeOK /\ Line /\ Correlated /\ TerminalIsLast /\ OnlyLateResumeIsFatal

-----------------------------------------------------------------------------
(* What Append and Tail do to the parts of the line.                       *)

\* Taking the head off a queue keeps its order, and the head was the least.
LEMMA TailKeepsLine ==
    ASSUME NEW S, NEW q \in Seq(S), q # <<>>, NEW t, NEW low, NEW high,
           Increasing(q, t), Between(q, t, low, high)
    PROVE  /\ Increasing(Tail(q), t)
           /\ Between(Tail(q), t, low, high)
           /\ Head(q).type = t =>
                \A j \in DOMAIN Tail(q) : Tail(q)[j].type = t => Head(q).sequence < Tail(q)[j].sequence
  <1>1. /\ Len(q) \in Nat /\ Len(q) > 0 /\ DOMAIN q = 1..Len(q)
        /\ Tail(q) \in Seq(S) /\ Len(Tail(q)) = Len(q) - 1
        /\ DOMAIN Tail(q) = 1..(Len(q) - 1)
        /\ \A i \in 1..(Len(q) - 1) : Tail(q)[i] = q[i + 1]
        /\ Head(q) = q[1]
    OBVIOUS
  <1>2. \A i \in DOMAIN Tail(q) : i + 1 \in DOMAIN q /\ 1 < i + 1 /\ Tail(q)[i] = q[i + 1]
    BY <1>1
  <1>3. \A i, j \in DOMAIN Tail(q) : i < j => i + 1 < j + 1
    BY <1>1
  <1>4. Increasing(Tail(q), t)
    BY <1>2, <1>3 DEF Increasing
  <1>5. Between(Tail(q), t, low, high)
    BY <1>2 DEF Between
  <1>6. 1 \in DOMAIN q
    BY <1>1
  <1>7. Head(q).type = t =>
           \A j \in DOMAIN Tail(q) : Tail(q)[j].type = t => Head(q).sequence < Tail(q)[j].sequence
    BY <1>1, <1>2, <1>6 DEF Increasing
  <1> QED
    BY <1>4, <1>5, <1>7

\* Taking the head off either of two queues keeps what precedes what.
LEMMA TailKeepsPrecede ==
    ASSUME NEW S, NEW p \in Seq(S), NEW T, NEW q \in Seq(T), NEW s, NEW t, Precede(p, s, q, t)
    PROVE  /\ p # <<>> => Precede(Tail(p), s, q, t)
           /\ q # <<>> => Precede(p, s, Tail(q), t)
           /\ p # <<>> /\ Head(p).type = s =>
                \A j \in DOMAIN q : q[j].type = t => Head(p).sequence < q[j].sequence
           /\ q # <<>> /\ Head(q).type = t =>
                \A i \in DOMAIN p : p[i].type = s => p[i].sequence < Head(q).sequence
  <1>1. p # <<>> => /\ \A i \in DOMAIN Tail(p) : i + 1 \in DOMAIN p /\ Tail(p)[i] = p[i + 1]
                    /\ 1 \in DOMAIN p /\ Head(p) = p[1]
    OBVIOUS
  <1>2. q # <<>> => /\ \A i \in DOMAIN Tail(q) : i + 1 \in DOMAIN q /\ Tail(q)[i] = q[i + 1]
                    /\ 1 \in DOMAIN q /\ Head(q) = q[1]
    OBVIOUS
  <1> QED
    BY <1>1, <1>2 DEF Precede

\* A frame that is not of type t, or above all those that are, may be appended.
LEMMA AppendKeepsLine ==
    ASSUME NEW S, NEW q \in Seq(S), NEW f \in S, NEW t, NEW low, NEW high,
           Increasing(q, t), Between(q, t, low, high),
           f.type = t => /\ low < f.sequence /\ f.sequence <= high
                         /\ \A i \in DOMAIN q : q[i].type = t => q[i].sequence < f.sequence
    PROVE  Increasing(Append(q, f), t) /\ Between(Append(q, f), t, low, high)
  <1>1. /\ Len(q) \in Nat /\ DOMAIN q = 1..Len(q)
        /\ DOMAIN Append(q, f) = 1..(Len(q) + 1)
        /\ \A i \in 1..Len(q) : Append(q, f)[i] = q[i]
        /\ Append(q, f)[Len(q) + 1] = f
    OBVIOUS
  <1>2. \A i \in DOMAIN Append(q, f) :
           (i \in DOMAIN q /\ Append(q, f)[i] = q[i]) \/ (i = Len(q) + 1 /\ Append(q, f)[i] = f)
    BY <1>1
  <1>3. \A i, j \in DOMAIN Append(q, f) : i < j => i \in DOMAIN q /\ Append(q, f)[i] = q[i]
    BY <1>1
  <1> QED
    BY <1>2, <1>3 DEF Increasing, Between

LEMMA AppendKeepsPrecede ==
    ASSUME NEW S, NEW p \in Seq(S), NEW T, NEW q \in Seq(T), NEW s, NEW t, Precede(p, s, q, t)
    PROVE  /\ \A f \in S : (f.type = s => \A j \in DOMAIN q : q[j].type = t => f.sequence < q[j].sequence)
                           => Precede(Append(p, f), s, q, t)
           /\ \A f \in T : (f.type = t => \A i \in DOMAIN p : p[i].type = s => p[i].sequence < f.sequence)
                           => Precede(p, s, Append(q, f), t)
  <1>1. \A f \in S : \A i \in DOMAIN Append(p, f) :
           (i \in DOMAIN p /\ Append(p, f)[i] = p[i]) \/ Append(p, f)[i] = f
    OBVIOUS
  <1>2. \A f \in T : \A i \in DOMAIN Append(q, f) :
           (i \in DOMAIN q /\ Append(q, f)[i] = q[i]) \/ Append(q, f)[i] = f
    OBVIOUS
  <1> QED
    BY <1>1, <1>2 DEF Precede

-----------------------------------------------------------------------------
(* Init and the steps of Next.                                             *)

LEMMA InitIInv == Init => IInv
  <1> SUFFICES ASSUME Init PROVE IInv
    OBVIOUS
  <1> USE FlowAssumption DEF Init
  <1>1. TypeOK
    <2>1. 0 \in 0..MaxSequence /\ <<>> \in Seq(ServerFrame) /\ <<>> \in Seq(ClientFrame)
      OBVIOUS
    <2> QED
      BY <2>1 DEF TypeOK, TaskState, RequestState
  <1>2. Line
    BY DEF Line, LastPushed, Increasing, Between, Precede
  <1>3. Correlated /\ TerminalIsLast /\ OnlyLateResumeIsFatal
    BY DEF Correlated, TerminalIsLast, OnlyLateResumeIsFatal, None, ProtocolError
  <1> QED
    BY <1>1, <1>2, <1>3 DEF IInv

\* A step that only moves the request task, without an event being numbered or pushed.
LEMMA TaskMoves ==
    ASSUME IInv, task # "done", task # "sendEvent",
           task' \in TaskState \ {"sendEvent"},
           UNCHANGED <<lastSent, lastAcknowledged, cancelled, active, owed, output, input, clientVars>>,
           paused' \in BOOLEAN
    PROVE  IInv'
  <1>1. TypeOK'
    BY DEF IInv, TypeOK, clientVars
  <1>2. Line'
    BY DEF IInv, Line, LastPushed, clientVars
  <1>3. Correlated' /\ TerminalIsLast' /\ OnlyLateResumeIsFatal'
    BY DEF IInv, Correlated, TerminalIsLast, OnlyLateResumeIsFatal, clientVars
  <1> QED
    BY <1>1, <1>2, <1>3 DEF IInv

LEMMA EmitLockedStep == IInv /\ EmitLocked => IInv'
  <1> SUFFICES ASSUME IInv, EmitLocked PROVE IInv'
    OBVIOUS
  <1> USE FlowAssumption DEF EmitLocked
  <1>1. CASE MayEmit /\ ~SequenceExhausted /\ task' = "sendEvent"
    <2>1. lastSent' = lastSent + 1 /\ UNCHANGED paused
      BY <1>1
    <2>2. TypeOK'
      BY <1>1, <2>1 DEF IInv, TypeOK, TaskState, SequenceExhausted, clientVars
    <2>3. LastPushed' = LastPushed
      BY <1>1, <2>1 DEF IInv, TypeOK, LastPushed
    <2>4. Line'
      BY <1>1, <2>1, <2>3 DEF IInv, TypeOK, Line, LastPushed, MayEmit, clientVars
    <2>5. Correlated' /\ TerminalIsLast' /\ OnlyLateResumeIsFatal'
      BY <1>1 DEF IInv, Correlated, TerminalIsLast, OnlyLateResumeIsFatal, clientVars
    <2> QED
      BY <2>2, <2>4, <2>5 DEF IInv
  <1>2. CASE MayEmit /\ SequenceExhausted /\ task' = "sendError"
    BY <1>2, TaskMoves DEF IInv, TypeOK, TaskState, clientVars
  <1>3. CASE ~MayEmit
    BY <1>3, TaskMoves DEF IInv, TypeOK, TaskState, clientVars
  <1> QED
    BY <1>1, <1>2, <1>3

\* Event and acknowledgement frames carry numbers; the others are told apart by type.
LEMMA FrameNumbers ==
    /\ \A f \in ServerFrame : f.type = "event" => f.sequence \in Nat
    /\ \A f \in ClientFrame : f.type = "acknowledge" => f.sequence \in Nat
  BY FlowAssumption DEF ServerFrame, ClientFrame, Paused, Resumed, CancelReply, ProtocolError, Terminal, Cancel

LEMMA QueueNumbers ==
    ASSUME TypeOK
    PROVE  /\ \A i \in DOMAIN output : output[i] \in ServerFrame
           /\ \A i \in DOMAIN eventChain : eventChain[i] \in ServerFrame
           /\ \A i \in DOMAIN input : input[i] \in ClientFrame
           /\ \A i \in DOMAIN output : output[i].type = "event" => output[i].sequence \in Nat
           /\ \A i \in DOMAIN eventChain : eventChain[i].type = "event" => eventChain[i].sequence \in Nat
           /\ \A i \in DOMAIN input : input[i].type = "acknowledge" => input[i].sequence \in Nat
  <1>1. /\ \A i \in DOMAIN output : output[i] \in ServerFrame
        /\ \A i \in DOMAIN eventChain : eventChain[i] \in ServerFrame
        /\ \A i \in DOMAIN input : input[i] \in ClientFrame
    BY DEF TypeOK
  <1> QED
    BY <1>1, FrameNumbers

LEMMA EmitEventStep == IInv /\ EmitEvent => IInv'
  <1> SUFFICES ASSUME IInv, EmitEvent PROVE IInv'
    OBVIOUS
  <1> USE FlowAssumption DEF EmitEvent
  <1> DEFINE f == Event(lastSent)
  <1>1. /\ lastSent \in 1..MaxSequence /\ lastAcknowledged \in Nat
        /\ LastPushed = lastSent - 1 /\ LastPushed' = lastSent
        /\ lastAcknowledged < lastSent /\ lastSent - lastAcknowledged <= Window
    BY DEF IInv, TypeOK, Line, LastPushed
  <1>2. f \in ServerFrame /\ f.type = "event" /\ f.sequence = lastSent
    BY <1>1 DEF ServerFrame, Event
  <1>3. output' = Append(output, f)
    BY DEF Push
  <1>4. TypeOK'
    BY <1>2, <1>3 DEF IInv, TypeOK, TaskState, clientVars
  <1>5. Line'
    <2> HIDE DEF f
    <2>1. /\ Between(input, "acknowledge", lastAcknowledged, lastSent)
          /\ Between(eventChain, "event", lastAcknowledged, lastSent)
          /\ Between(output, "event", lastAcknowledged, lastSent)
      BY <1>1, QueueNumbers DEF IInv, Line, Between
    <2>2. /\ \A i \in DOMAIN output : output[i].type = "event" => output[i].sequence < lastSent
          /\ \A i \in DOMAIN eventChain : eventChain[i].type = "event" => eventChain[i].sequence < lastSent
          /\ \A i \in DOMAIN input : input[i].type = "acknowledge" => input[i].sequence < lastSent
      BY <1>1, QueueNumbers DEF IInv, Line, Between
    <2>3. output \in Seq(ServerFrame) /\ eventChain \in Seq(ServerFrame) /\ input \in Seq(ClientFrame)
      BY DEF IInv, TypeOK
    <2>4. Increasing(output', "event") /\ Between(output', "event", lastAcknowledged, lastSent)
      <3>1. Increasing(output, "event")
        BY DEF IInv, Line
      <3>2. lastAcknowledged < lastSent /\ lastSent <= lastSent
        BY <1>1
      <3> QED
        BY <1>2, <1>3, <2>1, <2>2, <2>3, <3>1, <3>2, AppendKeepsLine
    <2>5. Precede(input, "acknowledge", output', "event")
      BY <1>2, <1>3, <2>2, <2>3, AppendKeepsPrecede DEF IInv, Line
    <2>6. Precede(eventChain, "event", output', "event")
      BY <1>2, <1>3, <2>2, <2>3, AppendKeepsPrecede DEF IInv, Line
    <2> QED
      BY <1>1, <2>1, <2>4, <2>5, <2>6 DEF IInv, Line, clientVars
  <1>6. Correlated' /\ OnlyLateResumeIsFatal'
    <2>1. f # ProtocolError
      BY <1>2 DEF ProtocolError
    <2>2. \A i \in DOMAIN output' : (i \in DOMAIN output /\ output'[i] = output[i]) \/ output'[i] = f
      BY <1>2, <1>3 DEF IInv, TypeOK
    <2> QED
      BY <2>1, <2>2 DEF IInv, Correlated, OnlyLateResumeIsFatal, clientVars
  <1>7. TerminalIsLast'
    <2>1. f \notin Terminal
      BY <1>2 DEF Terminal
    <2>2. \A i \in DOMAIN output' : (i \in DOMAIN output /\ output'[i] = output[i]) \/ output'[i] = f
      BY <1>2, <1>3 DEF IInv, TypeOK
    <2> QED
      BY <2>1, <2>2 DEF IInv, TerminalIsLast, clientVars
  <1> QED
    BY <1>4, <1>5, <1>6, <1>7 DEF IInv

\* Pushing a frame that is not an event leaves the line alone.
LEMMA PushKeepsLine ==
    ASSUME IInv, NEW f \in ServerFrame, f.type # "event", output' = Append(output, f),
           LastPushed' = LastPushed,
           UNCHANGED <<lastSent, lastAcknowledged, input, eventChain>>
    PROVE  Line'
  <1>1. output \in Seq(ServerFrame) /\ eventChain \in Seq(ServerFrame) /\ input \in Seq(ClientFrame)
    BY DEF IInv, TypeOK
  <1>2. Increasing(output', "event") /\ Between(output', "event", lastAcknowledged, LastPushed)
    BY <1>1, AppendKeepsLine DEF IInv, Line
  <1>3. /\ Precede(input, "acknowledge", output', "event")
        /\ Precede(eventChain, "event", output', "event")
    BY <1>1, AppendKeepsPrecede DEF IInv, Line
  <1> QED
    BY <1>2, <1>3 DEF IInv, Line

LEMMA PushedFrames ==
    ASSUME TypeOK, NEW f \in ServerFrame, output' = Append(output, f)
    PROVE  /\ output' \in Seq(ServerFrame)
           /\ Len(output) \in Nat /\ DOMAIN output = 1..Len(output)
           /\ DOMAIN output' = 1..(Len(output) + 1)
           /\ \A i \in 1..Len(output) : output'[i] = output[i]
           /\ output'[Len(output) + 1] = f
  BY DEF TypeOK

LEMMA AnnouncePauseStep == IInv /\ AnnouncePause => IInv'
  <1> SUFFICES ASSUME IInv, AnnouncePause PROVE IInv'
    OBVIOUS
  <1> USE DEF AnnouncePause, Push
  <1>1. Paused \in ServerFrame /\ Paused.type # "event" /\ Paused # ProtocolError /\ Paused \notin Terminal
    BY DEF ServerFrame, Paused, ProtocolError, Terminal
  <1>2. TypeOK'
    BY <1>1, PushedFrames DEF IInv, TypeOK, TaskState, clientVars
  <1>3. Line'
    BY <1>1, PushKeepsLine DEF LastPushed, clientVars
  <1>4. Correlated' /\ TerminalIsLast' /\ OnlyLateResumeIsFatal'
    <2>1. \A i \in DOMAIN output' : (i \in DOMAIN output /\ output'[i] = output[i]) \/ output'[i] = Paused
      BY <1>1 DEF IInv, TypeOK
    <2> QED
      BY <1>1, <2>1 DEF IInv, Correlated, TerminalIsLast, OnlyLateResumeIsFatal, clientVars
  <1> QED
    BY <1>2, <1>3, <1>4 DEF IInv

LEMMA SendTerminalStep == IInv /\ SendTerminal => IInv'
  <1> SUFFICES ASSUME IInv, SendTerminal PROVE IInv'
    OBVIOUS
  <1> USE DEF SendTerminal, Push
  <1>1. PICK f \in Terminal : output' = Append(output, f)
    BY DEF Terminal
  <1>2. f \in ServerFrame /\ f.type # "event" /\ f # ProtocolError
    BY <1>1 DEF ServerFrame, ProtocolError, Terminal
  <1>3. TypeOK'
    BY <1>1, <1>2, PushedFrames DEF IInv, TypeOK, TaskState, clientVars
  <1>4. Line'
    BY <1>1, <1>2, PushKeepsLine DEF LastPushed, clientVars
  <1>5. Correlated' /\ OnlyLateResumeIsFatal'
    <2>1. \A i \in DOMAIN output' : (i \in DOMAIN output /\ output'[i] = output[i]) \/ output'[i] = f
      BY <1>1, <1>2 DEF IInv, TypeOK
    <2> QED
      BY <1>2, <2>1 DEF IInv, Correlated, OnlyLateResumeIsFatal, clientVars
  <1>6. TerminalIsLast'
    <2>1. /\ Len(output) \in Nat /\ DOMAIN output = 1..Len(output)
          /\ DOMAIN output' = 1..(Len(output) + 1)
          /\ \A i \in 1..Len(output) : output'[i] = output[i]
      BY <1>1, <1>2, PushedFrames DEF IInv
    <2>2. \A i \in DOMAIN output : output[i] \notin Terminal
      BY DEF IInv, TerminalIsLast
    <2>3. \A i \in DOMAIN output' : output'[i] \in Terminal => i = Len(output) + 1
      BY <2>1, <2>2
    <2>4. /\ request \notin {"resolved", "rejected", "forgotten"}
          /\ ~ \E i \in DOMAIN eventChain : eventChain[i].type = "result"
      BY DEF IInv, TerminalIsLast
    <2>5. \A i, j \in DOMAIN output' : output'[i] \in Terminal => ~ (i < j)
      BY <2>1, <2>3
    <2> QED
      BY <2>4, <2>5 DEF TerminalIsLast, clientVars
  <1> QED
    BY <1>3, <1>4, <1>5, <1>6 DEF IInv

LEMMA ServeSendStep == IInv /\ ServeSend => IInv'
  <1> SUFFICES ASSUME IInv, ServeSend PROVE IInv'
    OBVIOUS
  <1> USE DEF ServeSend, Push
  <1>1. owed \in Trailing
    BY DEF IInv, TypeOK, Correlated, Trailing
  <1>2. owed \in ServerFrame /\ owed.type # "event" /\ owed # ProtocolError /\ owed \notin Terminal
    BY <1>1 DEF ServerFrame, ProtocolError, Terminal, Trailing, Resumed, CancelReply
  <1>3. TypeOK'
    BY <1>2, PushedFrames DEF IInv, TypeOK, clientVars
  <1>4. Line'
    BY <1>2, PushKeepsLine DEF LastPushed, clientVars
  <1>5. \A i \in DOMAIN output' : (i \in DOMAIN output /\ output'[i] = output[i]) \/ output'[i] = owed
    BY <1>2 DEF IInv, TypeOK
  <1>6. Correlated' /\ OnlyLateResumeIsFatal'
    <2>1. None # ProtocolError
      BY DEF None, ProtocolError
    <2> QED
      BY <1>2, <1>5, <2>1 DEF IInv, Correlated, OnlyLateResumeIsFatal, clientVars
  <1>7. TerminalIsLast'
    BY <1>1, <1>2, <1>5 DEF IInv, TerminalIsLast, clientVars
  <1> QED
    BY <1>3, <1>4, <1>6, <1>7 DEF IInv

LEMMA RemoveCompletedStep == IInv /\ RemoveCompleted => IInv'
  <1> SUFFICES ASSUME IInv, RemoveCompleted PROVE IInv'
    OBVIOUS
  <1> USE DEF RemoveCompleted, clientVars
  <1>1. TypeOK'
    BY DEF IInv, TypeOK
  <1>2. Line'
    BY DEF IInv, Line, LastPushed
  <1>3. Correlated' /\ TerminalIsLast' /\ OnlyLateResumeIsFatal'
    BY DEF IInv, Correlated, TerminalIsLast, OnlyLateResumeIsFatal
  <1> QED
    BY <1>1, <1>2, <1>3 DEF IInv

\* Facts about a frame the serve loop takes from its input.
LEMMA InputTail ==
    ASSUME IInv, input # <<>>
    PROVE  /\ Head(input) \in ClientFrame /\ Tail(input) \in Seq(ClientFrame)
           /\ Increasing(Tail(input), "acknowledge")
           /\ Between(Tail(input), "acknowledge", lastAcknowledged, LastPushed)
           /\ Precede(Tail(input), "acknowledge", eventChain, "event")
           /\ Precede(Tail(input), "acknowledge", output, "event")
  <1>1. output \in Seq(ServerFrame) /\ eventChain \in Seq(ServerFrame) /\ input \in Seq(ClientFrame)
    BY DEF IInv, TypeOK
  <1>2. /\ Increasing(input, "acknowledge")
        /\ Between(input, "acknowledge", lastAcknowledged, LastPushed)
        /\ Precede(input, "acknowledge", eventChain, "event")
        /\ Precede(input, "acknowledge", output, "event")
    BY DEF IInv, Line
  <1>3. Head(input) \in ClientFrame /\ Tail(input) \in Seq(ClientFrame)
    BY <1>1
  <1>4. /\ Increasing(Tail(input), "acknowledge")
        /\ Between(Tail(input), "acknowledge", lastAcknowledged, LastPushed)
    BY <1>1, <1>2, TailKeepsLine
  <1>5. /\ Precede(Tail(input), "acknowledge", eventChain, "event")
        /\ Precede(Tail(input), "acknowledge", output, "event")
    BY <1>1, <1>2, TailKeepsPrecede
  <1> QED
    BY <1>3, <1>4, <1>5

LEMMA ServeCancelStep == IInv /\ ServeCancel => IInv'
  <1> SUFFICES ASSUME IInv, ServeCancel PROVE IInv'
    OBVIOUS
  <1> USE DEF ServeCancel, clientVars
  <1>1. TypeOK'
    BY InputTail DEF IInv, TypeOK
  <1>2. Line'
    BY InputTail DEF IInv, Line, LastPushed
  <1>3. Correlated'
    <2>1. CancelReply # ProtocolError
      BY DEF CancelReply, ProtocolError
    <2> QED
      BY <2>1 DEF IInv, Correlated
  <1>4. TerminalIsLast' /\ OnlyLateResumeIsFatal'
    BY DEF IInv, TerminalIsLast, OnlyLateResumeIsFatal
  <1> QED
    BY <1>1, <1>2, <1>3, <1>4 DEF IInv

LEMMA ServeAcknowledgeStep == IInv /\ ServeAcknowledge => IInv'
  <1> SUFFICES ASSUME IInv, ServeAcknowledge PROVE IInv'
    OBVIOUS
  <1> DEFINE n == Head(input).sequence
  <1>1. /\ input # <<>> /\ Head(input).type = "acknowledge" /\ input' = Tail(input)
        /\ UNCHANGED <<lastSent, cancelled, active, output, clientVars>>
        /\ owed = None
    BY DEF ServeAcknowledge
  <1>2. input \in Seq(ClientFrame) /\ output \in Seq(ServerFrame) /\ eventChain \in Seq(ServerFrame)
    BY DEF IInv, TypeOK
  <1>3. n \in Nat /\ lastAcknowledged < n /\ n <= LastPushed /\ LastPushed <= lastSent
        /\ lastAcknowledged \in Nat /\ lastSent \in 0..MaxSequence
    <2>1. 1 \in DOMAIN input /\ Head(input) = input[1]
      BY <1>1, <1>2
    <2> QED
      BY <1>1, <2>1, QueueNumbers, FlowAssumption DEF IInv, TypeOK, Line, Between, LastPushed
  <1>4. \/ UNCHANGED <<lastAcknowledged, paused, task, owed>>
        \/ /\ lastAcknowledged' = n /\ paused' = FALSE
           /\ task' = (IF task = "waiting" THEN "emit" ELSE task)
           /\ owed' \in {Resumed, None}
    <2>1. ~(Head(input).sequence > lastSent) /\ ~(Head(input).sequence <= lastAcknowledged)
      BY <1>3 DEF LastPushed
    <2>2. \/ UNCHANGED <<lastAcknowledged, paused, task, owed>>
          \/ /\ lastAcknowledged' = Head(input).sequence /\ paused' = FALSE
             /\ task' = (IF task = "waiting" THEN "emit" ELSE task)
             /\ owed' = (IF paused THEN Resumed ELSE None)
      BY <2>1, Zenon DEF ServeAcknowledge, NotifyWaiters, UnknownTarget
    <2> QED
      BY <2>2
  <1>5. /\ lastAcknowledged' \in {lastAcknowledged, n}
        /\ task' = task \/ (task = "waiting" /\ task' = "emit")
        /\ LastPushed' = LastPushed
    BY <1>1, <1>4 DEF LastPushed
  <1>6. TypeOK'
    <2>1. lastAcknowledged' \in 0..MaxSequence
      BY <1>3, <1>5, FlowAssumption DEF IInv, TypeOK, LastPushed
    <2>2. task' \in TaskState
      BY <1>5 DEF IInv, TypeOK, TaskState
    <2>3. paused' \in BOOLEAN /\ owed' \in {None, Resumed, CancelReply, ProtocolError}
      <3>1. (paused' = paused /\ owed' = owed) \/ (paused' = FALSE /\ (owed' = Resumed \/ owed' = None))
        BY <1>4
      <3>2. paused \in BOOLEAN /\ owed \in {None, Resumed, CancelReply, ProtocolError}
        BY DEF IInv, TypeOK
      <3> QED
        BY <3>1, <3>2, Zenon
    <2>4. input' \in Seq(ClientFrame)
      BY <1>1, InputTail
    <2> QED
      BY <1>1, <2>1, <2>2, <2>3, <2>4 DEF IInv, TypeOK, clientVars
  <1>7. Line'
    <2> HIDE DEF n
    <2>1. CASE lastAcknowledged' = lastAcknowledged
      BY <1>1, <1>5, <2>1, InputTail DEF IInv, Line, clientVars
    <2>2. CASE lastAcknowledged' = n
      <3>1. Between(Tail(input), "acknowledge", n, LastPushed)
        BY <1>1, <1>2, InputTail, TailKeepsLine DEF IInv, Line, Between, n
      <3>2. Between(eventChain, "event", n, LastPushed) /\ Between(output, "event", n, LastPushed)
        BY <1>1, <1>2, TailKeepsPrecede DEF IInv, Line, Between, n
      <3> QED
        BY <1>1, <1>3, <1>5, <2>2, <3>1, <3>2, InputTail, FlowAssumption DEF IInv, Line, clientVars
    <2> QED
      BY <1>5, <2>1, <2>2
  <1>8. Correlated'
    <2>1. Resumed # ProtocolError /\ None # ProtocolError
      BY DEF Resumed, None, ProtocolError
    <2> QED
      BY <1>1, <1>4, <2>1 DEF IInv, Correlated
  <1>9. TerminalIsLast' /\ OnlyLateResumeIsFatal'
    BY <1>1, <1>5 DEF IInv, TerminalIsLast, OnlyLateResumeIsFatal, clientVars
  <1> QED
    BY <1>6, <1>7, <1>8, <1>9 DEF IInv

\* Facts about a frame the client takes from the output channel.
LEMMA OutputTail ==
    ASSUME IInv, output # <<>>
    PROVE  /\ Head(output) \in ServerFrame /\ Tail(output) \in Seq(ServerFrame)
           /\ Increasing(Tail(output), "event")
           /\ Between(Tail(output), "event", lastAcknowledged, LastPushed)
           /\ Precede(input, "acknowledge", Tail(output), "event")
           /\ Precede(eventChain, "event", Tail(output), "event")
           /\ Head(output) # ProtocolError
           /\ \A i \in DOMAIN Tail(output) : Tail(output)[i] # ProtocolError
           /\ 1 \in DOMAIN output /\ Head(output) = output[1]
           /\ \A i \in DOMAIN Tail(output) :
                 i + 1 \in DOMAIN output /\ 1 < i + 1 /\ Tail(output)[i] = output[i + 1]
           /\ \A i, j \in DOMAIN Tail(output) : i < j => i + 1 < j + 1
  <1>1. output \in Seq(ServerFrame) /\ eventChain \in Seq(ServerFrame) /\ input \in Seq(ClientFrame)
    BY DEF IInv, TypeOK
  <1>2. /\ Increasing(output, "event")
        /\ Between(output, "event", lastAcknowledged, LastPushed)
        /\ Precede(input, "acknowledge", output, "event")
        /\ Precede(eventChain, "event", output, "event")
    BY DEF IInv, Line
  <1>3. Head(output) \in ServerFrame /\ Tail(output) \in Seq(ServerFrame)
    BY <1>1
  <1>4. /\ Increasing(Tail(output), "event")
        /\ Between(Tail(output), "event", lastAcknowledged, LastPushed)
    BY <1>1, <1>2, TailKeepsLine
  <1>5. /\ Precede(input, "acknowledge", Tail(output), "event")
        /\ Precede(eventChain, "event", Tail(output), "event")
    BY <1>1, <1>2, TailKeepsPrecede
  <1>6. /\ 1 \in DOMAIN output /\ Head(output) = output[1]
        /\ \A i \in DOMAIN Tail(output) :
              i + 1 \in DOMAIN output /\ 1 < i + 1 /\ Tail(output)[i] = output[i + 1]
        /\ \A i, j \in DOMAIN Tail(output) : i < j => i + 1 < j + 1
    BY <1>1
  <1>7. Head(output) # ProtocolError /\ \A i \in DOMAIN Tail(output) : Tail(output)[i] # ProtocolError
    BY <1>6 DEF IInv, Correlated
  <1> QED
    BY <1>3, <1>4, <1>5, <1>6, <1>7

\* Removing the head of the output keeps the terminal frame last, as long as the
\* client's side of the bargain is kept.
LEMMA ReceiveKeepsTerminalLast ==
    ASSUME IInv, output # <<>>, output' = Tail(output), UNCHANGED task,
           (request' \in {"resolved", "rejected", "forgotten"}
              \/ \E i \in DOMAIN eventChain' : eventChain'[i].type = "result") =>
             \/ Head(output) \in Terminal
             \/ request \in {"resolved", "rejected", "forgotten"}
             \/ \E i \in DOMAIN eventChain : eventChain[i].type = "result"
    PROVE  TerminalIsLast'
  <1>1. /\ 1 \in DOMAIN output /\ Head(output) = output[1]
        /\ \A i \in DOMAIN Tail(output) :
              i + 1 \in DOMAIN output /\ 1 < i + 1 /\ Tail(output)[i] = output[i + 1]
        /\ \A i, j \in DOMAIN Tail(output) : i < j => i + 1 < j + 1
    BY OutputTail
  <1>2. \A i \in DOMAIN Tail(output) : Tail(output)[i] \in Terminal =>
           task = "done" /\ \A j \in DOMAIN Tail(output) : i < j => Tail(output)[j] \in Trailing
    BY <1>1 DEF IInv, TerminalIsLast
  <1>3. Head(output) \in Terminal =>
           task = "done" /\ \A j \in DOMAIN Tail(output) : Tail(output)[j] \in Trailing
    BY <1>1 DEF IInv, TerminalIsLast
  <1>4. (request \in {"resolved", "rejected", "forgotten"}
           \/ \E i \in DOMAIN eventChain : eventChain[i].type = "result") =>
           task = "done" /\ \A j \in DOMAIN Tail(output) : Tail(output)[j] \in Trailing
    BY <1>1 DEF IInv, TerminalIsLast
  <1> QED
    BY <1>2, <1>3, <1>4 DEF TerminalIsLast

\* The frames #route is given, and what it does with them.
LEMMA RouteCases ==
    ASSUME TypeOK, NEW f \in ServerFrame, f # CancelReply, f # ProtocolError, Route(f)
    PROVE  \/ /\ f.type \in {"event", "paused", "resumed", "result"}
              /\ request = "pending"
              /\ eventChain' = Append(eventChain, f)
              /\ UNCHANGED <<request, connection>>
           \/ /\ request' = request \/ (f \in Terminal /\ request' \in {"forgotten", "rejected"})
              /\ UNCHANGED <<eventChain, connection>>
           \/ /\ request \in {"resolved", "rejected", "forgotten"}
              /\ connection' = f.type
              /\ UNCHANGED <<request, eventChain>>
  <1>1. /\ f.type \in {"event", "paused", "resumed", "result", "error"}
        /\ f.type \in {"result", "error"} => f \in Terminal
        /\ f.type = "result" => f = [type |-> "result"]
    BY DEF ServerFrame, Paused, Resumed, CancelReply, ProtocolError, Terminal
  <1>2. CASE request = "ignored"
    BY <1>1, <1>2 DEF Route
  <1>3. CASE request # "ignored" /\ f.type = "error"
    BY <1>1, <1>3 DEF Route
  <1>4. CASE request \notin {"ignored", "pending"} /\ f.type # "error"
    <2>1. request \in {"resolved", "rejected", "forgotten"}
      BY <1>4 DEF TypeOK, RequestState
    <2> QED
      BY <1>4, <2>1 DEF Route, Fail
  <1>5. CASE request = "pending" /\ f.type = "result"
    BY <1>1, <1>5 DEF Route, QueueResult, Enqueue
  <1>6. CASE request = "pending" /\ f.type \in {"event", "paused", "resumed"}
    BY <1>1, <1>6 DEF Route, Enqueue
  <1> QED
    BY <1>1, <1>2, <1>3, <1>4, <1>5, <1>6

LEMMA ReceiveStep == IInv /\ Receive => IInv'
  <1> SUFFICES ASSUME IInv, Receive PROVE IInv'
    OBVIOUS
  <1> DEFINE f == Head(output)
  <1>1. /\ output # <<>> /\ output' = Tail(output) /\ connection = "ready"
        /\ UNCHANGED <<bridgeVars, input, handled>>
    BY DEF Receive, Live
  <1>2. TypeOK /\ f \in ServerFrame /\ f # ProtocolError /\ Tail(output) \in Seq(ServerFrame)
    BY <1>1, OutputTail DEF IInv
  <1>3. f # CancelReply => Route(f)
    BY <1>2 DEF Receive
  <1>4. f = CancelReply => UNCHANGED <<request, eventChain, connection>>
    BY <1>2 DEF Receive
  <1>5. output \in Seq(ServerFrame) /\ eventChain \in Seq(ServerFrame) /\ input \in Seq(ClientFrame)
    BY <1>2 DEF TypeOK
  <1>6. Correlated'
    BY <1>1, OutputTail DEF IInv, Correlated, bridgeVars
  <1>7. LastPushed' = LastPushed /\ lastAcknowledged' = lastAcknowledged /\ lastSent' = lastSent
    BY <1>1 DEF LastPushed, bridgeVars
  <1> HIDE DEF f
  <1>8. CASE /\ f.type \in {"event", "paused", "resumed", "result"}
             /\ request = "pending"
             /\ eventChain' = Append(eventChain, f)
             /\ UNCHANGED <<request, connection>>
    <2>1. TypeOK'
      BY <1>1, <1>2, <1>5, <1>8 DEF TypeOK, bridgeVars
    <2>2. f.type = "event" =>
             /\ lastAcknowledged < f.sequence /\ f.sequence <= LastPushed
             /\ \A i \in DOMAIN eventChain : eventChain[i].type = "event" => eventChain[i].sequence < f.sequence
             /\ \A i \in DOMAIN input : input[i].type = "acknowledge" => input[i].sequence < f.sequence
             /\ \A j \in DOMAIN Tail(output) : Tail(output)[j].type = "event" => f.sequence < Tail(output)[j].sequence
      <3>1. f.type = "event" => lastAcknowledged < f.sequence /\ f.sequence <= LastPushed
        BY <1>1, OutputTail DEF IInv, Line, Between, f
      <3>2. f.type = "event" =>
               /\ \A i \in DOMAIN eventChain : eventChain[i].type = "event" => eventChain[i].sequence < f.sequence
               /\ \A i \in DOMAIN input : input[i].type = "acknowledge" => input[i].sequence < f.sequence
        BY <1>1, <1>5, TailKeepsPrecede DEF IInv, Line, f
      <3>3. f.type = "event" =>
               \A j \in DOMAIN Tail(output) : Tail(output)[j].type = "event" => f.sequence < Tail(output)[j].sequence
        BY <1>1, <1>5, TailKeepsLine DEF IInv, Line, f
      <3> QED
        BY <3>1, <3>2, <3>3
    <2>3. /\ Increasing(eventChain', "event")
          /\ Between(eventChain', "event", lastAcknowledged, LastPushed)
      BY <1>2, <1>5, <1>8, <2>2, AppendKeepsLine DEF IInv, Line
    <2>4. Precede(input, "acknowledge", eventChain', "event")
      BY <1>2, <1>5, <1>8, <2>2, AppendKeepsPrecede DEF IInv, Line
    <2>5. Precede(eventChain', "event", Tail(output), "event")
      BY <1>1, <1>2, <1>5, <1>8, <2>2, OutputTail, AppendKeepsPrecede
    <2>6. Line'
      BY <1>1, <1>7, <2>3, <2>4, <2>5, OutputTail DEF IInv, Line, bridgeVars
    <2>7. TerminalIsLast'
      <3>1. \A i \in DOMAIN eventChain' : (i \in DOMAIN eventChain /\ eventChain'[i] = eventChain[i]) \/ eventChain'[i] = f
        BY <1>2, <1>5, <1>8
      <3>2. f.type = "result" => f \in Terminal
        BY <1>2 DEF ServerFrame, Paused, Resumed, CancelReply, ProtocolError, Terminal
      <3> QED
        BY <1>1, <1>8, <3>1, <3>2, ReceiveKeepsTerminalLast DEF bridgeVars, f
    <2> QED
      BY <1>6, <1>8, <2>1, <2>6, <2>7 DEF IInv, OnlyLateResumeIsFatal
  <1>9. CASE /\ request' = request \/ (f \in Terminal /\ request' \in {"forgotten", "rejected"})
             /\ UNCHANGED <<eventChain, connection>>
    <2>1. TypeOK'
      BY <1>1, <1>2, <1>5, <1>9 DEF TypeOK, RequestState, bridgeVars
    <2>2. Line'
      BY <1>1, <1>7, <1>9, OutputTail DEF IInv, Line, bridgeVars
    <2>3. TerminalIsLast'
      BY <1>1, <1>9, ReceiveKeepsTerminalLast DEF bridgeVars, f
    <2> QED
      BY <1>6, <1>9, <2>1, <2>2, <2>3 DEF IInv, OnlyLateResumeIsFatal
  <1>10. CASE /\ request \in {"resolved", "rejected", "forgotten"}
              /\ f # CancelReply
              /\ connection' = f.type
              /\ UNCHANGED <<request, eventChain>>
    <2>1. f = Resumed
      BY <1>1, <1>10, OutputTail DEF IInv, TerminalIsLast, Trailing, f
    <2>2. connection' = "resumed"
      BY <1>10, <2>1 DEF Resumed
    <2>3. TypeOK'
      BY <1>1, <1>2, <1>5, <1>10, <2>2 DEF TypeOK, bridgeVars
    <2>4. Line'
      BY <1>1, <1>7, <1>10, OutputTail DEF IInv, Line, bridgeVars
    <2>5. TerminalIsLast'
      BY <1>1, <1>10, ReceiveKeepsTerminalLast DEF bridgeVars, f
    <2> QED
      BY <1>6, <2>2, <2>3, <2>4, <2>5 DEF IInv, OnlyLateResumeIsFatal
  <1> QED
    BY <1>2, <1>3, <1>4, <1>8, <1>9, <1>10, RouteCases

LEMMA RunHandlerStep == IInv /\ RunHandler => IInv'
  <1> SUFFICES ASSUME IInv, RunHandler PROVE IInv'
    OBVIOUS
  <1> DEFINE item == Head(eventChain)
             ack == Acknowledge(item.sequence)
  <1>1. /\ eventChain # <<>> /\ eventChain' = Tail(eventChain)
        /\ UNCHANGED <<bridgeVars, output, connection>>
        /\ request' = (IF item.type = "result" /\ request = "pending" THEN "resolved" ELSE request)
    BY DEF RunHandler
  <1>2. output \in Seq(ServerFrame) /\ eventChain \in Seq(ServerFrame) /\ input \in Seq(ClientFrame)
    BY DEF IInv, TypeOK
  <1>3. /\ item \in ServerFrame /\ Tail(eventChain) \in Seq(ServerFrame)
        /\ 1 \in DOMAIN eventChain /\ item = eventChain[1]
        /\ \A i \in DOMAIN Tail(eventChain) :
              i + 1 \in DOMAIN eventChain /\ Tail(eventChain)[i] = eventChain[i + 1]
    BY <1>1, <1>2
  <1>4. item.type = "event" => /\ handled' = handled + 1 /\ input' = Append(input, ack)
                               /\ ack \in ClientFrame /\ ack.type = "acknowledge"
                               /\ ack.sequence = item.sequence
    <2>1. item.type = "event" => item.sequence \in 1..MaxSequence
      BY <1>3 DEF ServerFrame, Paused, Resumed, CancelReply, ProtocolError, Terminal
    <2> QED
      BY <2>1 DEF RunHandler, ClientFrame, Acknowledge
  <1>5. item.type # "event" => UNCHANGED <<handled, input>>
    BY DEF RunHandler
  <1>6. LastPushed' = LastPushed /\ lastAcknowledged' = lastAcknowledged /\ lastSent' = lastSent
    BY <1>1 DEF LastPushed, bridgeVars
  <1> HIDE DEF item, ack
  <1>7. TypeOK'
    <2>1. request' \in RequestState
      BY <1>1 DEF IInv, TypeOK, RequestState
    <2>2. handled' \in Nat /\ input' \in Seq(ClientFrame)
      <3>1. handled \in Nat
        BY DEF IInv, TypeOK
      <3>2. CASE item.type = "event"
        <4>1. handled' = handled + 1 /\ input' = Append(input, ack) /\ ack \in ClientFrame
          BY <1>4, <3>2
        <4> QED
          BY <1>2, <3>1, <4>1
      <3>3. CASE item.type # "event"
        BY <1>2, <1>5, <3>1, <3>3
      <3> QED
        BY <3>2, <3>3
    <2> QED
      BY <1>1, <1>3, <2>1, <2>2 DEF IInv, TypeOK, bridgeVars
  <1>8. /\ Increasing(Tail(eventChain), "event")
        /\ Between(Tail(eventChain), "event", lastAcknowledged, LastPushed)
        /\ item.type = "event" =>
             \A j \in DOMAIN Tail(eventChain) :
                Tail(eventChain)[j].type = "event" => item.sequence < Tail(eventChain)[j].sequence
    BY <1>1, <1>2, TailKeepsLine DEF IInv, Line, item
  <1>9. /\ Precede(input, "acknowledge", Tail(eventChain), "event")
        /\ Precede(Tail(eventChain), "event", output, "event")
        /\ item.type = "event" =>
             /\ \A i \in DOMAIN input : input[i].type = "acknowledge" => input[i].sequence < item.sequence
             /\ \A j \in DOMAIN output : output[j].type = "event" => item.sequence < output[j].sequence
    BY <1>1, <1>2, TailKeepsPrecede DEF IInv, Line, item
  <1>10. Line'
    <2>1. CASE item.type = "event"
      <3>1. lastAcknowledged < item.sequence /\ item.sequence <= LastPushed
        BY <1>3, <2>1 DEF IInv, Line, Between
      <3>2. /\ Increasing(input', "acknowledge")
            /\ Between(input', "acknowledge", lastAcknowledged, LastPushed)
        <4>1. /\ ack \in ClientFrame /\ input' = Append(input, ack)
              /\ lastAcknowledged < ack.sequence /\ ack.sequence <= LastPushed
              /\ \A i \in DOMAIN input : input[i].type = "acknowledge" => input[i].sequence < ack.sequence
          BY <1>4, <1>9, <2>1, <3>1
        <4>2. /\ Increasing(input, "acknowledge")
              /\ Between(input, "acknowledge", lastAcknowledged, LastPushed)
          BY DEF IInv, Line
        <4> QED
          BY <1>2, <4>1, <4>2, AppendKeepsLine
      <3>3. Precede(input', "acknowledge", Tail(eventChain), "event")
        <4>1. /\ ack \in ClientFrame /\ input' = Append(input, ack)
              /\ \A j \in DOMAIN Tail(eventChain) :
                    Tail(eventChain)[j].type = "event" => ack.sequence < Tail(eventChain)[j].sequence
          BY <1>4, <1>8, <2>1
        <4> QED
          BY <1>2, <1>3, <1>9, <4>1, AppendKeepsPrecede
      <3>4. Precede(input', "acknowledge", output, "event")
        BY <1>2, <1>4, <1>9, <2>1, AppendKeepsPrecede DEF IInv, Line
      <3> QED
        BY <1>1, <1>6, <1>8, <1>9, <3>2, <3>3, <3>4 DEF IInv, Line
    <2>2. CASE item.type # "event"
      BY <1>1, <1>5, <1>6, <1>8, <1>9, <2>2 DEF IInv, Line
    <2> QED
      BY <2>1, <2>2
  <1>11. Correlated' /\ OnlyLateResumeIsFatal'
    BY <1>1 DEF IInv, Correlated, OnlyLateResumeIsFatal, bridgeVars
  <1>12. TerminalIsLast'
    <2>1. (request' \in {"resolved", "rejected", "forgotten"}
             \/ \E i \in DOMAIN eventChain' : eventChain'[i].type = "result") =>
             \/ request \in {"resolved", "rejected", "forgotten"}
             \/ \E i \in DOMAIN eventChain : eventChain[i].type = "result"
      BY <1>1, <1>3
    <2> QED
      BY <1>1, <2>1 DEF IInv, TerminalIsLast, bridgeVars
  <1> QED
    BY <1>7, <1>10, <1>11, <1>12 DEF IInv

LEMMA HandlerThrowsStep == IInv /\ HandlerThrows => IInv'
  <1> SUFFICES ASSUME IInv, HandlerThrows PROVE IInv'
    OBVIOUS
  <1> USE DEF HandlerThrows, bridgeVars
  <1>1. TypeOK' /\ OnlyLateResumeIsFatal'
    BY DEF IInv, TypeOK, OnlyLateResumeIsFatal
  <1>2. Line'
    BY DEF IInv, Line, LastPushed
  <1>3. Correlated' /\ TerminalIsLast'
    BY DEF IInv, Correlated, TerminalIsLast
  <1> QED
    BY <1>1, <1>2, <1>3 DEF IInv

LEMMA AbortStep == IInv /\ Abort => IInv'
  <1> SUFFICES ASSUME IInv, Abort PROVE IInv'
    OBVIOUS
  <1> USE DEF Abort, bridgeVars
  <1>1. output \in Seq(ServerFrame) /\ eventChain \in Seq(ServerFrame) /\ input \in Seq(ClientFrame)
    BY DEF IInv, TypeOK
  <1>2. Cancel \in ClientFrame /\ Cancel.type # "acknowledge"
    BY DEF ClientFrame, Cancel
  <1>3. TypeOK'
    BY <1>1, <1>2 DEF IInv, TypeOK, RequestState
  <1>4. /\ Increasing(input', "acknowledge")
        /\ Between(input', "acknowledge", lastAcknowledged, LastPushed)
    BY <1>1, <1>2, AppendKeepsLine DEF IInv, Line
  <1>5. /\ Precede(input', "acknowledge", eventChain, "event")
        /\ Precede(input', "acknowledge", output, "event")
    BY <1>1, <1>2, AppendKeepsPrecede DEF IInv, Line
  <1>6. Line'
    BY <1>4, <1>5 DEF IInv, Line, LastPushed
  <1>7. Correlated' /\ TerminalIsLast' /\ OnlyLateResumeIsFatal'
    BY DEF IInv, Correlated, TerminalIsLast, OnlyLateResumeIsFatal
  <1> QED
    BY <1>3, <1>6, <1>7 DEF IInv

LEMMA StutterStep == IInv /\ UNCHANGED vars => IInv'
  <1> SUFFICES ASSUME IInv, UNCHANGED vars PROVE IInv'
    OBVIOUS
  <1> USE DEF vars, bridgeVars, clientVars
  <1>1. TypeOK' /\ Correlated' /\ OnlyLateResumeIsFatal'
    BY DEF IInv, TypeOK, Correlated, OnlyLateResumeIsFatal
  <1>2. Line' /\ TerminalIsLast'
    BY DEF IInv, Line, LastPushed, TerminalIsLast
  <1> QED
    BY <1>1, <1>2 DEF IInv

-----------------------------------------------------------------------------
(* The theorems.                                                           *)

LEMMA NextIInv == IInv /\ [Next]_vars => IInv'
  <1> SUFFICES ASSUME IInv, [Next]_vars PROVE IInv'
    OBVIOUS
  <1>1. CASE RequestTask
    <2>1. CASE RegisterWaiter \/ EmitCancelled \/ DispatchReturns
      BY <2>1, TaskMoves DEF RegisterWaiter, EmitCancelled, DispatchReturns, IInv, TypeOK, TaskState, clientVars
    <2> QED
      BY <1>1, <2>1, EmitLockedStep, EmitEventStep, AnnouncePauseStep, SendTerminalStep DEF RequestTask
  <1>2. CASE ServeLoop
    BY <1>2, RemoveCompletedStep, ServeAcknowledgeStep, ServeCancelStep, ServeSendStep DEF ServeLoop
  <1>3. CASE Client
    BY <1>3, ReceiveStep, RunHandlerStep, HandlerThrowsStep, AbortStep DEF Client
  <1>4. CASE Finished \/ UNCHANGED vars
    BY <1>4, StutterStep DEF Finished
  <1> QED
    BY <1>1, <1>2, <1>3, <1>4 DEF Next

\* The inductive invariant holds of every streamed request.
THEOREM IInvHolds == Spec => []IInv
  BY InitIInv, NextIInv, PTL DEF Spec

\* Every variable keeps its type, the sequence number its u32 range included, for
\* every window, channel capacity and sequence limit.
THEOREM TypeCorrect == Spec => []TypeOK
  <1>1. IInv => TypeOK
    BY DEF IInv
  <1> QED
    BY <1>1, IInvHolds, PTL

\* emit's comparison of two counters bounds what is buffered end to end: in the
\* channel, the pipe, the promise chain and among the acknowledgements in
\* flight, every event is one of the last Window events.
THEOREM WindowHolds == Spec => []EndToEndWindow
  <1>1. IInv => EndToEndWindow
    <2> SUFFICES ASSUME IInv, NEW n \in Unhandled \cup AcknowledgementsInFlight
                 PROVE  n <= lastSent /\ lastSent - n < Window
      BY DEF EndToEndWindow
    <2>1. /\ lastSent \in Nat /\ lastAcknowledged \in Nat /\ LastPushed <= lastSent
          /\ lastSent - lastAcknowledged <= Window /\ LastPushed \in Int
          /\ task = "sendEvent" => lastAcknowledged < lastSent
      BY FlowAssumption DEF IInv, TypeOK, Line, LastPushed
    <2>2. CASE n = lastSent /\ task = "sendEvent"
      BY <2>1, <2>2, FlowAssumption
    <2>3. CASE n \in EventsIn(eventChain) \cup EventsIn(output) \cup AcknowledgementsInFlight
      <3>1. n \in Nat /\ lastAcknowledged < n /\ n <= LastPushed
        BY <2>3, QueueNumbers DEF IInv, Line, Between, EventsIn, AcknowledgementsInFlight
      <3> QED
        BY <2>1, <3>1, FlowAssumption
    <2> QED
      BY <2>2, <2>3 DEF Unhandled
  <1> QED
    BY <1>1, IInvHolds, PTL

\* The bridge never answers an acknowledgement with the uncorrelated error that
\* would end the connection, and the only frame that can find its request
\* already settled is the "resumed" frame of an acknowledgement that was
\* answered after the request task had finished.
THEOREM OnlyLateResumeHolds == Spec => []OnlyLateResumeIsFatal
  <1>1. IInv => OnlyLateResumeIsFatal
    BY DEF IInv
  <1> QED
    BY <1>1, IInvHolds, PTL

-----------------------------------------------------------------------------
(* Nothing is missed, and the refinement of EventStream.                   *)
(*                                                                         *)
(* The line above says that event numbers increase from place to place.    *)
(* What is added here is that nothing is left out: while the request is    *)
(* pending the places together hold every number after the last handled    *)
(* one, and at any time the promise chain holds an initial segment of them.*)

\* The chain continues exactly where the handlers are, without a hole.
Contiguous ==
    \A n \in EventsIn(eventChain) : handled < n /\ (handled + 1)..n \subseteq EventsIn(eventChain)

\* What was handled lies between what was acknowledged and what was sent.
Counted ==
    /\ lastAcknowledged <= handled
    /\ handled <= lastSent
    /\ Between(input, "acknowledge", lastAcknowledged, handled)

\* A result waits for every event before it, and no event comes after it.
ResultIsLast ==
    /\ \A i, j \in DOMAIN eventChain :
          i < j /\ eventChain[i].type = "result" => eventChain[j].type # "event"
    /\ request = "resolved" => \A i \in DOMAIN eventChain : eventChain[i].type # "event"

NothingMissing == request = "pending" => Unhandled = (handled + 1)..lastSent

Gapless == Contiguous /\ Counted /\ ResultIsLast /\ NothingMissing

-----------------------------------------------------------------------------
(* The events of a queue.                                                  *)

\* The number of a frame, if it is an event.
NumberOf(f) == IF f.type = "event" THEN {f.sequence} ELSE {}

LEMMA EventsMembers ==
    ASSUME NEW q, NEW n
    PROVE  n \in EventsIn(q) <=> \E i \in DOMAIN q : q[i].type = "event" /\ q[i].sequence = n
  BY DEF EventsIn

LEMMA NumberMembers ==
    ASSUME NEW f, NEW n
    PROVE  n \in NumberOf(f) <=> f.type = "event" /\ f.sequence = n
  BY DEF NumberOf

LEMMA EventsOfAppend ==
    ASSUME NEW S, NEW q \in Seq(S), NEW f \in S
    PROVE  EventsIn(Append(q, f)) = EventsIn(q) \cup NumberOf(f)
  <1>1. /\ Len(q) \in Nat /\ DOMAIN q = 1..Len(q)
        /\ DOMAIN Append(q, f) = 1..(Len(q) + 1)
        /\ \A i \in 1..Len(q) : Append(q, f)[i] = q[i]
        /\ Append(q, f)[Len(q) + 1] = f
    OBVIOUS
  <1>2. \A i \in DOMAIN q : i \in DOMAIN Append(q, f) /\ Append(q, f)[i] = q[i]
    BY <1>1
  <1>3. \A i \in DOMAIN Append(q, f) :
           (i \in DOMAIN q /\ Append(q, f)[i] = q[i]) \/ (i = Len(q) + 1 /\ Append(q, f)[i] = f)
    BY <1>1
  <1>4. Len(q) + 1 \in DOMAIN Append(q, f)
    BY <1>1
  <1>5. ASSUME NEW n \in EventsIn(Append(q, f)) PROVE n \in EventsIn(q) \cup NumberOf(f)
    <2>1. PICK i \in DOMAIN Append(q, f) : Append(q, f)[i].type = "event" /\ Append(q, f)[i].sequence = n
      BY <1>5, EventsMembers
    <2> QED
      BY <1>3, <2>1, EventsMembers, NumberMembers
  <1>6. ASSUME NEW n \in EventsIn(q) \cup NumberOf(f) PROVE n \in EventsIn(Append(q, f))
    <2>1. CASE n \in EventsIn(q)
      <3>1. PICK i \in DOMAIN q : q[i].type = "event" /\ q[i].sequence = n
        BY <2>1, EventsMembers
      <3> QED
        BY <1>2, <3>1, EventsMembers
    <2>2. CASE n \in NumberOf(f)
      <3> DEFINE k == Len(q) + 1
      <3>1. k \in DOMAIN Append(q, f) /\ Append(q, f)[k].type = "event" /\ Append(q, f)[k].sequence = n
        BY <1>1, <1>4, <2>2, NumberMembers
      <3> HIDE DEF k
      <3> QED
        BY <3>1, EventsMembers
    <2> QED
      BY <1>6, <2>1, <2>2
  <1> QED
    BY <1>5, <1>6

LEMMA EventsOfTail ==
    ASSUME NEW S, NEW q \in Seq(S), q # <<>>
    PROVE  EventsIn(q) = EventsIn(Tail(q)) \cup NumberOf(Head(q))
  <1>1. /\ \A i \in DOMAIN Tail(q) : i + 1 \in DOMAIN q /\ Tail(q)[i] = q[i + 1]
        /\ 1 \in DOMAIN q /\ Head(q) = q[1]
    OBVIOUS
  <1>2. \A i \in DOMAIN q : i = 1 \/ (i - 1 \in DOMAIN Tail(q) /\ Tail(q)[i - 1] = q[i])
    OBVIOUS
  <1>3. ASSUME NEW n \in EventsIn(q) PROVE n \in EventsIn(Tail(q)) \cup NumberOf(Head(q))
    <2>1. PICK i \in DOMAIN q : q[i].type = "event" /\ q[i].sequence = n
      BY <1>3, EventsMembers
    <2>2. CASE i = 1
      BY <1>1, <2>1, <2>2, NumberMembers
    <2>3. CASE i # 1
      <3> DEFINE k == i - 1
      <3>1. k \in DOMAIN Tail(q) /\ Tail(q)[k].type = "event" /\ Tail(q)[k].sequence = n
        BY <1>2, <2>1, <2>3
      <3> HIDE DEF k
      <3> QED
        BY <3>1, EventsMembers
    <2> QED
      BY <2>2, <2>3
  <1>4. ASSUME NEW n \in EventsIn(Tail(q)) \cup NumberOf(Head(q)) PROVE n \in EventsIn(q)
    <2>1. CASE n \in EventsIn(Tail(q))
      <3>1. PICK i \in DOMAIN Tail(q) : Tail(q)[i].type = "event" /\ Tail(q)[i].sequence = n
        BY <2>1, EventsMembers
      <3> QED
        BY <1>1, <3>1, EventsMembers
    <2>2. CASE n \in NumberOf(Head(q))
      BY <1>1, <2>2, EventsMembers, NumberMembers
    <2> QED
      BY <1>4, <2>1, <2>2
  <1> QED
    BY <1>3, <1>4

\* The first event of a queue in line is below all the others of it.
LEMMA HeadIsLeast ==
    ASSUME NEW S, NEW q \in Seq(S), q # <<>>, Increasing(q, "event"), Head(q).type = "event"
    PROVE  \A n \in EventsIn(Tail(q)) : Head(q).sequence < n
  <1>1. \A i \in DOMAIN Tail(q) : i + 1 \in DOMAIN q /\ Tail(q)[i] = q[i + 1] /\ 1 < i + 1
    OBVIOUS
  <1>2. 1 \in DOMAIN q /\ Head(q) = q[1]
    OBVIOUS
  <1> SUFFICES ASSUME NEW n \in EventsIn(Tail(q)) PROVE Head(q).sequence < n
    OBVIOUS
  <1>3. PICK i \in DOMAIN Tail(q) : Tail(q)[i].type = "event" /\ Tail(q)[i].sequence = n
    BY EventsMembers
  <1> QED
    BY <1>1, <1>2, <1>3 DEF Increasing

\* What the line says about the events as sets.
LEMMA EventsInLine ==
    ASSUME IInv
    PROVE  /\ \A n \in EventsIn(eventChain) \cup EventsIn(output) :
                 n \in Nat /\ lastAcknowledged < n /\ n <= LastPushed
           /\ \A m \in EventsIn(eventChain), n \in EventsIn(output) : m < n
           /\ lastSent \in Nat /\ lastAcknowledged \in Nat /\ handled \in Nat
           /\ LastPushed = IF task = "sendEvent" THEN lastSent - 1 ELSE lastSent
  <1>1. ASSUME NEW n \in EventsIn(eventChain) \cup EventsIn(output)
        PROVE  n \in Nat /\ lastAcknowledged < n /\ n <= LastPushed
    BY <1>1, EventsMembers, QueueNumbers DEF IInv, Line, Between
  <1>2. ASSUME NEW m \in EventsIn(eventChain), NEW n \in EventsIn(output) PROVE m < n
    BY EventsMembers DEF IInv, Line, Precede
  <1>3. lastSent \in Nat /\ lastAcknowledged \in Nat /\ handled \in Nat
    BY FlowAssumption DEF IInv, TypeOK
  <1> QED
    BY <1>1, <1>2, <1>3 DEF LastPushed

-----------------------------------------------------------------------------
(* Init and the steps of Next.                                             *)

LEMMA InitGapless == Init => Gapless
  <1> SUFFICES ASSUME Init PROVE Gapless
    OBVIOUS
  <1>1. EventsIn(<<>>) = {}
    BY EventsMembers
  <1>2. Unhandled = {} /\ (handled + 1)..lastSent = {}
    BY <1>1 DEF Init, Unhandled
  <1> QED
    BY <1>1, <1>2 DEF Init, Gapless, Contiguous, Counted, ResultIsLast, NothingMissing, Between

\* A step that numbers no event, queues none and handles none.
LEMMA Unmoved ==
    ASSUME Gapless,
           UNCHANGED <<lastSent, eventChain, handled>>,
           request' = request \/ request' \notin {"pending", "resolved"},
           request' = "pending" => Unhandled' = Unhandled,
           lastAcknowledged' <= handled, Between(input', "acknowledge", lastAcknowledged', handled)
    PROVE  Gapless'
  <1>1. Contiguous' /\ ResultIsLast'
    BY DEF Gapless, Contiguous, ResultIsLast
  <1>2. Counted' /\ NothingMissing'
    BY DEF Gapless, Counted, NothingMissing
  <1> QED
    BY <1>1, <1>2 DEF Gapless

\* The request task and the serve loop between two events.
LEMMA BridgeMoves ==
    ASSUME Gapless, UNCHANGED <<lastSent, eventChain, handled, request, lastAcknowledged, input>>,
           Unhandled' = Unhandled
    PROVE  Gapless'
  BY Unmoved DEF Gapless, Counted

LEMMA PushNoEvent ==
    ASSUME IInv, Gapless, NEW f \in ServerFrame, f.type # "event", output' = Append(output, f),
           task # "sendEvent", task' # "sendEvent",
           UNCHANGED <<lastSent, eventChain, handled, request, lastAcknowledged, input>>
    PROVE  Gapless'
  <1>1. output \in Seq(ServerFrame)
    BY DEF IInv, TypeOK
  <1>2. EventsIn(output') = EventsIn(output)
    <2>1. NumberOf(f) = {}
      BY DEF NumberOf
    <2>2. EventsIn(output') = EventsIn(output) \cup NumberOf(f)
      BY <1>1, EventsOfAppend
    <2> QED
      BY <2>1, <2>2
  <1>3. Unhandled' = Unhandled
    BY <1>2 DEF Unhandled
  <1> QED
    BY <1>3, BridgeMoves

LEMMA EmitLockedGapless == IInv /\ Gapless /\ EmitLocked => Gapless'
  <1> SUFFICES ASSUME IInv, Gapless, EmitLocked PROVE Gapless'
    OBVIOUS
  <1>1. CASE task' = "sendEvent"
    <2>1. /\ lastSent' = lastSent + 1 /\ task # "sendEvent"
          /\ UNCHANGED <<lastAcknowledged, output, input, request, eventChain, handled>>
      BY <1>1 DEF EmitLocked, clientVars
    <2>2. lastSent \in Nat /\ handled \in Nat /\ lastAcknowledged \in Nat /\ handled <= lastSent
      BY EventsInLine DEF Gapless, Counted
    <2>3. Unhandled' = Unhandled \cup {lastSent + 1}
      BY <1>1, <2>1 DEF Unhandled
    <2>4. (handled + 1)..(lastSent + 1) = ((handled + 1)..lastSent) \cup {lastSent + 1}
      BY <2>2
    <2>5. NothingMissing'
      BY <2>1, <2>3, <2>4 DEF Gapless, NothingMissing
    <2>6. Contiguous' /\ ResultIsLast'
      BY <2>1 DEF Gapless, Contiguous, ResultIsLast
    <2>7. Counted'
      BY <2>1, <2>2 DEF Gapless, Counted
    <2> QED
      BY <2>5, <2>6, <2>7 DEF Gapless
  <1>2. CASE task' # "sendEvent"
    <2>1. /\ UNCHANGED <<lastSent, lastAcknowledged, output, input, request, eventChain, handled>>
          /\ task # "sendEvent"
      BY <1>2 DEF EmitLocked, clientVars
    <2>2. Unhandled' = Unhandled
      BY <1>2, <2>1 DEF Unhandled
    <2> QED
      BY <2>1, <2>2, BridgeMoves
  <1> QED
    BY <1>1, <1>2

LEMMA EmitEventGapless == IInv /\ Gapless /\ EmitEvent => Gapless'
  <1> SUFFICES ASSUME IInv, Gapless, EmitEvent PROVE Gapless'
    OBVIOUS
  <1> DEFINE f == Event(lastSent)
  <1>1. /\ task = "sendEvent" /\ task' = "running" /\ output' = Append(output, f)
        /\ UNCHANGED <<lastSent, lastAcknowledged, input, request, eventChain, handled>>
    BY DEF EmitEvent, Push, clientVars
  <1>2. f \in ServerFrame /\ f.type = "event" /\ f.sequence = lastSent /\ output \in Seq(ServerFrame)
    <2>1. lastSent \in 1..MaxSequence
      BY <1>1, FlowAssumption DEF IInv, TypeOK, Line, LastPushed
    <2> QED
      BY <2>1 DEF ServerFrame, Event, IInv, TypeOK
  <1> HIDE DEF f
  <1>3. EventsIn(output') = EventsIn(output) \cup {lastSent}
    BY <1>1, <1>2, EventsOfAppend DEF NumberOf
  <1>4. Unhandled' = Unhandled
    BY <1>1, <1>3 DEF Unhandled
  <1> QED
    BY <1>1, <1>4, BridgeMoves

LEMMA TaskGapless == IInv /\ Gapless /\ RequestTask => Gapless'
  <1> SUFFICES ASSUME IInv, Gapless, RequestTask PROVE Gapless'
    OBVIOUS
  <1>1. CASE RegisterWaiter \/ EmitCancelled \/ DispatchReturns
    <2>1. /\ UNCHANGED <<lastSent, lastAcknowledged, output, input, request, eventChain, handled>>
          /\ task # "sendEvent" /\ task' # "sendEvent"
      BY <1>1 DEF RegisterWaiter, EmitCancelled, DispatchReturns, clientVars
    <2>2. Unhandled' = Unhandled
      BY <2>1 DEF Unhandled
    <2> QED
      BY <2>1, <2>2, BridgeMoves
  <1>2. CASE AnnouncePause
    <2>1. Paused \in ServerFrame /\ Paused.type # "event"
      BY DEF ServerFrame, Paused
    <2> QED
      BY <1>2, <2>1, PushNoEvent DEF AnnouncePause, Push, clientVars
  <1>3. CASE SendTerminal
    <2>1. PICK f \in Terminal : output' = Append(output, f)
      BY <1>3 DEF SendTerminal, Push, Terminal
    <2>2. f \in ServerFrame /\ f.type # "event"
      BY <2>1 DEF ServerFrame, Terminal
    <2> QED
      BY <1>3, <2>1, <2>2, PushNoEvent DEF SendTerminal, clientVars
  <1> QED
    BY <1>1, <1>2, <1>3, EmitLockedGapless, EmitEventGapless DEF RequestTask

LEMMA ServeGapless == IInv /\ Gapless /\ ServeLoop => Gapless'
  <1> SUFFICES ASSUME IInv, Gapless, ServeLoop PROVE Gapless'
    OBVIOUS
  <1>1. CASE RemoveCompleted
    <2>1. Unhandled' = Unhandled
      BY <1>1 DEF RemoveCompleted, Unhandled, clientVars
    <2> QED
      BY <1>1, <2>1, BridgeMoves DEF RemoveCompleted, clientVars
  <1>2. CASE ServeSend
    <2>1. /\ owed \in ServerFrame /\ owed.type # "event" /\ output' = Append(output, owed)
          /\ UNCHANGED <<task, lastSent, lastAcknowledged, input, request, eventChain, handled>>
      BY <1>2 DEF IInv, TypeOK, ServeSend, Push, ServerFrame, None, Resumed, CancelReply, ProtocolError,
                  clientVars
    <2>2. EventsIn(output') = EventsIn(output)
      <3>1. NumberOf(owed) = {}
        BY <2>1 DEF NumberOf
      <3>2. output \in Seq(ServerFrame)
        BY DEF IInv, TypeOK
      <3>3. EventsIn(output') = EventsIn(output) \cup NumberOf(owed)
        BY <2>1, <3>2, EventsOfAppend
      <3> QED
        BY <3>1, <3>3
    <2>3. Unhandled' = Unhandled
      BY <2>1, <2>2 DEF Unhandled
    <2> QED
      BY <2>1, <2>3, BridgeMoves
  <1>3. CASE ServeAcknowledge \/ ServeCancel
    <2>1. /\ input # <<>> /\ input' = Tail(input) /\ input \in Seq(ClientFrame)
          /\ UNCHANGED <<lastSent, output, request, eventChain, handled>>
          /\ lastAcknowledged' = lastAcknowledged
               \/ (Head(input).type = "acknowledge" /\ lastAcknowledged' = Head(input).sequence)
          /\ task = "sendEvent" <=> task' = "sendEvent"
      BY <1>3 DEF ServeAcknowledge, ServeCancel, NotifyWaiters, IInv, TypeOK, clientVars
    <2>2. Unhandled' = Unhandled
      BY <2>1 DEF Unhandled
    <2>3. /\ Between(Tail(input), "acknowledge", lastAcknowledged, handled)
          /\ Head(input).type = "acknowledge" =>
               \A j \in DOMAIN Tail(input) :
                  Tail(input)[j].type = "acknowledge" => Head(input).sequence < Tail(input)[j].sequence
      BY <2>1, TailKeepsLine DEF IInv, Line, Gapless, Counted
    <2>4. Head(input).type = "acknowledge" => Head(input).sequence <= handled
      BY <2>1 DEF Gapless, Counted, Between
    <2>5. lastAcknowledged' <= handled
      BY <2>1, <2>4 DEF Gapless, Counted
    <2>6. Between(input', "acknowledge", lastAcknowledged', handled)
      BY <2>1, <2>3 DEF Between
    <2> QED
      BY <2>1, <2>2, <2>5, <2>6, Unmoved
  <1> QED
    BY <1>1, <1>2, <1>3 DEF ServeLoop

\* A frame that reaches a pending request is queued, or it is the error frame.
LEMMA RoutePending ==
    ASSUME request = "pending", NEW f \in ServerFrame, f # CancelReply, f # ProtocolError, Route(f)
    PROVE  /\ connection' = connection
           /\ \/ eventChain' = Append(eventChain, f) /\ request' = "pending"
              \/ eventChain' = eventChain /\ request' = "rejected" /\ f.type = "error"
  <1>1. /\ f.type \in {"event", "paused", "resumed", "result", "error"}
        /\ f.type = "result" => f = [type |-> "result"]
    BY DEF ServerFrame, Paused, Resumed, CancelReply, ProtocolError, Terminal
  <1>2. CASE f.type = "error"
    BY <1>2 DEF Route
  <1>3. CASE f.type = "result"
    BY <1>1, <1>3 DEF Route, QueueResult, Enqueue
  <1>4. CASE f.type \in {"event", "paused", "resumed"}
    BY <1>4 DEF Route, Enqueue
  <1> QED
    BY <1>1, <1>2, <1>3, <1>4

\* #route queues a frame of a pending request: the chain grows at its end by what
\* comes next.
LEMMA QueueGapless ==
    ASSUME IInv, Gapless, output # <<>>, output' = Tail(output), request = "pending",
           eventChain' = Append(eventChain, Head(output)), request' = "pending",
           UNCHANGED <<bridgeVars, input, handled>>
    PROVE  Gapless'
  <1> DEFINE f == Head(output)
  <1>1. output \in Seq(ServerFrame) /\ eventChain \in Seq(ServerFrame) /\ f \in ServerFrame
    BY DEF IInv, TypeOK
  <1>2. EventsIn(output) = EventsIn(output') \cup NumberOf(f)
    BY <1>1, EventsOfTail
  <1>3. EventsIn(eventChain') = EventsIn(eventChain) \cup NumberOf(f)
    BY <1>1, EventsOfAppend
  <1>4. Unhandled' = Unhandled /\ Unhandled = (handled + 1)..lastSent
    BY <1>2, <1>3 DEF Unhandled, bridgeVars, Gapless, NothingMissing
  <1>5. Contiguous'
    <2>1. ASSUME f.type = "event"
          PROVE  /\ f.sequence \in EventsIn(output) /\ f.sequence \in Unhandled
                 /\ \A m \in EventsIn(output') : f.sequence < m
                 /\ task = "sendEvent" => f.sequence < lastSent
      <3>1. f.sequence \in EventsIn(output) /\ f.sequence \in Unhandled
        BY <1>2, <2>1, NumberMembers DEF Unhandled
      <3>2. \A m \in EventsIn(output') : f.sequence < m
        BY <1>1, <2>1, HeadIsLeast DEF IInv, Line
      <3>3. task = "sendEvent" => f.sequence < lastSent
        BY <3>1, EventsInLine
      <3> QED
        BY <3>1, <3>2, <3>3
    <2>2. ASSUME f.type = "event", NEW m \in (handled + 1)..f.sequence
          PROVE  m \in EventsIn(eventChain) \cup NumberOf(f)
      <3>1. f.sequence \in Nat /\ f.sequence <= lastSent /\ m \in Nat
        BY <2>1, <2>2, EventsInLine DEF LastPushed
      <3>2. m \in Unhandled
        BY <1>4, <3>1, EventsInLine
      <3>3. m \notin EventsIn(output') /\ ~(task = "sendEvent" /\ m = lastSent)
        BY <2>1, <2>2, <3>1, EventsInLine
      <3> QED
        BY <1>2, <3>2, <3>3 DEF Unhandled
    <2>3. ASSUME NEW n \in NumberOf(f) PROVE handled < n /\ (handled + 1)..n \subseteq EventsIn(eventChain')
      <3>1. f.type = "event" /\ n = f.sequence
        BY <2>3, NumberMembers
      <3>2. n \in (handled + 1)..lastSent
        BY <1>4, <2>1, <3>1
      <3> QED
        BY <1>3, <2>2, <3>1, <3>2, EventsInLine
    <2>4. ASSUME NEW n \in EventsIn(eventChain)
          PROVE  handled < n /\ (handled + 1)..n \subseteq EventsIn(eventChain')
      BY <1>3, <2>4 DEF Gapless, Contiguous
    <2> QED
      BY <1>3, <2>3, <2>4 DEF Contiguous
  <1>6. ResultIsLast'
    <2>1. /\ Len(eventChain) \in Nat /\ DOMAIN eventChain = 1..Len(eventChain)
          /\ DOMAIN eventChain' = 1..(Len(eventChain) + 1)
          /\ \A i \in 1..Len(eventChain) : eventChain'[i] = eventChain[i]
          /\ eventChain'[Len(eventChain) + 1] = f
      BY <1>1
    <2>2. (\E i \in DOMAIN eventChain : eventChain[i].type = "result") => f.type # "event"
      <3>1. (\E i \in DOMAIN eventChain : eventChain[i].type = "result") => f \in Trailing
        BY OutputTail DEF IInv, TerminalIsLast
      <3> QED
        BY <3>1 DEF Trailing, Resumed, CancelReply
    <2>3. ASSUME NEW i \in DOMAIN eventChain', NEW j \in DOMAIN eventChain', i < j,
                 eventChain'[i].type = "result"
          PROVE  eventChain'[j].type # "event"
      <3>1. i \in DOMAIN eventChain /\ eventChain[i].type = "result"
        BY <2>1, <2>3
      <3>2. CASE j \in DOMAIN eventChain
        BY <2>1, <2>3, <3>1, <3>2 DEF Gapless, ResultIsLast
      <3>3. CASE j = Len(eventChain) + 1
        BY <2>1, <2>2, <3>1, <3>3
      <3> QED
        BY <2>1, <3>2, <3>3
    <2> QED
      BY <2>3 DEF ResultIsLast
  <1>7. Counted' /\ NothingMissing'
    BY <1>4 DEF Gapless, Counted, NothingMissing, bridgeVars
  <1> QED
    BY <1>5, <1>6, <1>7 DEF Gapless

LEMMA ReceiveGapless == IInv /\ Gapless /\ Receive => Gapless'
  <1> SUFFICES ASSUME IInv, Gapless, Receive PROVE Gapless'
    OBVIOUS
  <1> DEFINE f == Head(output)
  <1>1. /\ output # <<>> /\ output' = Tail(output)
        /\ UNCHANGED <<bridgeVars, input, handled>>
    BY DEF Receive
  <1>2. f \in ServerFrame /\ f # ProtocolError /\ TypeOK
    BY <1>1, OutputTail DEF IInv
  <1>3. CASE f = CancelReply
    <2>1. UNCHANGED <<request, eventChain>>
      BY <1>2, <1>3 DEF Receive
    <2>2. output \in Seq(ServerFrame) /\ NumberOf(f) = {}
      BY <1>3 DEF IInv, TypeOK, NumberOf, CancelReply
    <2>3. EventsIn(output) = EventsIn(output') \cup NumberOf(f)
      BY <1>1, <2>2, EventsOfTail
    <2>4. Unhandled' = Unhandled
      BY <1>1, <2>1, <2>2, <2>3 DEF Unhandled, bridgeVars
    <2> QED
      BY <1>1, <2>1, <2>4, BridgeMoves DEF bridgeVars
  <1>4. CASE f # CancelReply
    <2>1. Route(f)
      BY <1>2, <1>4 DEF Receive
    <2> HIDE DEF f
    <2>2. CASE request = "pending"
      <3>1. \/ eventChain' = Append(eventChain, f) /\ request' = "pending"
            \/ eventChain' = eventChain /\ request' = "rejected"
        BY <1>2, <1>4, <2>1, <2>2, RoutePending
      <3>2. CASE eventChain' = Append(eventChain, f) /\ request' = "pending"
        BY <1>1, <2>2, <3>2, QueueGapless DEF f
      <3>3. CASE eventChain' = eventChain /\ request' = "rejected"
        BY <1>1, <3>3, Unmoved DEF bridgeVars, Gapless, Counted
      <3> QED
        BY <3>1, <3>2, <3>3
    <2>3. CASE request # "pending"
      <3>1. /\ UNCHANGED eventChain
            /\ request' = request \/ request' \in {"forgotten", "rejected"}
        BY <1>2, <1>4, <2>1, <2>3, RouteCases
      <3> QED
        BY <1>1, <2>3, <3>1, Unmoved DEF bridgeVars, Gapless, Counted
    <2> QED
      BY <2>2, <2>3
  <1> QED
    BY <1>3, <1>4

\* The first queued event is the next one to be handled.
LEMMA NextToHandle ==
    ASSUME IInv, Gapless, eventChain # <<>>, Head(eventChain).type = "event"
    PROVE  /\ Head(eventChain).sequence = handled + 1
           /\ handled < lastSent
           /\ \A n \in EventsIn(Tail(eventChain)) : handled + 1 < n
  <1> DEFINE h == Head(eventChain).sequence
  <1>1. eventChain \in Seq(ServerFrame)
    BY DEF IInv, TypeOK
  <1>2. EventsIn(eventChain) = EventsIn(Tail(eventChain)) \cup {h}
    BY <1>1, EventsOfTail DEF NumberOf
  <1>3. \A n \in EventsIn(Tail(eventChain)) : h < n
    BY <1>1, HeadIsLeast DEF IInv, Line
  <1>4. h \in EventsIn(eventChain)
    BY <1>2
  <1> HIDE DEF h
  <1>5. h \in Nat /\ handled \in Nat /\ h <= lastSent /\ lastSent \in Nat
    BY <1>4, EventsInLine DEF LastPushed
  <1>6. handled < h /\ handled + 1 \in (handled + 1)..h
    BY <1>4, <1>5 DEF Gapless, Contiguous
  <1>7. handled + 1 \in EventsIn(eventChain)
    BY <1>4, <1>6 DEF Gapless, Contiguous
  <1>8. h = handled + 1
    <2>1. CASE handled + 1 = h
      BY <2>1
    <2>2. CASE handled + 1 \in EventsIn(Tail(eventChain))
      BY <1>3, <1>5, <1>6, <2>2
    <2> QED
      BY <1>2, <1>7, <2>1, <2>2
  <1> QED
    BY <1>3, <1>5, <1>6, <1>8 DEF h

LEMMA RunHandlerGapless == IInv /\ Gapless /\ RunHandler => Gapless'
  <1> SUFFICES ASSUME IInv, Gapless, RunHandler PROVE Gapless'
    OBVIOUS
  <1> DEFINE f == Head(eventChain)
  <1>1. /\ eventChain # <<>> /\ eventChain' = Tail(eventChain)
        /\ UNCHANGED <<bridgeVars, output>>
        /\ f.type = "event" => handled' = handled + 1 /\ input' = Append(input, Acknowledge(f.sequence))
                               /\ request' = request
        /\ f.type # "event" => UNCHANGED <<handled, input>>
        /\ request' = IF f.type = "result" /\ request = "pending" THEN "resolved" ELSE request
    BY DEF RunHandler
  <1>2. eventChain \in Seq(ServerFrame) /\ input \in Seq(ClientFrame)
    BY DEF IInv, TypeOK
  <1>3. EventsIn(eventChain) = EventsIn(eventChain') \cup NumberOf(f)
    BY <1>1, <1>2, EventsOfTail
  <1>4. ResultIsLast'
    <2>1. /\ 1 \in DOMAIN eventChain /\ f = eventChain[1]
          /\ \A i \in DOMAIN eventChain' : i + 1 \in DOMAIN eventChain /\ 1 < i + 1
                                           /\ eventChain'[i] = eventChain[i + 1]
          /\ \A i, j \in DOMAIN eventChain' : i < j => i + 1 < j + 1
      BY <1>1, <1>2
    <2>2. f.type = "result" => \A i \in DOMAIN eventChain' : eventChain'[i].type # "event"
      BY <2>1 DEF Gapless, ResultIsLast
    <2>3. request = "resolved" => \A i \in DOMAIN eventChain' : eventChain'[i].type # "event"
      BY <2>1 DEF Gapless, ResultIsLast
    <2>4. \A i, j \in DOMAIN eventChain' :
             i < j /\ eventChain'[i].type = "result" => eventChain'[j].type # "event"
      BY <2>1 DEF Gapless, ResultIsLast
    <2> QED
      BY <1>1, <2>2, <2>3, <2>4 DEF ResultIsLast
  <1>5. CASE f.type = "event"
    <2>1. /\ f.sequence = handled + 1 /\ handled < lastSent /\ lastSent \in Nat /\ handled \in Nat
          /\ \A n \in EventsIn(eventChain') : handled + 1 < n
          /\ \A n \in EventsIn(output) : handled + 1 < n
          /\ \A n \in EventsIn(eventChain) \cup EventsIn(output) : n \in Nat /\ n <= LastPushed
      <3>1. f.sequence \in EventsIn(eventChain)
        BY <1>3, <1>5 DEF NumberOf
      <3> QED
        BY <1>1, <1>5, <3>1, NextToHandle, EventsInLine
    <2>2. EventsIn(eventChain) = EventsIn(eventChain') \cup {handled + 1}
      BY <1>3, <1>5, <2>1 DEF NumberOf
    <2>3. Contiguous'
      <3> SUFFICES ASSUME NEW n \in EventsIn(eventChain')
                   PROVE  handled + 1 < n /\ (handled + 2)..n \subseteq EventsIn(eventChain')
        BY <1>1, <1>5, <2>1 DEF Contiguous
      <3>1. handled + 1 < n /\ n \in Nat /\ n \in EventsIn(eventChain)
        BY <2>1, <2>2
      <3>2. (handled + 1)..n \subseteq EventsIn(eventChain)
        BY <3>1 DEF Gapless, Contiguous
      <3>3. ASSUME NEW m \in (handled + 2)..n PROVE m \in EventsIn(eventChain')
        <4>1. m \in (handled + 1)..n /\ m # handled + 1
          BY <2>1, <3>1
        <4> QED
          BY <2>2, <3>2, <4>1
      <3> QED
        BY <3>1, <3>3
    <2>4. Counted'
      <3>1. Acknowledge(f.sequence) \in ClientFrame /\ Acknowledge(f.sequence).sequence = handled + 1
        <4>1. handled + 1 \in 1..MaxSequence
          BY <2>1, FlowAssumption DEF IInv, TypeOK
        <4> QED
          BY <2>1, <4>1 DEF Acknowledge, ClientFrame
      <3> DEFINE a == Acknowledge(f.sequence)
      <3> HIDE DEF a
      <3>2. \A i \in DOMAIN input' : (i \in DOMAIN input /\ input'[i] = input[i]) \/ input'[i] = a
        BY <1>1, <1>2, <1>5, <3>1 DEF a
      <3>3. \A i \in DOMAIN input : input[i].type = "acknowledge" =>
               lastAcknowledged < input[i].sequence /\ input[i].sequence <= handled
                 /\ input[i].sequence \in Nat
        BY QueueNumbers DEF IInv, Gapless, Counted, Between
      <3>4. lastAcknowledged \in Nat /\ lastAcknowledged <= handled
        BY EventsInLine DEF Gapless, Counted
      <3>5. a.sequence = handled + 1
        BY <3>1 DEF a
      <3>6. Between(input', "acknowledge", lastAcknowledged, handled + 1)
        BY <2>1, <3>2, <3>3, <3>4, <3>5 DEF Between
      <3> QED
        BY <1>1, <1>5, <2>1, <3>4, <3>6 DEF Counted, bridgeVars
    <2>5. NothingMissing'
      <3> SUFFICES ASSUME request = "pending" PROVE Unhandled' = (handled + 2)..lastSent
        BY <1>1, <1>5, <2>1 DEF NothingMissing, bridgeVars
      <3>1. Unhandled = (handled + 1)..lastSent /\ Unhandled = Unhandled' \cup {handled + 1}
        BY <1>1, <2>2 DEF Gapless, NothingMissing, Unhandled, bridgeVars
      <3>2. handled + 1 \notin Unhandled'
        <4>1. task = "sendEvent" => handled + 1 # lastSent
          <5>1. handled + 1 <= LastPushed
            BY <2>1, <2>2
          <5> QED
            BY <2>1, <5>1 DEF LastPushed
        <4>2. handled + 1 \notin EventsIn(eventChain') /\ handled + 1 \notin EventsIn(output)
          BY <2>1
        <4> QED
          BY <1>1, <4>1, <4>2 DEF Unhandled, bridgeVars
      <3>3. (handled + 2)..lastSent = ((handled + 1)..lastSent) \ {handled + 1}
        BY <2>1
      <3> QED
        BY <3>1, <3>2, <3>3
    <2> QED
      BY <1>4, <2>3, <2>4, <2>5 DEF Gapless
  <1>6. CASE f.type # "event"
    <2>1. EventsIn(eventChain') = EventsIn(eventChain)
      <3>1. NumberOf(f) = {}
        BY <1>6 DEF NumberOf
      <3> QED
        BY <1>3, <3>1
    <2>2. Unhandled' = Unhandled
      BY <1>1, <2>1 DEF Unhandled, bridgeVars
    <2>3. request' = "pending" => request = "pending"
      BY <1>1
    <2> HIDE DEF f
    <2>4. Contiguous' /\ Counted' /\ NothingMissing'
      BY <1>1, <1>6, <2>1, <2>2, <2>3 DEF Gapless, Contiguous, Counted, NothingMissing, bridgeVars
    <2> QED
      BY <1>4, <2>4 DEF Gapless
  <1> QED
    BY <1>5, <1>6

LEMMA AbortGapless == IInv /\ Gapless /\ Abort => Gapless'
  <1> SUFFICES ASSUME IInv, Gapless, Abort PROVE Gapless'
    OBVIOUS
  <1>1. /\ request' = "ignored" /\ input' = Append(input, Cancel)
        /\ UNCHANGED <<lastSent, lastAcknowledged, eventChain, handled>>
    BY DEF Abort, bridgeVars
  <1>2. \A i \in DOMAIN input' : (i \in DOMAIN input /\ input'[i] = input[i]) \/ input'[i] = Cancel
    BY <1>1 DEF IInv, TypeOK
  <1>3. Between(input', "acknowledge", lastAcknowledged, handled)
    BY <1>2 DEF Between, Gapless, Counted, Cancel
  <1> QED
    BY <1>1, <1>3, Unmoved DEF Gapless, Counted

LEMMA NextGapless == IInv /\ Gapless /\ [Next]_vars => Gapless'
  <1> SUFFICES ASSUME IInv, Gapless, [Next]_vars PROVE Gapless'
    OBVIOUS
  <1>1. CASE HandlerThrows
    <2>1. Unhandled' = Unhandled
      BY <1>1 DEF HandlerThrows, Unhandled, bridgeVars
    <2> QED
      BY <1>1, <2>1, BridgeMoves DEF HandlerThrows, bridgeVars
  <1>2. CASE Finished \/ UNCHANGED vars
    <2>1. UNCHANGED vars
      BY <1>2 DEF Finished
    <2>2. Unhandled' = Unhandled
      BY <2>1 DEF vars, bridgeVars, clientVars, Unhandled
    <2> QED
      BY <2>1, <2>2, BridgeMoves DEF vars, bridgeVars, clientVars
  <1> QED
    BY <1>1, <1>2, TaskGapless, ServeGapless, ReceiveGapless, RunHandlerGapless, AbortGapless
       DEF Next, Client

\* The strengthened invariant holds of every streamed request.
THEOREM GaplessHolds == Spec => []Gapless
  BY InitGapless, NextGapless, IInvHolds, PTL DEF Spec

\* A pending request misses no event, whatever the window, and its promise chain
\* offers the events one after the other, starting with the next one to handle.
THEOREM NoEventIsMissed == Spec => []InOrderWithoutGaps
  <1>1. IInv /\ Gapless => InOrderWithoutGaps
    <2> SUFFICES ASSUME IInv, Gapless,
                        NEW i \in DOMAIN eventChain, eventChain[i].type = "event",
                        \A j \in 1..(i - 1) : eventChain[j].type # "event"
                 PROVE  eventChain[i].sequence = handled + 1
      BY DEF InOrderWithoutGaps, Gapless, NothingMissing
    <2> DEFINE n == eventChain[i].sequence
    <2>1. n \in EventsIn(eventChain)
      BY EventsMembers
    <2>2. n \in Nat /\ handled \in Nat /\ handled < n /\ (handled + 1)..n \subseteq EventsIn(eventChain)
      BY <2>1, EventsInLine DEF Gapless, Contiguous
    <2>3. PICK k \in DOMAIN eventChain :
             eventChain[k].type = "event" /\ eventChain[k].sequence = handled + 1
      <3>1. handled + 1 \in EventsIn(eventChain)
        BY <2>2
      <3> QED
        BY <3>1, EventsMembers
    <2>4. k \notin 1..(i - 1) /\ i \in Nat /\ k \in Nat /\ k >= 1
      BY <2>3 DEF IInv, TypeOK
    <2>5. i < k => n < handled + 1
      BY <2>3 DEF IInv, Line, Increasing
    <2> QED
      BY <2>2, <2>3, <2>4, <2>5
  <1> QED
    BY <1>1, IInvHolds, GaplessHolds, PTL

-----------------------------------------------------------------------------
(* The streamed request implements the event stream.                       *)

\* The outcome a caller of the request sees.
Outcome ==
    CASE request = "resolved" -> "resolved"
      [] request = "pending" /\ connection = "ready" -> "open"
      [] OTHER -> "rejected"

\* A result is only at the head of the chain when every event was handled.
LEMMA ResultAfterEvents ==
    ASSUME IInv, Gapless, eventChain # <<>>, Head(eventChain).type = "result", request = "pending"
    PROVE  handled = lastSent
  <1>1. /\ eventChain \in Seq(ServerFrame) /\ 1 \in DOMAIN eventChain /\ Head(eventChain) = eventChain[1]
        /\ \A i \in DOMAIN eventChain : i = 1 \/ 1 < i
    BY DEF IInv, TypeOK
  <1>2. \A i \in DOMAIN eventChain : eventChain[i].type # "event"
    BY <1>1 DEF Gapless, ResultIsLast
  <1>3. EventsIn(eventChain) = {}
    BY <1>2, EventsMembers
  <1>4. task = "done" /\ \A i \in DOMAIN output : output[i] \in Trailing
    BY <1>1 DEF IInv, TerminalIsLast
  <1>5. \A i \in DOMAIN output : output[i].type # "event"
    BY <1>4 DEF Trailing, Resumed, CancelReply
  <1>6. EventsIn(output) = {}
    BY <1>5, EventsMembers
  <1>7. (handled + 1)..lastSent = {}
    BY <1>3, <1>4, <1>6 DEF Unhandled, Gapless, NothingMissing
  <1>8. handled \in Nat /\ lastSent \in Nat /\ handled <= lastSent
    BY EventsInLine DEF Gapless, Counted
  <1> QED
    BY <1>7, <1>8

\* A step of the request seen through the mapping: nothing, or one step of the stream.
StreamStep ==
    \/ UNCHANGED <<lastSent, handled, Outcome>>
    \/ /\ Outcome # "resolved" /\ lastSent - handled < Window
       /\ lastSent' = lastSent + 1 /\ UNCHANGED <<handled, Outcome>>
    \/ /\ Outcome # "resolved" /\ handled < lastSent
       /\ handled' = handled + 1 /\ UNCHANGED <<lastSent, Outcome>>
    \/ /\ Outcome = "open" /\ handled = lastSent
       /\ Outcome' = "resolved" /\ UNCHANGED <<lastSent, handled>>
    \/ /\ Outcome = "open" /\ Outcome' = "rejected"
       /\ UNCHANGED <<lastSent, handled>>

LEMMA TaskStreamStep == IInv /\ Gapless /\ RequestTask => StreamStep
  <1> SUFFICES ASSUME IInv, Gapless, RequestTask PROVE StreamStep
    OBVIOUS
  <1>1. UNCHANGED <<request, connection, handled>>
    BY DEF RequestTask, EmitLocked, EmitEvent, AnnouncePause, RegisterWaiter, EmitCancelled,
           DispatchReturns, SendTerminal, clientVars
  <1>2. UNCHANGED Outcome
    BY <1>1 DEF Outcome
  <1>3. CASE EmitLocked
    <2>1. lastSent' = lastSent \/ (lastSent' = lastSent + 1 /\ MayEmit)
      BY <1>3 DEF EmitLocked
    <2>2. CASE lastSent' = lastSent
      BY <1>1, <1>2, <2>2 DEF StreamStep
    <2>3. CASE lastSent' = lastSent + 1 /\ MayEmit
      <3>1. Outcome # "resolved"
        <4>1. request # "resolved"
          BY <1>3 DEF IInv, TerminalIsLast, EmitLocked
        <4> QED
          BY <4>1 DEF Outcome
      <3>2. lastSent - handled < Window
        BY <2>3, EventsInLine, FlowAssumption DEF MayEmit, Gapless, Counted
      <3> QED
        BY <1>1, <1>2, <2>3, <3>1, <3>2 DEF StreamStep
    <2> QED
      BY <2>1, <2>2, <2>3
  <1>4. CASE ~EmitLocked
    <2>1. lastSent' = lastSent
      BY <1>4 DEF RequestTask, EmitEvent, AnnouncePause, RegisterWaiter, EmitCancelled,
                  DispatchReturns, SendTerminal
    <2> QED
      BY <1>1, <1>2, <2>1 DEF StreamStep
  <1> QED
    BY <1>3, <1>4

LEMMA ServeStreamStep == ServeLoop => StreamStep
  <1> SUFFICES ASSUME ServeLoop PROVE StreamStep
    OBVIOUS
  <1>1. UNCHANGED <<request, connection, handled, lastSent>>
    BY DEF ServeLoop, RemoveCompleted, ServeAcknowledge, ServeCancel, ServeSend, clientVars
  <1>2. UNCHANGED Outcome
    BY <1>1 DEF Outcome
  <1> QED
    BY <1>1, <1>2 DEF StreamStep

LEMMA ReceiveStreamStep == IInv /\ Receive => StreamStep
  <1> SUFFICES ASSUME IInv, Receive PROVE StreamStep
    OBVIOUS
  <1> DEFINE f == Head(output)
  <1>1. output # <<>> /\ connection = "ready" /\ UNCHANGED <<lastSent, handled>>
    BY DEF Receive, Live, bridgeVars
  <1>2. f \in ServerFrame /\ f # ProtocolError /\ TypeOK
    BY <1>1, OutputTail DEF IInv
  <1>3. CASE f = CancelReply
    <2>1. UNCHANGED <<request, connection>>
      BY <1>2, <1>3 DEF Receive
    <2> QED
      BY <1>1, <2>1 DEF StreamStep, Outcome
  <1>4. CASE f # CancelReply
    <2>1. Route(f)
      BY <1>2, <1>4 DEF Receive
    <2> HIDE DEF f
    <2>2. CASE request = "pending"
      <3>1. connection' = "ready" /\ request' \in {"pending", "rejected"}
        BY <1>1, <1>2, <1>4, <2>1, <2>2, RoutePending
      <3> QED
        BY <1>1, <2>2, <3>1 DEF StreamStep, Outcome
    <2>3. CASE request # "pending"
      <3>1. request' = request \/ (request # "resolved" /\ request' \in {"forgotten", "rejected"})
        <4>1. request' = request \/ (f \in Terminal /\ request' \in {"forgotten", "rejected"})
          BY <1>2, <1>4, <2>1, <2>3, RouteCases
        <4>2. request # "resolved" \/ f \notin Terminal
          <5>1. request = "resolved" => f \in Trailing
            BY <1>1, OutputTail DEF IInv, TerminalIsLast, f
          <5> QED
            BY <5>1 DEF Trailing, Terminal, Resumed, CancelReply
        <4> QED
          BY <4>1, <4>2
      <3>2. Outcome' = Outcome
        BY <2>3, <3>1 DEF Outcome
      <3> QED
        BY <1>1, <3>2 DEF StreamStep
    <2> QED
      BY <2>2, <2>3
  <1> QED
    BY <1>3, <1>4

LEMMA RunHandlerStreamStep == IInv /\ Gapless /\ RunHandler => StreamStep
  <1> SUFFICES ASSUME IInv, Gapless, RunHandler PROVE StreamStep
    OBVIOUS
  <1> DEFINE f == Head(eventChain)
  <1>1. /\ eventChain # <<>> /\ connection = "ready" /\ UNCHANGED <<lastSent, connection>>
        /\ handled' = IF f.type = "event" THEN handled + 1 ELSE handled
        /\ request' = IF f.type = "result" /\ request = "pending" THEN "resolved" ELSE request
    BY DEF RunHandler, Live, bridgeVars
  <1>2. CASE f.type = "event"
    <2>1. request # "resolved"
      <3>1. 1 \in DOMAIN eventChain /\ f = eventChain[1]
        BY <1>1 DEF IInv, TypeOK
      <3> QED
        BY <1>2, <3>1 DEF Gapless, ResultIsLast
    <2>2. Outcome # "resolved" /\ UNCHANGED Outcome
      BY <1>1, <1>2, <2>1 DEF Outcome
    <2>3. handled < lastSent
      BY <1>1, <1>2, NextToHandle
    <2> QED
      BY <1>1, <1>2, <2>2, <2>3 DEF StreamStep
  <1>3. CASE f.type = "result" /\ request = "pending"
    <2>1. handled = lastSent
      BY <1>1, <1>3, ResultAfterEvents
    <2>2. Outcome = "open" /\ Outcome' = "resolved"
      BY <1>1, <1>3 DEF Outcome
    <2> QED
      BY <1>1, <1>3, <2>1, <2>2 DEF StreamStep
  <1>4. CASE f.type # "event" /\ ~(f.type = "result" /\ request = "pending")
    BY <1>1, <1>4 DEF StreamStep, Outcome
  <1> QED
    BY <1>2, <1>3, <1>4

LEMMA NextStreamStep == IInv /\ Gapless /\ [Next]_vars => StreamStep
  <1> SUFFICES ASSUME IInv, Gapless, [Next]_vars PROVE StreamStep
    OBVIOUS
  <1>1. CASE HandlerThrows
    <2>1. connection = "ready" /\ connection' = "handler" /\ UNCHANGED <<lastSent, handled, request>>
      BY <1>1 DEF HandlerThrows, Live, bridgeVars
    <2> QED
      BY <2>1 DEF StreamStep, Outcome
  <1>2. CASE Abort
    <2>1. /\ connection = "ready" /\ request = "pending" /\ request' = "ignored"
          /\ UNCHANGED <<lastSent, handled, connection>>
      BY <1>2 DEF Abort, Live, bridgeVars
    <2> QED
      BY <2>1 DEF StreamStep, Outcome
  <1>3. CASE Finished \/ UNCHANGED vars
    <2>1. UNCHANGED <<lastSent, handled, request, connection>>
      BY <1>3 DEF Finished, vars, bridgeVars, clientVars
    <2> QED
      BY <2>1 DEF StreamStep, Outcome
  <1> QED
    BY <1>1, <1>2, <1>3, TaskStreamStep, ServeStreamStep, ReceiveStreamStep, RunHandlerStreamStep
       DEF Next, Client

\* FlowControl implements EventStream for every window: events are produced and
\* handled one by one and in order, never more than Window of them are unhandled,
\* and the caller's promise resolves only when every event has been handled.
THEOREM StreamIsImplemented == Spec => ImplementsEventStream
  <1>1. Init => Stream!Init
    BY DEF Init, Stream!Init
  <1>2. StreamStep => [Stream!Next]_(Stream!streamVars)
    BY DEF StreamStep, Outcome, Stream!Next, Stream!Produce, Stream!Consume, Stream!Resolve,
           Stream!Reject, Stream!streamVars
  <1>3. IInv /\ Gapless /\ [Next]_vars => [Stream!Next]_(Stream!streamVars)
    BY <1>2, NextStreamStep
  <1> QED
    BY <1>1, <1>3, IInvHolds, GaplessHolds, PTL DEF Spec, ImplementsEventStream, Stream!Spec
=============================================================================
