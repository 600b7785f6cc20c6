----------------------- MODULE BridgeConnectionProofs -----------------------
(***************************************************************************)
(* Proofs about one connection, for any number of requests, controls and   *)
(* events and any limit of request ids.                                    *)
(*                                                                         *)
(* The client and the bridge agree on an id as long as the client is open: *)
(* an id that is awaited, or ignored until its terminal frame, has its     *)
(* frame on the way to the bridge, or a task, or its terminal frame on the *)
(* way back, and in that order; every other id has none of them.           *)
(***************************************************************************)
EXTENDS BridgeConnection, FiniteSetTheorems, TLAPS

-----------------------------------------------------------------------------
(* The inductive invariant.                                                *)

CancelIds == {CancelOf(r) : r \in Requests}

\* What the two pipes carry.
FrameToBridge ==
    [type : {"initialize"}, id : {InitId}] \cup [type : {"request"}, id : Requests]
        \cup [type : {"cancel"}, id : CancelIds] \cup [type : {"sessionWrite", "control"}, id : Controls]
        \cup [type : {"shutdown"}, id : {ShutdownId}]
FrameToClient ==
    [type : {"handshake"}, id : {InitId}] \cup [type : {"event"}, id : Spawned]
        \cup [type : {"result", "error"}, id : Ids] \cup [type : {"error"}, id : {NoId}]

\* The ids in a pipe, and those of the terminal frames in it.
IdsIn(pipe) == {pipe[i].id : i \in DOMAIN pipe}
EndedIn(pipe) == {pipe[i].id : i \in {k \in DOMAIN pipe : TerminalFrame(pipe[k])}}

\* No id occurs twice; nothing follows the terminal frame of an id.
Distinct(pipe) == \A i, j \in DOMAIN pipe : pipe[i].id = pipe[j].id => i = j
TerminalIsLast(pipe) ==
    \A i, j \in DOMAIN pipe :
        pipe[i].id \in Ids /\ TerminalFrame(pipe[i]) /\ pipe[j].id = pipe[i].id => j <= i
ShutdownIsLast(pipe) == \A i \in DOMAIN pipe : pipe[i].id = ShutdownId => i = Len(pipe)

\* The variables of the client, of the bridge, and the pipes between them.
ClientTyped ==
    /\ client \in {"new", "connecting", "ready", "closing", "closed"}
    /\ cause \in {"none", "handshake_timeout", "handshake_rejected", "uncorrelated_error", "shutdown",
                  "unknown_request", "handler_failed", "process_exited", "closed"}
    /\ record \in [Ids -> RecordState]
    /\ running \subseteq Spawned

SeenTyped ==
    /\ seen \subseteq Ids \cup {InitId} /\ IsFiniteSet(seen) /\ Cardinality(seen) <= MaxRequestIds
    /\ serve = "uninitialized" => seen = {}

BridgeTyped ==
    /\ serve \in {"uninitialized", "serving", "draining", "exited"}
    /\ tasks \in [Spawned -> {"none", "running", "finished", "panicked", "joined"}]
    /\ active \subseteq Spawned /\ cancelled \subseteq Spawned
    /\ emitted \in [Spawned -> 0..MaxEvents]
    /\ replyTo \in {NoId, ShutdownId}
    /\ serve \in {"uninitialized", "serving"} => replyTo = NoId

\* The error that reports the id limit is sent when the limit is reached.
PipesTyped ==
    /\ toBridge \in Seq(FrameToBridge) /\ toClient \in Seq(FrameToClient)
    /\ NoId \in IdsIn(toClient) => Cardinality(seen) >= MaxRequestIds

Typed == ClientTyped /\ SeenTyped /\ BridgeTyped /\ PipesTyped

\* The reply to shutdown is the last frame of a bridge that has joined everything.
Quiet == serve = "exited" /\ Joined /\ active = {}
ShutdownReplied ==
    /\ ShutdownIsLast(toClient)
    /\ ShutdownId \in IdsIn(toClient) => Quiet
    /\ record[ShutdownId] = "resolved" => client = "closed" /\ Quiet /\ toClient = <<>>

\* The client waits for the terminal frame of an id, for its caller or to ignore it.
Awaits(id) == record[id] \in {"pending", "ignored"}

\* A frame that the bridge has not read is the only trace of its id.
Fresh ==
    /\ Distinct(toBridge)
    /\ \A id \in Ids \cap IdsIn(toBridge) :
          Awaits(id) /\ id \notin IdsIn(toClient) /\ (id \in Spawned => tasks[id] = "none")
    /\ serve = "draining" /\ replyTo = ShutdownId => ShutdownId \notin IdsIn(toBridge)

\* The client awaits the frames that come, and those that may still be sent.
Expected ==
    /\ \A id \in Ids \cap IdsIn(toClient) : Awaits(id)
    /\ \A r \in Spawned : (tasks[r] = "running" => Awaits(r)) /\ (record[r] = "unused" => tasks[r] = "none")
    /\ serve = "draining" /\ replyTo = ShutdownId => Awaits(ShutdownId)

\* Nothing follows the terminal frame of an id.
LastWord ==
    /\ TerminalIsLast(toClient)
    /\ \A r \in Spawned \cap EndedIn(toClient) : tasks[r] # "running"

\* A request is cancelled once, when its caller gives it up.
CancelledOnce ==
    \A r \in Requests : record[r] \in {"unused", "pending", "queued"} => record[CancelOf(r)] = "unused"

\* Nothing but the handshake happens before the client is ready.
Handshaking ==
    /\ client \in {"new", "connecting"} => \A id \in Ids : record[id] = "unused"
    /\ client = "ready" => record[ShutdownId] = "unused"
    /\ client = "new" => toBridge = <<>> /\ toClient = <<>> /\ serve = "uninitialized"
    /\ client = "connecting" =>
          \/ serve = "uninitialized" /\ toBridge = <<Frame("initialize", InitId)>> /\ toClient = <<>>
          \/ /\ serve \in {"serving", "exited"} /\ toBridge = <<>>
             /\ toClient = <<Frame("handshake", InitId)>>
          \/ serve = "exited" /\ toBridge = <<>> /\ toClient = <<>>
    /\ client \in {"ready", "closing"} =>
          serve # "uninitialized" /\ InitId \notin IdsIn(toBridge) /\ InitId \notin IdsIn(toClient)

\* AwaitedIsAnswered, in terms of the ids.
Answered ==
    client # "closed" /\ serve = "serving" =>
        \A id \in Ids : Awaits(id) =>
            \/ id \in IdsIn(toBridge) \/ id \in EndedIn(toClient)
            \/ id \in Spawned /\ tasks[id] \in {"running", "panicked"}

Agreed ==
    client # "closed" => Fresh /\ Expected /\ LastWord /\ CancelledOnce /\ Handshaking

IInv == Typed /\ ShutdownReplied /\ Agreed /\ Answered /\ EveryFrameIsAttributed

-----------------------------------------------------------------------------
(* Ids, frames and pipes.                                                  *)

LEMMA IdNames ==
    /\ InitId \notin Ids /\ NoId \notin Ids /\ InitId # NoId
    /\ ShutdownId \in Ids /\ ShutdownId \notin Spawned /\ ShutdownId \in ControlIds
    /\ Spawned \subseteq Ids /\ Requests \subseteq Spawned /\ Controls \subseteq Spawned
    /\ ControlIds \subseteq Ids
    /\ \A r \in Requests : /\ CancelOf(r) \in CancelIds /\ CancelOf(r) \in ControlIds
                           /\ CancelOf(r) \notin Spawned /\ CancelOf(r) # ShutdownId
    /\ \A r, q \in Requests : CancelOf(r) = CancelOf(q) => r = q
    /\ CancelIds \subseteq Ids /\ CancelIds \cap Spawned = {} /\ ShutdownId \notin CancelIds
  <1>1. InitId # NoId /\ InitId # ShutdownId /\ NoId # ShutdownId
    BY DEF InitId, NoId, ShutdownId
  <1>2. \A r : CancelOf(r) # InitId /\ CancelOf(r) # NoId /\ CancelOf(r) # ShutdownId
    BY DEF CancelOf, InitId, NoId, ShutdownId
  <1>3. \A r, q : CancelOf(r) = CancelOf(q) => r = q
    BY DEF CancelOf
  <1> QED
    BY <1>1, <1>2, <1>3, ConnectionAssumption DEF Ids, ControlIds, Spawned, CancelIds

LEMMA BridgeFrames ==
    ASSUME NEW f \in FrameToBridge
    PROVE  /\ f.type = "initialize" => f.id = InitId
           /\ f.type # "initialize" => f.id \in Ids
           /\ f.type = "request" => f.id \in Requests
           /\ f.type = "cancel" => f.id \in CancelIds
           /\ f.type \in {"sessionWrite", "control"} => f.id \in Controls
           /\ f.type = "shutdown" => f.id = ShutdownId
  BY IdNames DEF FrameToBridge

LEMMA ClientFrames ==
    ASSUME NEW f \in FrameToClient
    PROVE  /\ f.id \in Ids \/ f.id = InitId \/ f.id = NoId
           /\ f.type = "event" => f.id \in Spawned
           /\ f.id = InitId => f.type = "handshake"
           /\ f.id \in Ids => f.type \in {"event", "result", "error"}
           /\ TerminalFrame(f) <=> f.type \in {"result", "error"}
  BY IdNames DEF FrameToClient, TerminalFrame

LEMMA NewFrames ==
    /\ Frame("initialize", InitId) \in FrameToBridge
    /\ \A r \in Requests : /\ Frame("request", r) \in FrameToBridge
                           /\ Frame("cancel", CancelOf(r)) \in FrameToBridge
    /\ \A c \in Controls : \A type \in {"sessionWrite", "control"} : Frame(type, c) \in FrameToBridge
    /\ Frame("shutdown", ShutdownId) \in FrameToBridge
    /\ Frame("handshake", InitId) \in FrameToClient
    /\ \A r \in Spawned : Frame("event", r) \in FrameToClient
    /\ \A id \in Ids : \A type \in {"result", "error"} : Frame(type, id) \in FrameToClient
    /\ Frame("error", NoId) \in FrameToClient
    /\ \A type, id : Frame(type, id).type = type /\ Frame(type, id).id = id
  BY IdNames DEF Frame, FrameToBridge, FrameToClient

\* A frame is written to a pipe.
LEMMA Appended ==
    ASSUME NEW S, NEW pipe \in Seq(S), NEW f \in S
    PROVE  /\ Append(pipe, f) \in Seq(S)
           /\ IdsIn(Append(pipe, f)) = IdsIn(pipe) \cup {f.id}
           /\ EndedIn(Append(pipe, f)) = EndedIn(pipe) \cup (IF TerminalFrame(f) THEN {f.id} ELSE {})
           /\ Distinct(pipe) /\ f.id \notin IdsIn(pipe) => Distinct(Append(pipe, f))
           /\ TerminalIsLast(pipe) /\ f.id \notin Ids \cap EndedIn(pipe) =>
                  TerminalIsLast(Append(pipe, f))
           /\ ShutdownIsLast(pipe) /\ ShutdownId \notin IdsIn(pipe) =>
                  ShutdownIsLast(Append(pipe, f))
  <1> DEFINE q == Append(pipe, f)
             n == Len(pipe) + 1
  <1>1. /\ q \in Seq(S) /\ Len(pipe) \in Nat /\ Len(q) = n /\ DOMAIN q = 1..n
        /\ DOMAIN pipe = 1..Len(pipe)
        /\ \A i \in DOMAIN pipe : q[i] = pipe[i]
        /\ q[n] = f
    OBVIOUS
  <1>2. /\ n \in DOMAIN q /\ DOMAIN pipe \subseteq DOMAIN q
        /\ \A i \in DOMAIN q : i = n \/ i \in DOMAIN pipe
        /\ \A i \in DOMAIN pipe : i < n /\ i \in Nat /\ n \in Nat
    BY <1>1
  <1> HIDE DEF q, n
  <1>3. IdsIn(q) = IdsIn(pipe) \cup {f.id}
    BY <1>1, <1>2 DEF IdsIn
  <1>4. EndedIn(q) = EndedIn(pipe) \cup (IF TerminalFrame(f) THEN {f.id} ELSE {})
    <2>1. ASSUME NEW id \in EndedIn(q)
          PROVE  id \in EndedIn(pipe) \/ (TerminalFrame(f) /\ id = f.id)
      <3>1. PICK i \in DOMAIN q : TerminalFrame(q[i]) /\ id = q[i].id
        BY <2>1 DEF EndedIn
      <3> QED
        BY <1>1, <1>2, <3>1 DEF EndedIn
    <2>2. EndedIn(pipe) \subseteq EndedIn(q)
      BY <1>1, <1>2 DEF EndedIn
    <2>3. TerminalFrame(f) => f.id \in EndedIn(q)
      BY <1>1, <1>2 DEF EndedIn
    <2> QED
      BY <2>1, <2>2, <2>3
  <1>5. Distinct(pipe) /\ f.id \notin IdsIn(pipe) => Distinct(q)
    BY <1>1, <1>2 DEF Distinct, IdsIn
  <1>6. TerminalIsLast(pipe) /\ f.id \notin Ids \cap EndedIn(pipe) => TerminalIsLast(q)
    <2> SUFFICES ASSUME TerminalIsLast(pipe), f.id \notin Ids \cap EndedIn(pipe),
                        NEW i \in DOMAIN q, NEW j \in DOMAIN q,
                        q[i].id \in Ids, TerminalFrame(q[i]), q[j].id = q[i].id
                 PROVE  j <= i
      BY DEF TerminalIsLast
    <2>1. CASE i = n
      BY <1>2, <2>1
    <2>2. CASE i \in DOMAIN pipe /\ j = n
      <3>1. q[i] = pipe[i] /\ q[j] = f
        BY <1>1, <2>2
      <3>2. pipe[i].id \in EndedIn(pipe)
        BY <2>2, <3>1 DEF EndedIn
      <3> QED
        BY <3>1, <3>2
    <2>3. CASE i \in DOMAIN pipe /\ j \in DOMAIN pipe
      BY <1>1, <2>3 DEF TerminalIsLast
    <2> QED
      BY <1>2, <2>1, <2>2, <2>3
  <1>7. ShutdownIsLast(pipe) /\ ShutdownId \notin IdsIn(pipe) => ShutdownIsLast(q)
    BY <1>1, <1>2 DEF ShutdownIsLast, IdsIn
  <1> QED
    BY <1>1, <1>3, <1>4, <1>5, <1>6, <1>7 DEF q

\* The first frame is taken out of a pipe.
LEMMA Taken ==
    ASSUME NEW S, NEW pipe \in Seq(S), pipe # <<>>
    PROVE  /\ Tail(pipe) \in Seq(S) /\ Head(pipe) \in S
           /\ IdsIn(pipe) = {Head(pipe).id} \cup IdsIn(Tail(pipe))
           /\ EndedIn(Tail(pipe)) \subseteq EndedIn(pipe)
           /\ TerminalFrame(Head(pipe)) => Head(pipe).id \in EndedIn(pipe)
           /\ EndedIn(pipe) \subseteq
                  EndedIn(Tail(pipe)) \cup (IF TerminalFrame(Head(pipe)) THEN {Head(pipe).id} ELSE {})
           /\ Distinct(pipe) => Distinct(Tail(pipe)) /\ Head(pipe).id \notin IdsIn(Tail(pipe))
           /\ TerminalIsLast(pipe) =>
                  /\ TerminalIsLast(Tail(pipe))
                  /\ Head(pipe).id \in Ids /\ TerminalFrame(Head(pipe)) =>
                         Head(pipe).id \notin IdsIn(Tail(pipe))
           /\ ShutdownIsLast(pipe) =>
                  /\ ShutdownIsLast(Tail(pipe))
                  /\ Head(pipe).id = ShutdownId => Tail(pipe) = <<>>
  <1> DEFINE q == Tail(pipe)
             n == Len(pipe)
             f == Head(pipe)
  <1>1. /\ q \in Seq(S) /\ f \in S /\ n \in Nat /\ n >= 1 /\ DOMAIN pipe = 1..n
        /\ Len(q) = n - 1 /\ DOMAIN q = 1..(n - 1)
        /\ \A i \in DOMAIN q : q[i] = pipe[i + 1]
        /\ f = pipe[1]
    OBVIOUS
  <1>2. /\ 1 \in DOMAIN pipe
        /\ \A i \in DOMAIN q : i + 1 \in DOMAIN pipe /\ i \in Nat /\ i + 1 # 1 /\ i + 1 > 1
        /\ \A i \in DOMAIN pipe : i = 1 \/ (i - 1 \in DOMAIN q /\ (i - 1) + 1 = i)
        /\ \A i, j \in DOMAIN q : (i + 1 = j + 1 => i = j) /\ (j + 1 <= i + 1 => j <= i)
    BY <1>1
  <1>3. \A i \in DOMAIN pipe : i = 1 \/ \E j \in DOMAIN q : q[j] = pipe[i] /\ j + 1 = i
    <2> SUFFICES ASSUME NEW i \in DOMAIN pipe, i # 1
                 PROVE  \E j \in DOMAIN q : q[j] = pipe[i] /\ j + 1 = i
      OBVIOUS
    <2>1. i - 1 \in DOMAIN q /\ (i - 1) + 1 = i
      BY <1>2
    <2> HIDE DEF q
    <2>2. q[i - 1] = pipe[i]
      BY <1>1, <2>1
    <2> QED
      BY <2>1, <2>2
  <1>4. n = 1 => q = <<>>
    BY <1>1
  <1> HIDE DEF q, f
  <1>5. IdsIn(pipe) = {f.id} \cup IdsIn(q)
    <2>1. ASSUME NEW id \in IdsIn(pipe) PROVE id \in {f.id} \cup IdsIn(q)
      <3>1. PICK i \in DOMAIN pipe : id = pipe[i].id
        BY <2>1 DEF IdsIn
      <3> QED
        BY <1>1, <1>3, <3>1 DEF IdsIn
    <2>2. f.id \in IdsIn(pipe)
      BY <1>1, <1>2 DEF IdsIn
    <2>3. ASSUME NEW id \in IdsIn(q) PROVE id \in IdsIn(pipe)
      <3>1. PICK i \in DOMAIN q : id = q[i].id
        BY <2>3 DEF IdsIn
      <3> QED
        BY <1>1, <1>2, <3>1 DEF IdsIn
    <2> QED
      BY <2>1, <2>2, <2>3
  <1>6. EndedIn(q) \subseteq EndedIn(pipe)
    <2> SUFFICES ASSUME NEW id \in EndedIn(q) PROVE id \in EndedIn(pipe)
      OBVIOUS
    <2>1. PICK i \in DOMAIN q : TerminalFrame(q[i]) /\ id = q[i].id
      BY DEF EndedIn
    <2> QED
      BY <1>1, <1>2, <2>1 DEF EndedIn
  <1>7. TerminalFrame(f) => f.id \in EndedIn(pipe)
    BY <1>1, <1>2 DEF EndedIn
  <1>8. EndedIn(pipe) \subseteq EndedIn(q) \cup (IF TerminalFrame(f) THEN {f.id} ELSE {})
    <2> SUFFICES ASSUME NEW id \in EndedIn(pipe)
                 PROVE  id \in EndedIn(q) \/ (TerminalFrame(f) /\ id = f.id)
      OBVIOUS
    <2>1. PICK i \in DOMAIN pipe : TerminalFrame(pipe[i]) /\ id = pipe[i].id
      BY DEF EndedIn
    <2>2. CASE i = 1
      BY <1>1, <2>1, <2>2
    <2>3. CASE i # 1
      <3>1. PICK j \in DOMAIN q : q[j] = pipe[i]
        BY <1>3, <2>3
      <3> QED
        BY <2>1, <3>1 DEF EndedIn
    <2> QED
      BY <2>2, <2>3
  <1>9. Distinct(pipe) => Distinct(q) /\ f.id \notin IdsIn(q)
    <2> SUFFICES ASSUME Distinct(pipe) PROVE Distinct(q) /\ f.id \notin IdsIn(q)
      OBVIOUS
    <2>1. Distinct(q)
      BY <1>1, <1>2 DEF Distinct
    <2>2. ASSUME NEW i \in DOMAIN q, q[i].id = f.id PROVE FALSE
      BY <1>1, <1>2, <2>2 DEF Distinct
    <2> QED
      BY <2>1, <2>2 DEF IdsIn
  <1>10. TerminalIsLast(pipe) =>
            TerminalIsLast(q) /\ (f.id \in Ids /\ TerminalFrame(f) => f.id \notin IdsIn(q))
    <2> SUFFICES ASSUME TerminalIsLast(pipe)
                 PROVE  TerminalIsLast(q) /\ (f.id \in Ids /\ TerminalFrame(f) => f.id \notin IdsIn(q))
      OBVIOUS
    <2>1. TerminalIsLast(q)
      BY <1>1, <1>2 DEF TerminalIsLast
    <2>2. ASSUME f.id \in Ids, TerminalFrame(f), NEW i \in DOMAIN q, q[i].id = f.id PROVE FALSE
      <3>1. i + 1 <= 1
        BY <1>1, <1>2, <2>2 DEF TerminalIsLast
      <3> QED
        BY <1>2, <3>1
    <2> QED
      BY <2>1, <2>2 DEF IdsIn
  <1>11. ShutdownIsLast(pipe) => ShutdownIsLast(q) /\ (f.id = ShutdownId => q = <<>>)
    <2> SUFFICES ASSUME ShutdownIsLast(pipe)
                 PROVE  ShutdownIsLast(q) /\ (f.id = ShutdownId => q = <<>>)
      OBVIOUS
    <2>1. ASSUME NEW i \in DOMAIN q, q[i].id = ShutdownId PROVE i = Len(q)
      <3>1. i + 1 = n
        BY <1>1, <1>2, <2>1 DEF ShutdownIsLast
      <3> QED
        BY <1>1, <1>2, <3>1
    <2>2. f.id = ShutdownId => n = 1
      BY <1>1, <1>2 DEF ShutdownIsLast
    <2> QED
      BY <1>4, <2>1, <2>2 DEF ShutdownIsLast
  <1> QED
    BY <1>1, <1>5, <1>6, <1>7, <1>8, <1>9, <1>10, <1>11 DEF q, f

LEMMA EmptyPipe ==
    /\ \A S : <<>> \in Seq(S)
    /\ IdsIn(<<>>) = {} /\ EndedIn(<<>>) = {}
    /\ Distinct(<<>>) /\ TerminalIsLast(<<>>) /\ ShutdownIsLast(<<>>)
  BY DEF IdsIn, EndedIn, Distinct, TerminalIsLast, ShutdownIsLast

LEMMA EndedAreIn == \A pipe : EndedIn(pipe) \subseteq IdsIn(pipe)
  BY DEF EndedIn, IdsIn

-----------------------------------------------------------------------------
(* The initial state, and what the invariant says of the properties.       *)

LEMMA TypedIsTypeOK == Typed => TypeOK
  <1> SUFFICES ASSUME Typed PROVE TypeOK
    OBVIOUS
  <1>1. ASSUME NEW i \in DOMAIN toBridge PROVE toBridge[i].id \in Ids \cup {InitId}
    <2>1. toBridge[i] \in FrameToBridge
      BY <1>1 DEF Typed, PipesTyped
    <2> QED
      BY <2>1, BridgeFrames
  <1>2. ASSUME NEW i \in DOMAIN toClient PROVE toClient[i].id \in Ids \cup {InitId, NoId}
    <2>1. toClient[i] \in FrameToClient
      BY <1>2 DEF Typed, PipesTyped
    <2> QED
      BY <2>1, ClientFrames
  <1> QED
    BY <1>1, <1>2 DEF Typed, ClientTyped, SeenTyped, BridgeTyped, TypeOK

LEMMA AnsweredIsAwaited == Typed /\ Answered => AwaitedIsAnswered
  <1> SUFFICES ASSUME Typed, Answered, NEW id \in Ids,
                      record[id] \in {"pending", "ignored"}, Open, serve = "serving"
               PROVE  \/ \E i \in DOMAIN toBridge : toBridge[i].id = id
                      \/ \E i \in DOMAIN toClient :
                            toClient[i].id = id /\ toClient[i].type \in {"result", "error"}
                      \/ id \in Spawned /\ tasks[id] \in {"running", "panicked"}
    BY DEF AwaitedIsAnswered
  <1>1. \/ id \in IdsIn(toBridge) \/ id \in EndedIn(toClient)
        \/ id \in Spawned /\ tasks[id] \in {"running", "panicked"}
    BY DEF Answered, Awaits, Open
  <1>2. id \in IdsIn(toBridge) => \E i \in DOMAIN toBridge : toBridge[i].id = id
    BY DEF IdsIn
  <1>3. id \in EndedIn(toClient) =>
            \E i \in DOMAIN toClient : toClient[i].id = id /\ toClient[i].type \in {"result", "error"}
    BY DEF EndedIn, TerminalFrame
  <1> QED
    BY <1>1, <1>2, <1>3

LEMMA IInvIsEnough == IInv => FramesAreAttributed /\ ShutdownQuiesces
  <1> SUFFICES ASSUME IInv PROVE FramesAreAttributed /\ ShutdownQuiesces
    OBVIOUS
  <1>1. FramesAreAttributed
    BY TypedIsTypeOK, AnsweredIsAwaited DEF IInv, FramesAreAttributed
  <1>2. ShutdownQuiesces
    BY DEF IInv, ShutdownReplied, Quiet, ShutdownQuiesces
  <1> QED
    BY <1>1, <1>2

LEMMA InitIInv == Init => IInv
  <1> SUFFICES ASSUME Init PROVE IInv
    OBVIOUS
  <1>1. Typed
    <2>1. ClientTyped /\ BridgeTyped
      BY ConnectionAssumption DEF Init, ClientTyped, BridgeTyped, RecordState
    <2>2. SeenTyped
      BY FS_EmptySet, ConnectionAssumption DEF Init, SeenTyped
    <2>3. PipesTyped
      BY EmptyPipe DEF Init, PipesTyped
    <2> QED
      BY <2>1, <2>2, <2>3 DEF Typed
  <1>2. ShutdownReplied
    BY EmptyPipe, IdNames DEF Init, ShutdownReplied
  <1>3. Fresh /\ Expected /\ LastWord
    BY EmptyPipe, IdNames DEF Init, Fresh, Expected, LastWord, Awaits
  <1>4. CancelledOnce
    BY IdNames DEF Init, CancelledOnce
  <1>5. Handshaking
    BY DEF Init, Handshaking
  <1>6. Answered /\ EveryFrameIsAttributed
    BY DEF Init, Answered, EveryFrameIsAttributed
  <1> QED
    BY <1>1, <1>2, <1>3, <1>4, <1>5, <1>6 DEF IInv, Agreed

-----------------------------------------------------------------------------
(* What a step of the bridge does to the pipes.                            *)

\* The bridge sends a frame, and the client is still reading.
LEMMA Sent ==
    ASSUME Typed, client # "closed", NEW f \in FrameToClient, Send(f)
    PROVE  /\ toClient' \in Seq(FrameToClient)
           /\ IdsIn(toClient') = IdsIn(toClient) \cup {f.id}
           /\ EndedIn(toClient') = EndedIn(toClient) \cup (IF TerminalFrame(f) THEN {f.id} ELSE {})
           /\ TerminalIsLast(toClient) /\ f.id \notin Ids \cap EndedIn(toClient) =>
                  TerminalIsLast(toClient')
           /\ ShutdownIsLast(toClient) /\ ShutdownId \notin IdsIn(toClient) =>
                  ShutdownIsLast(toClient')
  <1>1. toClient \in Seq(FrameToClient) /\ toClient' = Append(toClient, f)
    BY DEF Typed, PipesTyped, Send
  <1> QED
    BY <1>1, Appended

\* The bridge reads a frame.
LEMMA Read ==
    ASSUME Typed, NEW type, Reads(type)
    PROVE  /\ toBridge' \in Seq(FrameToBridge) /\ Head(toBridge) \in FrameToBridge
           /\ Head(toBridge).type = type
           /\ IdsIn(toBridge) = {Head(toBridge).id} \cup IdsIn(toBridge')
           /\ Distinct(toBridge) => Distinct(toBridge') /\ Head(toBridge).id \notin IdsIn(toBridge')
           /\ serve = IF type = "initialize" THEN "uninitialized" ELSE "serving"
  <1>1. toBridge \in Seq(FrameToBridge) /\ toBridge # <<>> /\ toBridge' = Tail(toBridge)
    BY DEF Typed, PipesTyped, Reads
  <1>2. Head(toBridge).type = type /\ serve = IF type = "initialize" THEN "uninitialized" ELSE "serving"
    BY DEF Reads
  <1> QED
    BY <1>1, <1>2, Taken

\* A step of a bridge that runs, which answers shutdown only when it is quiet.
LEMMA StillShutdownReplied ==
    ASSUME Typed, ShutdownReplied, serve # "exited", UNCHANGED <<client, record>>,
           \/ toClient' = toClient
           \/ \E f \in FrameToClient : Send(f) /\ (f.id = ShutdownId => Quiet')
    PROVE  ShutdownReplied'
  <1>1. ShutdownId \notin IdsIn(toClient) /\ record[ShutdownId] # "resolved" /\ ShutdownIsLast(toClient)
    BY DEF ShutdownReplied, Quiet
  <1>2. CASE toClient' = toClient
    BY <1>1, <1>2 DEF ShutdownReplied
  <1>3. ASSUME NEW f \in FrameToClient, Send(f), f.id = ShutdownId => Quiet'
        PROVE  ShutdownReplied'
    <2>1. CASE client = "closed"
      BY <1>1, <1>2, <1>3, <2>1 DEF Send
    <2>2. CASE client # "closed"
      <3>1. ShutdownIsLast(toClient') /\ IdsIn(toClient') = IdsIn(toClient) \cup {f.id}
        BY <1>1, <1>3, <2>2, Sent
      <3> QED
        BY <1>1, <1>3, <3>1 DEF ShutdownReplied
    <2> QED
      BY <2>1, <2>2
  <1> QED
    BY <1>2, <1>3

\* The handshake is over, and a frame is read: it starts a task, or is answered,
\* or is the shutdown request, whose reply is still owed.
LEMMA ReadStep ==
    ASSUME IInv, client # "closed", UNCHANGED clientVars,
           NEW type, type # "initialize", Reads(type),
           \/ /\ Head(toBridge).id \in Spawned
              /\ tasks' = [tasks EXCEPT ![Head(toBridge).id] = "running"]
              /\ UNCHANGED <<toClient, serve, replyTo>>
           \/ /\ \E f \in FrameToClient : f.id = Head(toBridge).id /\ TerminalFrame(f) /\ Send(f)
              /\ UNCHANGED <<tasks, serve, replyTo>>
           \/ /\ Head(toBridge).id = ShutdownId /\ serve' = "draining"
              /\ UNCHANGED <<toClient, tasks>>
    PROVE  Agreed' /\ Answered'
  <1> DEFINE id == Head(toBridge).id
  <1>1. /\ Typed /\ ShutdownReplied /\ Fresh /\ Expected /\ LastWord /\ CancelledOnce /\ Handshaking
        /\ Answered
    BY DEF IInv, Agreed
  <1>2. /\ IdsIn(toBridge) = {id} \cup IdsIn(toBridge') /\ id \in Ids /\ serve = "serving"
        /\ Distinct(toBridge') /\ id \notin IdsIn(toBridge') /\ toBridge # <<>>
    BY <1>1, Read, BridgeFrames DEF Fresh, Reads
  <1>3. Awaits(id) /\ id \notin IdsIn(toClient) /\ (id \in Spawned => tasks[id] = "none")
    BY <1>1, <1>2 DEF Fresh
  <1>4. client \in {"ready", "closing"}
    BY <1>1, <1>2 DEF Handshaking, Typed, ClientTyped
  <1>5. \A i \in Ids : Awaits(i)' <=> Awaits(i)
    BY DEF Awaits, clientVars
  <1>6. CancelledOnce'
    BY <1>1 DEF CancelledOnce, clientVars
  <1> HIDE DEF id
  <1>7. CASE id \in Spawned /\ tasks' = [tasks EXCEPT ![id] = "running"]
                /\ UNCHANGED <<toClient, serve, replyTo>>
    <2>1. /\ tasks'[id] = "running" /\ \A r \in Spawned \ {id} : tasks'[r] = tasks[r]
          /\ toClient' = toClient
      BY <1>1, <1>7 DEF Typed, BridgeTyped
    <2>2. Fresh'
      BY <1>1, <1>2, <1>5, <1>7, <2>1 DEF Fresh
    <2>3. Expected'
      BY <1>1, <1>2, <1>3, <1>5, <1>7, <2>1 DEF Expected, Awaits, clientVars
    <2>4. LastWord'
      BY <1>1, <1>3, <2>1, EndedAreIn DEF LastWord
    <2>5. Handshaking'
      BY <1>1, <1>2, <1>4, <1>7, <2>1 DEF Handshaking, clientVars
    <2>6. Answered'
      BY <1>1, <1>2, <1>5, <1>7, <2>1 DEF Answered, clientVars
    <2> QED
      BY <1>6, <2>2, <2>3, <2>4, <2>5, <2>6 DEF Agreed
  <1>8. ASSUME NEW f \in FrameToClient, f.id = id, TerminalFrame(f), Send(f),
               UNCHANGED <<tasks, serve, replyTo>>
        PROVE  Agreed' /\ Answered'
    <2>1. /\ IdsIn(toClient') = IdsIn(toClient) \cup {id}
          /\ EndedIn(toClient') = EndedIn(toClient) \cup {id}
          /\ TerminalIsLast(toClient')
      BY <1>1, <1>3, <1>8, Sent, EndedAreIn DEF LastWord
    <2>2. Fresh'
      BY <1>1, <1>2, <1>5, <1>8, <2>1 DEF Fresh
    <2>3. Expected'
      BY <1>1, <1>2, <1>3, <1>5, <1>8, <2>1 DEF Expected, Awaits, clientVars
    <2>4. LastWord'
      BY <1>1, <1>3, <1>8, <2>1 DEF LastWord
    <2>5. Handshaking'
      BY <1>1, <1>2, <1>4, <1>8, <2>1, IdNames DEF Handshaking, clientVars
    <2>6. Answered'
      BY <1>1, <1>2, <1>5, <1>8, <2>1 DEF Answered, clientVars
    <2> QED
      BY <1>6, <2>2, <2>3, <2>4, <2>5, <2>6 DEF Agreed
  <1>9. CASE id = ShutdownId /\ serve' = "draining" /\ UNCHANGED <<toClient, tasks>>
    <2>1. Fresh'
      BY <1>1, <1>2, <1>5, <1>9 DEF Fresh
    <2>2. Expected'
      BY <1>1, <1>2, <1>3, <1>5, <1>9, IdNames DEF Expected, clientVars
    <2>3. LastWord'
      BY <1>1, <1>9 DEF LastWord
    <2>4. Handshaking'
      BY <1>1, <1>2, <1>4, <1>9 DEF Handshaking, clientVars
    <2>5. Answered'
      BY <1>9 DEF Answered
    <2> QED
      BY <1>6, <2>1, <2>2, <2>3, <2>4, <2>5 DEF Agreed
  <1> QED
    BY <1>7, <1>8, <1>9 DEF id

\* A step of the bridge that reads nothing: a running task may send a frame or
\* end, and tasks that ended are joined.
LEMMA TaskStep ==
    ASSUME IInv, client # "closed", UNCHANGED <<clientVars, toBridge, serve, replyTo>>, serve # "exited",
           NEW r \in Spawned, tasks' \in [Spawned -> {"none", "running", "finished", "panicked", "joined"}],
           \A q \in Spawned \ {r} : tasks'[q] = tasks[q],
           \/ /\ tasks[r] = "running"
              /\ \/ tasks' = tasks /\ Send(Frame("event", r))
                 \/ /\ tasks'[r] = "finished"
                    /\ \E type \in {"result", "error"} : Send(Frame(type, r))
                 \/ tasks'[r] = "panicked" /\ UNCHANGED toClient
           \/ tasks[r] = "finished" /\ tasks'[r] = "joined" /\ UNCHANGED toClient
    PROVE  Agreed' /\ Answered'
  <1>1. /\ Typed /\ ShutdownReplied /\ Fresh /\ Expected /\ LastWord /\ CancelledOnce /\ Handshaking
        /\ Answered
    BY DEF IInv, Agreed
  <1>2. \A i \in Ids : Awaits(i)' <=> Awaits(i)
    BY DEF Awaits, clientVars
  <1>3. CancelledOnce' /\ r \in Ids /\ r # InitId /\ r # NoId
    BY <1>1, IdNames DEF CancelledOnce, clientVars
  <1>4. r \notin IdsIn(toBridge)
    BY <1>1, <1>3 DEF Fresh
  <1>5. CASE UNCHANGED toClient /\ tasks'[r] \in {"panicked", "joined"}
                /\ (tasks'[r] = "joined" => tasks[r] = "finished")
                /\ (tasks[r] = "running" \/ tasks[r] = "finished")
    <2>1. Fresh'
      BY <1>1, <1>2, <1>4, <1>5 DEF Fresh
    <2>2. Expected'
      BY <1>1, <1>2, <1>5, IdNames DEF Expected, clientVars
    <2>3. LastWord'
      BY <1>1, <1>5 DEF LastWord
    <2>4. Handshaking'
      BY <1>1, <1>5 DEF Handshaking, clientVars
    <2>5. Answered'
      BY <1>1, <1>2, <1>5 DEF Answered, clientVars
    <2> QED
      BY <1>3, <2>1, <2>2, <2>3, <2>4, <2>5 DEF Agreed
  <1>6. ASSUME tasks[r] = "running", NEW f \in FrameToClient, f.id = r, Send(f),
               \/ ~TerminalFrame(f) /\ tasks' = tasks
               \/ TerminalFrame(f) /\ tasks'[r] = "finished"
        PROVE  Agreed' /\ Answered'
    <2>1. r \notin EndedIn(toClient) /\ Awaits(r)
      BY <1>1, <1>6 DEF LastWord, Expected
    <2>2. /\ IdsIn(toClient') = IdsIn(toClient) \cup {r}
          /\ EndedIn(toClient') = EndedIn(toClient) \cup (IF TerminalFrame(f) THEN {r} ELSE {})
          /\ TerminalIsLast(toClient')
      BY <1>1, <1>6, <2>1, Sent DEF LastWord
    <2>3. Fresh'
      BY <1>1, <1>2, <1>4, <1>6, <2>2 DEF Fresh
    <2>4. Expected'
      <3>1. \A id \in Ids \cap IdsIn(toClient') : Awaits(id)'
        BY <1>1, <1>2, <1>3, <2>1, <2>2 DEF Expected
      <3>2. \A q \in Spawned : (tasks'[q] = "running" => tasks[q] = "running")
        BY <1>6
      <3>3. \A q \in Spawned : (record'[q] = "unused" => record[q] = "unused" /\ tasks[q] = "none")
        BY <1>1 DEF Expected, clientVars
      <3>4. \A q \in Spawned : tasks[q] = "none" => tasks'[q] = "none"
        BY <1>6
      <3>5. Spawned \subseteq Ids /\ ShutdownId \in Ids
        BY IdNames
      <3> QED
        BY <1>1, <1>2, <3>1, <3>2, <3>3, <3>4, <3>5 DEF Expected
    <2>5. LastWord'
      BY <1>1, <1>6, <2>1, <2>2 DEF LastWord
    <2>6. client \in {"ready", "closing"}
      BY <1>1, <1>3, <2>1 DEF Handshaking, Typed, ClientTyped, Awaits
    <2>7. Handshaking'
      BY <1>1, <1>3, <2>2, <2>6 DEF Handshaking, clientVars
    <2>8. Answered'
      BY <1>1, <1>2, <1>6, <2>2 DEF Answered, clientVars
    <2> QED
      BY <1>3, <2>3, <2>4, <2>5, <2>7, <2>8 DEF Agreed
  <1>7. /\ Frame("event", r) \in FrameToClient /\ Frame("event", r).id = r
        /\ ~TerminalFrame(Frame("event", r))
        /\ \A type \in {"result", "error"} : /\ Frame(type, r) \in FrameToClient
                                             /\ Frame(type, r).id = r /\ TerminalFrame(Frame(type, r))
    BY <1>3, NewFrames DEF TerminalFrame
  <1> QED
    BY <1>5, <1>6, <1>7

-----------------------------------------------------------------------------
(* The steps of the bridge.                                                *)

\* What a step of the bridge shows about the invariant as a whole.
LEMMA BridgeKeeps ==
    ASSUME IInv, serve # "exited", UNCHANGED clientVars,
           SeenTyped', BridgeTyped', PipesTyped',
           Cardinality(seen) >= MaxRequestIds => Cardinality(seen') >= MaxRequestIds,
           \/ toClient' = toClient
           \/ \E f \in FrameToClient : Send(f) /\ (f.id = ShutdownId => Quiet'),
           client # "closed" => Agreed' /\ Answered'
    PROVE  IInv'
  <1>1. Typed /\ ShutdownReplied /\ EveryFrameIsAttributed
    BY DEF IInv
  <1>2. Typed'
    BY <1>1 DEF Typed, ClientTyped, clientVars
  <1>3. ShutdownReplied'
    BY <1>1, StillShutdownReplied DEF clientVars
  <1>4. EveryFrameIsAttributed'
    BY <1>1 DEF EveryFrameIsAttributed, clientVars
  <1>5. Agreed' /\ Answered'
    BY DEF Agreed, Answered, clientVars
  <1> QED
    BY <1>2, <1>3, <1>4, <1>5 DEF IInv

\* Reading a frame within the limit uses up one id.
LEMMA OneMoreSeen ==
    ASSUME IInv, WithinLimit, serve = "serving", serve' # "uninitialized",
           NEW id \in Ids \cup {InitId}, seen' = seen \cup {id}
    PROVE  SeenTyped' /\ Cardinality(seen) < MaxRequestIds /\ Cardinality(seen) \in Nat
  <1>1. SeenTyped
    BY DEF IInv, Typed
  <1>2. IsFiniteSet(seen') /\ Cardinality(seen') \in {Cardinality(seen), Cardinality(seen) + 1}
    BY <1>1, FS_AddElement DEF SeenTyped
  <1>3. Cardinality(seen) \in Nat /\ Cardinality(seen') \in Nat
    BY <1>1, <1>2, FS_CardinalityType DEF SeenTyped
  <1>4. Cardinality(seen') <= MaxRequestIds /\ Cardinality(seen) < MaxRequestIds
    BY <1>2, <1>3, ConnectionAssumption DEF WithinLimit
  <1> QED
    BY <1>1, <1>2, <1>3, <1>4 DEF SeenTyped

\* The pipes are typed after a frame was read and, perhaps, another one sent.
LEMMA PipesStayTyped ==
    ASSUME IInv, Cardinality(seen) >= MaxRequestIds => Cardinality(seen') >= MaxRequestIds,
           toBridge' \in Seq(FrameToBridge),
           \/ toClient' = toClient
           \/ \E f \in FrameToClient :
                 Send(f) /\ (f.id = NoId => Cardinality(seen') >= MaxRequestIds)
    PROVE  PipesTyped'
  <1>1. Typed /\ PipesTyped
    BY DEF IInv, Typed
  <1>2. CASE toClient' = toClient
    BY <1>1, <1>2 DEF PipesTyped
  <1>3. ASSUME NEW f \in FrameToClient, Send(f), f.id = NoId => Cardinality(seen') >= MaxRequestIds
        PROVE  PipesTyped'
    <2>1. CASE client = "closed"
      BY <1>2, <1>3, <2>1 DEF Send
    <2>2. CASE client # "closed"
      <3>1. toClient' \in Seq(FrameToClient) /\ IdsIn(toClient') = IdsIn(toClient) \cup {f.id}
        BY <1>1, <1>3, <2>2, Sent
      <3> QED
        BY <1>1, <1>3, <3>1 DEF PipesTyped
    <2> QED
      BY <2>1, <2>2
  <1> QED
    BY <1>2, <1>3

LEMMA StartRequestKeeps == IInv /\ StartRequest => IInv'
  <1> SUFFICES ASSUME IInv, StartRequest PROVE IInv'
    OBVIOUS
  <1> DEFINE id == Head(toBridge).id
  <1>1. Typed /\ BridgeTyped
    BY DEF IInv, Typed
  <1>2. /\ Reads("request") /\ WithinLimit /\ UNCHANGED clientVars
        /\ seen' = seen \cup {id} /\ active' = active \cup {id}
        /\ tasks' = [tasks EXCEPT ![id] = "running"]
        /\ UNCHANGED <<serve, cancelled, emitted, replyTo, toClient>>
    BY DEF StartRequest
  <1>3. id \in Spawned /\ id \in Ids /\ serve = "serving" /\ toBridge' \in Seq(FrameToBridge)
    BY <1>1, <1>2, Read, BridgeFrames, IdNames
  <1> HIDE DEF id
  <1>4. SeenTyped' /\ ~(Cardinality(seen) >= MaxRequestIds)
    BY <1>2, <1>3, OneMoreSeen, ConnectionAssumption
  <1>5. BridgeTyped'
    BY <1>1, <1>2, <1>3 DEF BridgeTyped
  <1>6. PipesTyped'
    BY <1>2, <1>3, <1>4, PipesStayTyped
  <1>7. client # "closed" => Agreed' /\ Answered'
    BY <1>2, <1>3, ReadStep DEF id
  <1> QED
    BY <1>2, <1>3, <1>4, <1>5, <1>6, <1>7, BridgeKeeps

LEMMA WriteSessionKeeps == IInv /\ WriteSession => IInv'
  <1> SUFFICES ASSUME IInv, WriteSession PROVE IInv'
    OBVIOUS
  <1> DEFINE id == Head(toBridge).id
  <1>1. Typed /\ BridgeTyped
    BY DEF IInv, Typed
  <1>2. /\ Reads("sessionWrite") /\ WithinLimit /\ UNCHANGED clientVars
        /\ seen' = seen \cup {id}
        /\ UNCHANGED <<serve, cancelled, emitted, replyTo>>
        /\ \/ (\E type \in {"result", "error"} : Send(Frame(type, id))) /\ UNCHANGED <<active, tasks>>
           \/ /\ active' = active \cup {id} /\ tasks' = [tasks EXCEPT ![id] = "running"]
              /\ UNCHANGED toClient
    BY DEF WriteSession
  <1>3. id \in Spawned /\ id \in Ids /\ serve = "serving" /\ toBridge' \in Seq(FrameToBridge)
    BY <1>1, <1>2, Read, BridgeFrames, IdNames
  <1> HIDE DEF id
  <1>4. SeenTyped' /\ ~(Cardinality(seen) >= MaxRequestIds)
    BY <1>2, <1>3, OneMoreSeen, ConnectionAssumption
  <1>5. BridgeTyped'
    BY <1>1, <1>2, <1>3 DEF BridgeTyped
  <1>6. \/ toClient' = toClient /\ tasks' = [tasks EXCEPT ![id] = "running"]
        \/ /\ \E f \in FrameToClient : f.id = id /\ TerminalFrame(f) /\ Send(f)
           /\ UNCHANGED tasks
    BY <1>2, <1>3, NewFrames DEF TerminalFrame
  <1>7. id # NoId /\ id # ShutdownId
    BY <1>3, IdNames
  <1>8. \/ toClient' = toClient
        \/ \E f \in FrameToClient : Send(f) /\ f.id # NoId /\ f.id # ShutdownId
    BY <1>6, <1>7
  <1>9. PipesTyped'
    BY <1>3, <1>4, <1>8, PipesStayTyped
  <1>10. client # "closed" => Agreed' /\ Answered'
    BY <1>2, <1>3, <1>6, ReadStep DEF id
  <1> QED
    BY <1>2, <1>3, <1>4, <1>5, <1>8, <1>9, <1>10, BridgeKeeps

\* CancelRequest and ControlRequest answer at once.
LEMMA AnswerKeeps ==
    ASSUME IInv, NEW type, type # "initialize", type # "shutdown", Reads(type), WithinLimit,
           UNCHANGED <<clientVars, serve, tasks, active, emitted, replyTo>>, cancelled' \subseteq Spawned,
           seen' = seen \cup {Head(toBridge).id},
           \E answer \in {"result", "error"} : Send(Frame(answer, Head(toBridge).id))
    PROVE  IInv'
  <1> DEFINE id == Head(toBridge).id
  <1>1. Typed /\ BridgeTyped
    BY DEF IInv, Typed
  <1>2. id \in Ids /\ id # ShutdownId /\ serve = "serving" /\ toBridge' \in Seq(FrameToBridge)
    <2>1. Head(toBridge) \in FrameToBridge /\ Head(toBridge).type = type
      BY <1>1, Read
    <2>2. id \in Requests \/ id \in CancelIds \/ id \in Controls
      BY <2>1 DEF FrameToBridge
    <2> QED
      BY <1>1, <2>2, Read, IdNames
  <1> HIDE DEF id
  <1>3. SeenTyped' /\ ~(Cardinality(seen) >= MaxRequestIds)
    BY <1>2, OneMoreSeen, ConnectionAssumption DEF id
  <1>4. BridgeTyped'
    BY <1>1, <1>2 DEF BridgeTyped
  <1>5. \E f \in FrameToClient : f.id = id /\ TerminalFrame(f) /\ Send(f)
    BY <1>2, NewFrames DEF TerminalFrame, id
  <1>6. \E f \in FrameToClient : Send(f) /\ f.id # NoId /\ f.id # ShutdownId
    BY <1>2, <1>5, IdNames
  <1>7. PipesTyped'
    BY <1>2, <1>3, <1>6, PipesStayTyped
  <1>8. client # "closed" => Agreed' /\ Answered'
    BY <1>2, <1>5, ReadStep DEF id
  <1> QED
    BY <1>2, <1>3, <1>4, <1>6, <1>7, <1>8, BridgeKeeps

LEMMA CancelRequestKeeps == IInv /\ CancelRequest => IInv'
  <1> SUFFICES ASSUME IInv, CancelRequest PROVE IInv'
    OBVIOUS
  <1>1. active \subseteq Spawned /\ cancelled \subseteq Spawned
    BY DEF IInv, Typed, BridgeTyped
  <1>2. /\ Reads("cancel") /\ WithinLimit
        /\ UNCHANGED <<clientVars, serve, tasks, active, emitted, replyTo>>
        /\ seen' = seen \cup {Head(toBridge).id}
        /\ \E answer \in {"result", "error"} : Send(Frame(answer, Head(toBridge).id))
    BY DEF CancelRequest
  <1>3. cancelled' \subseteq Spawned
    BY <1>1 DEF CancelRequest
  <1> QED
    BY <1>2, <1>3, AnswerKeeps

LEMMA ControlRequestKeeps == IInv /\ ControlRequest => IInv'
  <1> SUFFICES ASSUME IInv, ControlRequest PROVE IInv'
    OBVIOUS
  <1>1. /\ Reads("control") /\ WithinLimit
        /\ UNCHANGED <<clientVars, serve, tasks, active, emitted, replyTo>>
        /\ seen' = seen \cup {Head(toBridge).id}
        /\ \E answer \in {"result", "error"} : Send(Frame(answer, Head(toBridge).id))
    BY DEF ControlRequest
  <1>2. cancelled' \subseteq Spawned
    BY DEF ControlRequest, IInv, Typed, BridgeTyped
  <1> QED
    BY <1>1, <1>2, AnswerKeeps

LEMMA InitializeKeeps == IInv /\ Initialize => IInv'
  <1> SUFFICES ASSUME IInv, Initialize PROVE IInv'
    OBVIOUS
  <1> DEFINE f == Frame("handshake", InitId)
  <1>1. Typed /\ SeenTyped /\ BridgeTyped
    BY DEF IInv, Typed
  <1>2. /\ Reads("initialize") /\ serve' = "serving" /\ seen' = seen \cup {InitId} /\ Send(f)
        /\ UNCHANGED <<tasks, active, cancelled, emitted, replyTo, clientVars>>
    BY DEF Initialize
  <1>3. serve = "uninitialized" /\ toBridge' \in Seq(FrameToBridge) /\ toBridge # <<>>
    BY <1>1, <1>2, Read DEF Reads
  <1>4. SeenTyped' /\ Cardinality(seen) = 0
    <2>1. seen = {} /\ seen' = {InitId}
      BY <1>1, <1>2, <1>3 DEF SeenTyped
    <2>2. Cardinality({}) = 0 /\ IsFiniteSet({InitId}) /\ Cardinality({InitId}) = 1
      BY FS_EmptySet, FS_Singleton
    <2> QED
      BY <1>2, <2>1, <2>2, ConnectionAssumption DEF SeenTyped
  <1>5. ~(Cardinality(seen) >= MaxRequestIds)
    BY <1>4, ConnectionAssumption
  <1>6. BridgeTyped'
    BY <1>1, <1>2, <1>3 DEF BridgeTyped
  <1>7. f \in FrameToClient /\ f.id = InitId /\ ~TerminalFrame(f) /\ InitId # NoId /\ InitId # ShutdownId
    BY NewFrames, IdNames DEF TerminalFrame
  <1>8. ASSUME client # "closed" PROVE Agreed' /\ Answered'
    <2>1. Fresh /\ Expected /\ LastWord /\ CancelledOnce /\ Handshaking
      BY <1>8 DEF IInv, Agreed
    <2>2. /\ client = "connecting" /\ toBridge = <<Frame("initialize", InitId)>> /\ toClient = <<>>
          /\ \A id \in Ids : record[id] = "unused"
      BY <1>1, <1>3, <1>8, <2>1 DEF Handshaking, Typed, ClientTyped
    <2>3. toBridge' = <<>> /\ toClient' = <<f>>
      BY <1>2, <2>2 DEF Reads, Send
    <2>4. IdsIn(toClient') = {InitId} /\ EndedIn(toClient') = {} /\ TerminalIsLast(toClient')
      <3> HIDE DEF f
      <3> QED
        BY <1>1, <1>2, <1>7, <1>8, <2>2, Sent, EmptyPipe, IdNames
    <2>5. Fresh'
      BY <1>1, <1>2, <1>3, <2>3, EmptyPipe DEF Fresh, BridgeTyped
    <2>6. Expected'
      BY <1>2, <2>1, <2>2, <2>4, IdNames DEF Expected, Awaits, clientVars
    <2>7. LastWord'
      BY <2>4 DEF LastWord
    <2>8. CancelledOnce' /\ Handshaking'
      BY <1>2, <2>1, <2>2, <2>3 DEF CancelledOnce, Handshaking, clientVars
    <2>9. Answered'
      BY <1>2, <2>2 DEF Answered, Awaits, clientVars
    <2> QED
      BY <2>5, <2>6, <2>7, <2>8, <2>9 DEF Agreed
  <1> HIDE DEF f
  <1>9. PipesTyped'
    BY <1>2, <1>3, <1>5, <1>7, PipesStayTyped
  <1> QED
    BY <1>2, <1>3, <1>4, <1>5, <1>6, <1>7, <1>8, <1>9, BridgeKeeps

LEMMA ShutdownRequestKeeps == IInv /\ ShutdownRequest => IInv'
  <1> SUFFICES ASSUME IInv, ShutdownRequest PROVE IInv'
    OBVIOUS
  <1>1. Typed /\ BridgeTyped
    BY DEF IInv, Typed
  <1>2. /\ Reads("shutdown") /\ WithinLimit /\ seen' = seen \cup {Head(toBridge).id}
        /\ serve' = "draining" /\ cancelled' = cancelled \cup active /\ replyTo' = ShutdownId
        /\ UNCHANGED <<toClient, tasks, active, emitted, clientVars>>
    BY DEF ShutdownRequest, Stop, ShutdownReply
  <1>3. /\ Head(toBridge).id = ShutdownId /\ ShutdownId \in Ids /\ serve = "serving"
        /\ toBridge' \in Seq(FrameToBridge)
    BY <1>1, <1>2, Read, BridgeFrames, IdNames
  <1>4. SeenTyped' /\ ~(Cardinality(seen) >= MaxRequestIds)
    BY <1>2, <1>3, OneMoreSeen, ConnectionAssumption
  <1>5. BridgeTyped'
    BY <1>1, <1>2 DEF BridgeTyped
  <1>6. PipesTyped'
    BY <1>2, <1>3, <1>4, PipesStayTyped
  <1>7. client # "closed" => Agreed' /\ Answered'
    BY <1>2, <1>3, ReadStep
  <1> QED
    BY <1>2, <1>3, <1>4, <1>5, <1>6, <1>7, BridgeKeeps

LEMMA RequestLimitExceededKeeps == IInv /\ RequestLimitExceeded => IInv'
  <1> SUFFICES ASSUME IInv, RequestLimitExceeded PROVE IInv'
    OBVIOUS
  <1> DEFINE f == Frame("error", NoId)
  <1>1. Typed /\ BridgeTyped /\ SeenTyped
    BY DEF IInv, Typed
  <1>2. /\ serve = "serving" /\ serve' = "draining" /\ cancelled' = cancelled \cup active
        /\ toBridge # <<>> /\ toBridge' = Tail(toBridge) /\ Send(f) /\ ~WithinLimit
        /\ UNCHANGED <<seen, tasks, active, emitted, replyTo, clientVars>>
    BY DEF RequestLimitExceeded, Stop
  <1>3. /\ toBridge' \in Seq(FrameToBridge) /\ IdsIn(toBridge') \subseteq IdsIn(toBridge)
        /\ Distinct(toBridge) => Distinct(toBridge')
    BY <1>1, <1>2, Taken DEF Typed, PipesTyped
  <1>4. f \in FrameToClient /\ f.id = NoId /\ NoId \notin Ids /\ NoId # ShutdownId /\ NoId # InitId
    BY NewFrames, IdNames
  <1>5. SeenTyped' /\ BridgeTyped'
    BY <1>1, <1>2 DEF SeenTyped, BridgeTyped
  <1>6. Cardinality(seen') >= MaxRequestIds
    <2>1. Cardinality(seen) \in Nat
      BY <1>1, FS_CardinalityType DEF SeenTyped
    <2> QED
      BY <1>2, <2>1, ConnectionAssumption DEF WithinLimit
  <1> HIDE DEF f
  <1>7. ASSUME client # "closed" PROVE Agreed' /\ Answered'
    <2>1. Fresh /\ Expected /\ LastWord /\ CancelledOnce /\ Handshaking
      BY <1>7 DEF IInv, Agreed
    <2>2. /\ IdsIn(toClient') = IdsIn(toClient) \cup {NoId} /\ TerminalIsLast(toClient')
          /\ EndedIn(toClient') \subseteq EndedIn(toClient) \cup {NoId}
      BY <1>1, <1>2, <1>4, <1>7, <2>1, Sent DEF LastWord
    <2>3. \A i \in Ids : Awaits(i)' <=> Awaits(i)
      BY <1>2 DEF Awaits, clientVars
    <2>4. client \in {"ready", "closing"} /\ replyTo' = NoId
      BY <1>1, <1>2, <1>7, <2>1 DEF Handshaking, Typed, ClientTyped, BridgeTyped
    <2>5. Fresh'
      BY <1>2, <1>3, <1>4, <2>1, <2>2, <2>3, <2>4 DEF Fresh
    <2>6. Expected'
      BY <1>2, <1>4, <2>1, <2>2, <2>3, <2>4, IdNames DEF Expected, clientVars
    <2>7. LastWord'
      BY <1>2, <1>4, <2>1, <2>2, IdNames DEF LastWord
    <2>8. CancelledOnce' /\ Handshaking'
      BY <1>2, <1>3, <1>4, <2>1, <2>2, <2>4 DEF CancelledOnce, Handshaking, clientVars
    <2>9. Answered'
      BY <1>2 DEF Answered
    <2> QED
      BY <2>5, <2>6, <2>7, <2>8, <2>9 DEF Agreed
  <1>8. PipesTyped'
    BY <1>2, <1>3, <1>4, <1>6, PipesStayTyped
  <1> QED
    BY <1>2, <1>4, <1>5, <1>6, <1>7, <1>8, BridgeKeeps

LEMMA EndOfInputKeeps == IInv /\ EndOfInput => IInv'
  <1> SUFFICES ASSUME IInv, EndOfInput PROVE IInv'
    OBVIOUS
  <1>1. BridgeTyped /\ SeenTyped /\ PipesTyped
    BY DEF IInv, Typed
  <1>2. /\ serve # "exited" /\ client = "closed" /\ serve' = "draining" /\ cancelled' = cancelled \cup active
        /\ UNCHANGED <<seen, tasks, active, emitted, replyTo, toBridge, toClient, clientVars>>
    BY DEF EndOfInput, Stop
  <1>3. BridgeTyped' /\ SeenTyped' /\ PipesTyped'
    BY <1>1, <1>2 DEF BridgeTyped, SeenTyped, PipesTyped
  <1> QED
    BY <1>2, <1>3, BridgeKeeps

\* TaskEmits, TaskReturns, TaskPanics and RemoveCompleted.
LEMMA TaskKeeps ==
    ASSUME IInv, NEW r \in Spawned,
           TaskEmits(r) \/ TaskReturns(r) \/ TaskPanics(r) \/ RemoveCompleted(r)
    PROVE  IInv'
  <1>1. Typed /\ BridgeTyped /\ SeenTyped
    BY DEF IInv, Typed
  <1>2. serve # "exited" /\ UNCHANGED <<clientVars, toBridge, serve, replyTo, seen, cancelled>>
    BY DEF TaskEmits, TaskReturns, TaskPanics, RemoveCompleted
  <1>3. /\ active' \subseteq Spawned /\ tasks[r] \in {"running", "finished"}
        /\ tasks' \in [Spawned -> {"none", "running", "finished", "panicked", "joined"}]
        /\ \A q \in Spawned \ {r} : tasks'[q] = tasks[q]
        /\ \/ /\ tasks[r] = "running"
              /\ \/ tasks' = tasks /\ Send(Frame("event", r))
                 \/ /\ tasks'[r] = "finished"
                    /\ \E type \in {"result", "error"} : Send(Frame(type, r))
                 \/ tasks'[r] = "panicked" /\ UNCHANGED toClient
           \/ tasks[r] = "finished" /\ tasks'[r] = "joined" /\ UNCHANGED toClient
    <2>1. CASE TaskEmits(r)
      BY <1>1, <2>1 DEF TaskEmits, BridgeTyped
    <2>2. CASE TaskReturns(r)
      BY <1>1, <2>2 DEF TaskReturns, BridgeTyped
    <2>3. CASE TaskPanics(r)
      BY <1>1, <2>3 DEF TaskPanics, BridgeTyped
    <2>4. CASE RemoveCompleted(r)
      BY <1>1, <2>4 DEF RemoveCompleted, BridgeTyped
    <2> QED
      BY <2>1, <2>2, <2>3, <2>4
  <1>4. emitted' \in [Spawned -> 0..MaxEvents]
    <2>1. CASE TaskEmits(r)
      <3>1. emitted[r] \in 0..MaxEvents /\ emitted[r] < MaxEvents
        BY <1>1, <2>1 DEF TaskEmits, BridgeTyped
      <3>2. emitted[r] + 1 \in 0..MaxEvents
        BY <3>1, ConnectionAssumption
      <3> QED
        BY <1>1, <2>1, <3>2 DEF TaskEmits, BridgeTyped
    <2>2. CASE ~TaskEmits(r)
      BY <1>1, <2>2 DEF TaskReturns, TaskPanics, RemoveCompleted, BridgeTyped
    <2> QED
      BY <2>1, <2>2
  <1>5. BridgeTyped' /\ SeenTyped'
    BY <1>1, <1>2, <1>3, <1>4 DEF BridgeTyped, SeenTyped
  <1>6. \/ toClient' = toClient
        \/ \E f \in FrameToClient : Send(f) /\ f.id # NoId /\ f.id # ShutdownId
    <2>1. r \in Ids /\ r # NoId /\ r # ShutdownId
      BY IdNames
    <2> QED
      BY <1>3, <2>1, NewFrames
  <1>7. PipesTyped'
    BY <1>1, <1>2, <1>6, PipesStayTyped DEF Typed, PipesTyped
  <1>8. client # "closed" => Agreed' /\ Answered'
    BY <1>2, <1>3, TaskStep
  <1> QED
    BY <1>2, <1>5, <1>6, <1>7, <1>8, BridgeKeeps

LEMMA AbortAllKeeps == IInv /\ AbortAll => IInv'
  <1> SUFFICES ASSUME IInv, AbortAll PROVE IInv'
    OBVIOUS
  <1>1. Typed /\ BridgeTyped /\ SeenTyped /\ PipesTyped
    BY DEF IInv, Typed
  <1>2. /\ serve = "draining" /\ active' = {}
        /\ tasks' = [r \in Spawned |-> IF tasks[r] = "none" THEN "none" ELSE "joined"]
        /\ UNCHANGED <<serve, seen, cancelled, emitted, replyTo, toBridge, toClient, clientVars>>
    BY DEF AbortAll
  <1>3. \A r \in Spawned : tasks'[r] # "running" /\ (tasks[r] = "none" => tasks'[r] = "none")
    BY <1>2
  <1>4. BridgeTyped' /\ SeenTyped' /\ PipesTyped'
    BY <1>1, <1>2 DEF BridgeTyped, SeenTyped, PipesTyped
  <1>5. ASSUME client # "closed" PROVE Agreed' /\ Answered'
    <2>1. Fresh /\ Expected /\ LastWord /\ CancelledOnce /\ Handshaking
      BY <1>5 DEF IInv, Agreed
    <2>2. \A i \in Ids : Awaits(i)' <=> Awaits(i)
      BY <1>2 DEF Awaits, clientVars
    <2>3. Fresh'
      BY <1>2, <1>3, <2>1, <2>2 DEF Fresh
    <2>4. Expected'
      BY <1>2, <1>3, <2>1, <2>2, IdNames DEF Expected, clientVars
    <2>5. LastWord'
      BY <1>2, <1>3, <2>1 DEF LastWord
    <2>6. CancelledOnce' /\ Handshaking'
      BY <1>2, <2>1 DEF CancelledOnce, Handshaking, clientVars
    <2>7. Answered'
      BY <1>2 DEF Answered
    <2> QED
      BY <2>3, <2>4, <2>5, <2>6, <2>7 DEF Agreed
  <1> QED
    BY <1>2, <1>4, <1>5, BridgeKeeps

LEMMA ExitKeeps == IInv /\ Exit => IInv'
  <1> SUFFICES ASSUME IInv, Exit PROVE IInv'
    OBVIOUS
  <1> DEFINE f == Frame("result", ShutdownId)
  <1>1. Typed /\ ShutdownReplied /\ BridgeTyped /\ SeenTyped /\ PipesTyped
    BY DEF IInv, Typed
  <1>2. /\ serve = "draining" /\ serve' = "exited" /\ active' = {} /\ Joined /\ replyTo' = NoId
        /\ UNCHANGED <<seen, tasks, cancelled, emitted, toBridge, clientVars>>
        /\ \/ replyTo = NoId /\ toClient' = toClient
           \/ replyTo = ShutdownId /\ Send(f)
    BY <1>1 DEF Exit, BridgeTyped
  <1>3. Quiet'
    BY <1>2 DEF Quiet, Joined
  <1>4. BridgeTyped' /\ SeenTyped'
    BY <1>1, <1>2 DEF BridgeTyped, SeenTyped
  <1>5. /\ f \in FrameToClient /\ f.id = ShutdownId /\ ShutdownId # NoId /\ ShutdownId # InitId
        /\ ShutdownId \in Ids /\ ShutdownId \notin Spawned /\ TerminalFrame(f)
    BY NewFrames, IdNames DEF TerminalFrame
  <1> HIDE DEF f
  <1>6. \/ toClient' = toClient
        \/ \E g \in FrameToClient : Send(g) /\ g.id # NoId /\ (g.id = ShutdownId => Quiet')
    BY <1>2, <1>3, <1>5
  <1>7. PipesTyped'
    BY <1>1, <1>2, <1>6, PipesStayTyped DEF PipesTyped
  <1>8. ASSUME client # "closed" PROVE Agreed' /\ Answered'
    <2>1. Fresh /\ Expected /\ LastWord /\ CancelledOnce /\ Handshaking
      BY <1>8 DEF IInv, Agreed
    <2>2. \A i \in Ids : Awaits(i)' <=> Awaits(i)
      BY <1>2 DEF Awaits, clientVars
    <2>3. client \in {"ready", "closing"}
      BY <1>1, <1>2, <1>8, <2>1 DEF Handshaking, Typed, ClientTyped
    <2>4. CancelledOnce' /\ Answered'
      BY <1>2, <2>1 DEF CancelledOnce, Answered, clientVars
    <2>5. CASE toClient' = toClient
      <3>1. Fresh' /\ LastWord'
        BY <1>2, <2>1, <2>2, <2>5 DEF Fresh, LastWord
      <3>2. Expected'
        BY <1>2, <2>1, <2>2, <2>5, IdNames DEF Expected, clientVars
      <3>3. Handshaking'
        BY <1>2, <2>1, <2>3, <2>5 DEF Handshaking, clientVars
      <3> QED
        BY <2>4, <3>1, <3>2, <3>3 DEF Agreed
    <2>6. CASE replyTo = ShutdownId /\ Send(f)
      <3>1. Awaits(ShutdownId) /\ ShutdownId \notin IdsIn(toBridge) /\ ShutdownId \notin IdsIn(toClient)
        BY <1>1, <1>2, <2>1, <2>6 DEF Fresh, Expected, ShutdownReplied, Quiet
      <3>2. /\ IdsIn(toClient') = IdsIn(toClient) \cup {ShutdownId} /\ TerminalIsLast(toClient')
            /\ EndedIn(toClient') = EndedIn(toClient) \cup {ShutdownId}
        BY <1>1, <1>5, <1>8, <2>1, <2>6, <3>1, Sent, EndedAreIn DEF LastWord
      <3>3. Fresh'
        BY <1>2, <2>1, <2>2, <3>1, <3>2 DEF Fresh
      <3>4. Expected'
        BY <1>2, <1>5, <2>1, <2>2, <3>1, <3>2, IdNames DEF Expected, clientVars
      <3>5. LastWord'
        BY <1>2, <1>5, <2>1, <3>2 DEF LastWord
      <3>6. Handshaking'
        BY <1>2, <1>5, <2>1, <2>3, <3>2 DEF Handshaking, clientVars
      <3> QED
        BY <2>4, <3>3, <3>4, <3>5, <3>6 DEF Agreed
    <2> QED
      BY <1>2, <2>5, <2>6
  <1> QED
    BY <1>2, <1>4, <1>6, <1>7, <1>8, BridgeKeeps

LEMMA DieKeeps == IInv /\ Die => IInv'
  <1> SUFFICES ASSUME IInv, Die PROVE IInv'
    OBVIOUS
  <1>1. Typed /\ BridgeTyped /\ SeenTyped /\ PipesTyped
    BY DEF IInv, Typed
  <1>2. /\ serve # "exited" /\ client # "new" /\ serve' = "exited" /\ active' = {} /\ toBridge' = <<>>
        /\ tasks' = [r \in Spawned |-> IF tasks[r] = "none" THEN "none" ELSE "joined"]
        /\ UNCHANGED <<seen, cancelled, emitted, replyTo, toClient, clientVars>>
    BY DEF Die
  <1>3. \A r \in Spawned : tasks'[r] # "running" /\ (tasks[r] = "none" => tasks'[r] = "none")
    BY <1>2
  <1>4. BridgeTyped' /\ SeenTyped' /\ PipesTyped'
    BY <1>1, <1>2, EmptyPipe DEF BridgeTyped, SeenTyped, PipesTyped
  <1>5. ASSUME client # "closed" PROVE Agreed' /\ Answered'
    <2>1. Fresh /\ Expected /\ LastWord /\ CancelledOnce /\ Handshaking
      BY <1>5 DEF IInv, Agreed
    <2>2. \A i \in Ids : Awaits(i)' <=> Awaits(i)
      BY <1>2 DEF Awaits, clientVars
    <2>3. Fresh'
      BY <1>2, EmptyPipe DEF Fresh
    <2>4. Expected'
      BY <1>2, <1>3, <2>1, <2>2, IdNames DEF Expected, clientVars
    <2>5. LastWord'
      BY <1>2, <1>3, <2>1 DEF LastWord
    <2>6. CancelledOnce' /\ Answered'
      BY <1>2, <2>1 DEF CancelledOnce, Answered, clientVars
    <2>7. Handshaking'
      BY <1>2, <2>1, EmptyPipe DEF Handshaking, clientVars
    <2> QED
      BY <2>3, <2>4, <2>5, <2>6, <2>7 DEF Agreed
  <1> QED
    BY <1>2, <1>4, <1>5, BridgeKeeps

LEMMA BridgeKeepsIInv == IInv /\ Bridge => IInv'
  BY InitializeKeeps, StartRequestKeeps, WriteSessionKeeps, CancelRequestKeeps, ControlRequestKeeps,
     ShutdownRequestKeeps, RequestLimitExceededKeeps, EndOfInputKeeps, AbortAllKeeps, ExitKeeps,
     DieKeeps, TaskKeeps DEF Bridge

-----------------------------------------------------------------------------
(* The steps of the client.                                                *)

\* The client closes: nothing that it awaits matters any more.
LEMMA ClosingKeeps ==
    ASSUME IInv, client # "closed", client' = "closed", UNCHANGED <<toBridge, bridgeVars>>,
           record' \in [Ids -> RecordState], running' \subseteq running,
           cause' \in {"handshake_timeout", "uncorrelated_error", "shutdown", "handler_failed",
                       "process_exited", "closed"},
           cause' = "uncorrelated_error" => Cardinality(seen) >= MaxRequestIds,
           toClient' = toClient \/ (toClient # <<>> /\ toClient' = Tail(toClient)),
           record'[ShutdownId] = "resolved" => Quiet /\ toClient' = <<>>
    PROVE  IInv'
  <1>1. Typed /\ ShutdownReplied
    BY DEF IInv
  <1>2. /\ toClient' \in Seq(FrameToClient) /\ IdsIn(toClient') \subseteq IdsIn(toClient)
        /\ ShutdownIsLast(toClient')
    <2>1. toClient \in Seq(FrameToClient) /\ ShutdownIsLast(toClient)
      BY <1>1 DEF Typed, PipesTyped, ShutdownReplied
    <2>2. CASE toClient' = toClient
      BY <2>1, <2>2
    <2>3. CASE toClient # <<>> /\ toClient' = Tail(toClient)
      BY <2>1, <2>3, Taken
    <2> QED
      BY <2>2, <2>3
  <1>3. Typed'
    <2>1. ClientTyped'
      BY <1>1 DEF Typed, ClientTyped
    <2>2. SeenTyped' /\ BridgeTyped'
      BY <1>1 DEF Typed, SeenTyped, BridgeTyped, bridgeVars
    <2>3. PipesTyped'
      BY <1>1, <1>2 DEF Typed, PipesTyped, bridgeVars
    <2> QED
      BY <2>1, <2>2, <2>3 DEF Typed
  <1>4. Quiet' <=> Quiet
    BY DEF Quiet, Joined, bridgeVars
  <1>5. ShutdownReplied'
    BY <1>1, <1>2, <1>4 DEF ShutdownReplied
  <1>6. EveryFrameIsAttributed'
    BY DEF EveryFrameIsAttributed, bridgeVars
  <1> QED
    BY <1>3, <1>5, <1>6 DEF IInv, Agreed, Answered

\* RejectAll settles every call, and resolves none.
LEMMA Rejected ==
    ASSUME IInv, client # "closed"
    PROVE  RejectAll \in [Ids -> RecordState] /\ RejectAll[ShutdownId] # "resolved"
  <1>1. record \in [Ids -> RecordState] /\ record[ShutdownId] # "resolved" /\ ShutdownId \in Ids
    BY IdNames DEF IInv, Typed, ClientTyped, ShutdownReplied
  <1> QED
    BY <1>1 DEF RejectAll, RecordState

\* HandshakeTimeout, Close, TransportClosed and HandlerThrows.
LEMMA CloseKeeps ==
    ASSUME IInv, HandshakeTimeout \/ Close \/ TransportClosed \/ (\E r \in Spawned : HandlerThrows(r))
    PROVE  IInv'
  <1>1. /\ client # "closed" /\ client' = "closed" /\ record' = RejectAll
        /\ cause' \in {"handshake_timeout", "closed", "process_exited", "handler_failed"}
        /\ running' \subseteq running /\ UNCHANGED <<toBridge, toClient, bridgeVars>>
    BY DEF HandshakeTimeout, Close, TransportClosed, HandlerThrows, CloseWith, Open
  <1> QED
    BY <1>1, Rejected, ClosingKeeps

LEMMA DropLateOutputKeeps == IInv /\ DropLateOutput => IInv'
  <1> SUFFICES ASSUME IInv, DropLateOutput PROVE IInv'
    OBVIOUS
  <1>1. /\ Typed /\ ShutdownReplied /\ EveryFrameIsAttributed /\ client = "closed" /\ toClient' = <<>>
        /\ UNCHANGED <<clientVars, toBridge, bridgeVars>>
    BY DEF IInv, DropLateOutput
  <1>2. ClientTyped' /\ SeenTyped' /\ BridgeTyped'
    BY <1>1 DEF Typed, ClientTyped, SeenTyped, BridgeTyped, clientVars, bridgeVars
  <1>3. PipesTyped'
    BY <1>1, EmptyPipe DEF Typed, PipesTyped
  <1>4. ShutdownReplied'
    <2>1. Quiet' <=> Quiet
      BY <1>1 DEF Quiet, Joined, bridgeVars
    <2> QED
      BY <1>1, <2>1, EmptyPipe DEF ShutdownReplied, clientVars
  <1>5. EveryFrameIsAttributed' /\ Agreed' /\ Answered'
    BY <1>1 DEF EveryFrameIsAttributed, Agreed, Answered, clientVars, bridgeVars
  <1> QED
    BY <1>2, <1>3, <1>4, <1>5 DEF IInv, Typed

\* An open client changes what it records of an id, but not whether it awaits it.
LEMMA RecordStep ==
    ASSUME IInv, UNCHANGED <<client, cause, toBridge, toClient, bridgeVars>>,
           record' \in [Ids -> RecordState], running' \subseteq Spawned,
           record'[ShutdownId] = "resolved" => record[ShutdownId] = "resolved",
           client # "closed" =>
               /\ \A id \in Ids : /\ Awaits(id)' <=> Awaits(id)
                                  /\ record'[id] = "unused" <=> record[id] = "unused"
               /\ \A r \in Requests : record'[r] \in {"unused", "pending", "queued"} =>
                                          record[r] \in {"unused", "pending", "queued"}
    PROVE  IInv'
  <1>1. Typed /\ ShutdownReplied /\ EveryFrameIsAttributed
    BY DEF IInv
  <1>2. ClientTyped' /\ SeenTyped' /\ BridgeTyped' /\ PipesTyped'
    BY <1>1 DEF Typed, ClientTyped, SeenTyped, BridgeTyped, PipesTyped, bridgeVars
  <1>3. ShutdownReplied'
    <2>1. Quiet' <=> Quiet
      BY DEF Quiet, Joined, bridgeVars
    <2> QED
      BY <1>1, <2>1 DEF ShutdownReplied
  <1>4. EveryFrameIsAttributed'
    BY <1>1 DEF EveryFrameIsAttributed, bridgeVars
  <1>5. ASSUME client # "closed" PROVE Agreed' /\ Answered'
    <2>1. Fresh /\ Expected /\ LastWord /\ CancelledOnce /\ Handshaking /\ Answered
      BY <1>5 DEF IInv, Agreed
    <2>2. Fresh' /\ LastWord'
      BY <1>5, <2>1 DEF Fresh, LastWord, bridgeVars
    <2>3. Expected'
      BY <1>5, <2>1, IdNames DEF Expected, bridgeVars
    <2>4. CancelledOnce'
      BY <1>5, <2>1, IdNames DEF CancelledOnce
    <2>5. Handshaking'
      BY <1>5, <2>1, IdNames DEF Handshaking, bridgeVars
    <2>6. Answered'
      BY <1>5, <2>1 DEF Answered, bridgeVars
    <2> QED
      BY <2>2, <2>3, <2>4, <2>5, <2>6 DEF Agreed
  <1>6. Agreed' /\ Answered'
    BY <1>5 DEF Agreed, Answered
  <1> QED
    BY <1>2, <1>3, <1>4, <1>6 DEF IInv, Typed

LEMMA HandlersFinishKeeps ==
    ASSUME IInv, NEW r \in Spawned, HandlersFinish(r)
    PROVE  IInv'
  <1>1. record \in [Ids -> RecordState] /\ running \subseteq Spawned /\ r \in Ids /\ r # ShutdownId
        /\ ShutdownId \in Ids /\ Requests \subseteq Ids
    BY IdNames DEF IInv, Typed, ClientTyped
  <1>2. /\ running' \subseteq running /\ UNCHANGED <<client, cause, toBridge, toClient, bridgeVars>>
        /\ record' = [record EXCEPT ![r] = IF record[r] = "queued" THEN "resolved" ELSE record[r]]
    BY DEF HandlersFinish
  <1>3. /\ record' \in [Ids -> RecordState] /\ \A id \in Ids \ {r} : record'[id] = record[id]
        /\ record'[r] = IF record[r] = "queued" THEN "resolved" ELSE record[r]
    BY <1>1, <1>2 DEF RecordState
  <1>4. \A id \in Ids : record'[id] = record[id] \/ (record[id] = "queued" /\ record'[id] = "resolved")
    BY <1>3
  <1> QED
    BY <1>1, <1>2, <1>3, <1>4, RecordStep DEF Awaits

LEMMA ControlTimeoutKeeps ==
    ASSUME IInv, NEW c \in ControlIds, ControlTimeout(c)
    PROVE  IInv'
  <1>1. record \in [Ids -> RecordState] /\ running \subseteq Spawned /\ c \in Ids /\ ShutdownId \in Ids
        /\ Requests \subseteq Ids
    BY IdNames DEF IInv, Typed, ClientTyped
  <1>2. /\ client # "closed" /\ record[c] = "pending"
        /\ UNCHANGED <<running, toBridge, toClient, bridgeVars>>
    BY DEF ControlTimeout
  <1>3. CASE c = ShutdownId
    <2>1. client' = "closed" /\ cause' = "shutdown" /\ record' = [RejectAll EXCEPT ![c] = "ignored"]
      BY <1>3 DEF ControlTimeout
    <2>2. record' \in [Ids -> RecordState] /\ record'[ShutdownId] = "ignored"
      BY <1>1, <1>2, <1>3, <2>1, Rejected DEF RecordState
    <2> QED
      BY <1>2, <2>1, <2>2, ClosingKeeps
  <1>4. CASE c # ShutdownId
    <2>1. record' = [record EXCEPT ![c] = "ignored"] /\ UNCHANGED <<client, cause>>
      BY <1>4 DEF ControlTimeout
    <2>2. /\ record' \in [Ids -> RecordState] /\ record'[c] = "ignored"
          /\ \A id \in Ids \ {c} : record'[id] = record[id]
      BY <1>1, <2>1 DEF RecordState
    <2>3. \A id \in Ids : record'[id] = record[id] \/ (record[id] = "pending" /\ record'[id] = "ignored")
      BY <1>2, <2>2
    <2> QED
      BY <1>1, <1>2, <1>4, <2>1, <2>2, <2>3, RecordStep DEF Awaits
  <1> QED
    BY <1>3, <1>4

\* The frame is lost with its id: no task and no frame back has it.
LEMMA WriteFailsKeeps == IInv /\ WriteFails => IInv'
  <1> SUFFICES ASSUME IInv, WriteFails PROVE IInv'
    OBVIOUS
  <1>1. /\ Typed /\ ShutdownReplied /\ EveryFrameIsAttributed
        /\ record \in [Ids -> RecordState] /\ toBridge \in Seq(FrameToBridge)
    BY DEF IInv, Typed, ClientTyped, PipesTyped
  <1>2. /\ client \in {"ready", "closing"} /\ serve = "exited" /\ toBridge # <<>>
        /\ UNCHANGED <<running, toClient, bridgeVars>>
    BY DEF WriteFails
  <1> DEFINE id == Head(toBridge).id
  <1>3. CASE id = ShutdownId
    <2>1. client' = "closed" /\ cause' = "shutdown" /\ record' = RejectAll /\ UNCHANGED toBridge
      BY <1>3 DEF WriteFails, CloseWith
    <2> QED
      BY <1>2, <2>1, Rejected, ClosingKeeps
  <1>4. CASE id # ShutdownId
    <2>1. /\ record' = [record EXCEPT ![id] = IF record[id] = "pending" THEN "rejected" ELSE record[id]]
          /\ toBridge' = Tail(toBridge) /\ UNCHANGED <<client, cause>>
      BY <1>4 DEF WriteFails
    <2>2. Fresh /\ Expected /\ LastWord /\ CancelledOnce /\ Handshaking
      BY <1>2 DEF IInv, Agreed
    <2>3. /\ toBridge' \in Seq(FrameToBridge) /\ Head(toBridge) \in FrameToBridge
          /\ IdsIn(toBridge) = {id} \cup IdsIn(toBridge')
          /\ Distinct(toBridge') /\ id \notin IdsIn(toBridge')
      BY <1>1, <1>2, <2>1, <2>2, Taken DEF Fresh
    <2>4. id \in Ids
      BY <1>2, <2>2, <2>3, BridgeFrames DEF Handshaking
    <2>5. Awaits(id) /\ id \notin IdsIn(toClient) /\ (id \in Spawned => tasks[id] = "none")
      BY <2>2, <2>3, <2>4 DEF Fresh
    <2> HIDE DEF id
    <2>6. /\ record' \in [Ids -> RecordState] /\ record'[id] \in {"rejected", "ignored"}
          /\ \A i \in Ids \ {id} : record'[i] = record[i]
      BY <1>1, <2>1, <2>4, <2>5 DEF RecordState, Awaits
    <2>7. ClientTyped' /\ SeenTyped' /\ BridgeTyped' /\ PipesTyped'
      BY <1>1, <1>2, <2>1, <2>3, <2>6
      DEF Typed, ClientTyped, SeenTyped, BridgeTyped, PipesTyped, bridgeVars
    <2>8. ShutdownReplied'
      <3>1. Quiet' <=> Quiet
        BY <1>2 DEF Quiet, Joined, bridgeVars
      <3> QED
        BY <1>1, <1>2, <1>4, <2>1, <2>6, <3>1, IdNames DEF ShutdownReplied
    <2>9. EveryFrameIsAttributed' /\ Answered'
      BY <1>1, <1>2, <2>1 DEF EveryFrameIsAttributed, Answered, bridgeVars
    <2>10. Fresh'
      BY <1>2, <2>2, <2>3, <2>6 DEF Fresh, Awaits, bridgeVars
    <2>11. Expected'
      BY <1>2, <2>2, <2>5, <2>6, IdNames DEF Expected, Awaits, bridgeVars
    <2>12. LastWord'
      BY <1>2, <2>2 DEF LastWord, bridgeVars
    <2>13. CancelledOnce'
      BY <2>2, <2>5, <2>6, IdNames DEF CancelledOnce, Awaits
    <2>14. Handshaking'
      BY <1>2, <1>4, <2>1, <2>2, <2>3, <2>6, IdNames DEF Handshaking, bridgeVars
    <2> QED
      BY <2>7, <2>8, <2>9, <2>10, <2>11, <2>12, <2>13, <2>14 DEF IInv, Typed, Agreed
  <1> QED
    BY <1>3, <1>4

\* A ready client writes a frame with an id that it has not used before.
LEMMA WriteStep ==
    ASSUME IInv, IsReady, client' \in {"ready", "closing"},
           UNCHANGED <<cause, running, toClient, bridgeVars>>,
           NEW f \in FrameToBridge, f.id \in Ids, record[f.id] = "unused", Write(f),
           record' \in [Ids -> RecordState], record'[f.id] = "pending",
           \A id \in Ids \ {f.id} :
               /\ Awaits(id)' <=> Awaits(id)
               /\ record'[id] = "unused" <=> record[id] = "unused",
           f.id = ShutdownId <=> client' = "closing",
           record'[ShutdownId] # "resolved", CancelledOnce'
    PROVE  IInv'
  <1> DEFINE i == f.id
  <1>1. /\ Typed /\ ShutdownReplied /\ EveryFrameIsAttributed /\ client = "ready"
        /\ Fresh /\ Expected /\ LastWord /\ Handshaking /\ Answered
    BY DEF IInv, Agreed, IsReady
  <1>2. /\ ~Awaits(i) /\ i \notin IdsIn(toBridge) /\ i \notin IdsIn(toClient)
        /\ i \in Spawned => tasks[i] = "none"
    BY <1>1 DEF Awaits, Fresh, Expected
  <1>3. /\ toBridge' \in Seq(FrameToBridge) /\ IdsIn(toBridge') = IdsIn(toBridge) \cup {i}
        /\ Distinct(toBridge')
    <2>1. toBridge \in Seq(FrameToBridge) /\ Distinct(toBridge)
      BY <1>1 DEF Typed, PipesTyped, Fresh
    <2> QED
      BY <1>2, <2>1, Appended DEF Write
  <1>4. Awaits(i)' /\ \A id \in Ids : Awaits(id) => Awaits(id)'
    BY <1>2 DEF Awaits
  <1>5. ClientTyped' /\ SeenTyped' /\ BridgeTyped' /\ PipesTyped'
    BY <1>1, <1>3 DEF Typed, ClientTyped, SeenTyped, BridgeTyped, PipesTyped, bridgeVars
  <1>6. ShutdownReplied'
    <2>1. Quiet' <=> Quiet
      BY DEF Quiet, Joined, bridgeVars
    <2> QED
      BY <1>1, <2>1 DEF ShutdownReplied
  <1>7. EveryFrameIsAttributed'
    BY <1>1 DEF EveryFrameIsAttributed, bridgeVars
  <1>8. Fresh'
    <2>1. \A id \in Ids \cap IdsIn(toBridge') :
              Awaits(id)' /\ id \notin IdsIn(toClient) /\ (id \in Spawned => tasks[id] = "none")
      BY <1>1, <1>2, <1>3, <1>4 DEF Fresh
    <2>2. ~(serve = "draining" /\ replyTo = ShutdownId)
      <3>1. record[ShutdownId] = "unused"
        BY <1>1 DEF Handshaking
      <3> QED
        BY <1>1, <3>1 DEF Expected, Awaits
    <2> QED
      BY <1>3, <2>1, <2>2 DEF Fresh, bridgeVars
  <1>9. Expected'
    <2>1. \A r \in Spawned : record'[r] = "unused" => record[r] = "unused"
      BY IdNames
    <2> QED
      BY <1>1, <1>4, <2>1, IdNames DEF Expected, bridgeVars
  <1>10. LastWord'
    BY <1>1 DEF LastWord, bridgeVars
  <1>11. Handshaking'
    <2>1. InitId \notin IdsIn(toBridge')
      BY <1>1, <1>3, IdNames DEF Handshaking
    <2>2. client' = "ready" => record'[ShutdownId] = "unused"
      BY <1>1, IdNames DEF Handshaking
    <2> QED
      BY <1>1, <2>1, <2>2 DEF Handshaking, bridgeVars
  <1>12. Answered'
    BY <1>1, <1>3 DEF Answered, bridgeVars
  <1> QED
    BY <1>5, <1>6, <1>7, <1>8, <1>9, <1>10, <1>11, <1>12 DEF IInv, Typed, Agreed

\* Before it closes, the client has no answer to its shutdown request.
LEMMA NotShutDown ==
    ASSUME IInv, client # "closed"
    PROVE  /\ record \in [Ids -> RecordState] /\ record[ShutdownId] # "resolved" /\ CancelledOnce
           /\ ShutdownId \in Ids
  BY IdNames DEF IInv, Typed, ClientTyped, ShutdownReplied, Agreed

\* Request, Control and Shutdown.
LEMMA NewRequestKeeps ==
    ASSUME IInv, IsReady, client' \in {"ready", "closing"},
           UNCHANGED <<cause, running, toClient, bridgeVars>>,
           NEW f \in FrameToBridge, f.id \in Spawned \cup {ShutdownId}, record[f.id] = "unused", Write(f),
           record' = [record EXCEPT ![f.id] = "pending"],
           f.id = ShutdownId <=> client' = "closing"
    PROVE  IInv'
  <1> DEFINE i == f.id
  <1>1. /\ record \in [Ids -> RecordState] /\ record[ShutdownId] # "resolved" /\ CancelledOnce
        /\ ShutdownId \in Ids /\ i \in Ids
    BY NotShutDown, IdNames DEF IsReady
  <1> HIDE DEF i
  <1>2. /\ record' \in [Ids -> RecordState] /\ record'[i] = "pending"
        /\ \A id \in Ids \ {i} : record'[id] = record[id]
    BY <1>1 DEF RecordState, i
  <1>3. CancelledOnce'
    <2> SUFFICES ASSUME NEW r \in Requests, record'[r] \in {"unused", "pending", "queued"}
                 PROVE  record'[CancelOf(r)] = "unused"
      BY DEF CancelledOnce
    <2>1. CancelOf(r) \in Ids /\ CancelOf(r) # i /\ r \in Ids
      BY IdNames DEF i
    <2>2. record[r] \in {"unused", "pending", "queued"}
      BY <1>2, <2>1 DEF i
    <2> QED
      BY <1>1, <1>2, <2>1, <2>2 DEF CancelledOnce
  <1> QED
    BY <1>1, <1>2, <1>3, WriteStep DEF Awaits, i

LEMMA RequestKeeps == ASSUME IInv, NEW r \in Requests, Request(r) PROVE IInv'
  <1>1. /\ Frame("request", r) \in FrameToBridge /\ Frame("request", r).id = r /\ r \in Spawned
        /\ r # ShutdownId
    BY NewFrames, IdNames
  <1>2. /\ IsReady /\ client' = "ready" /\ UNCHANGED <<cause, running, toClient, bridgeVars>>
        /\ record[r] = "unused" /\ record' = [record EXCEPT ![r] = "pending"]
        /\ Write(Frame("request", r))
    BY DEF Request, IsReady
  <1> QED
    BY <1>1, <1>2, NewRequestKeeps

LEMMA ControlKeeps == ASSUME IInv, NEW c \in Controls, Control(c) PROVE IInv'
  <1>1. PICK type \in {"sessionWrite", "control"} : Write(Frame(type, c))
    BY DEF Control
  <1>2. /\ Frame(type, c) \in FrameToBridge /\ Frame(type, c).id = c /\ c \in Spawned
        /\ c # ShutdownId
    BY NewFrames, IdNames
  <1>3. /\ IsReady /\ client' = "ready" /\ UNCHANGED <<cause, running, toClient, bridgeVars>>
        /\ record[c] = "unused" /\ record' = [record EXCEPT ![c] = "pending"]
    BY DEF Control, IsReady
  <1> QED
    BY <1>1, <1>2, <1>3, NewRequestKeeps

LEMMA ShutdownKeeps == IInv /\ Shutdown => IInv'
  <1> SUFFICES ASSUME IInv, Shutdown PROVE IInv'
    OBVIOUS
  <1>1. Frame("shutdown", ShutdownId) \in FrameToBridge /\ Frame("shutdown", ShutdownId).id = ShutdownId
    BY NewFrames
  <1>2. /\ IsReady /\ client' = "closing" /\ UNCHANGED <<cause, running, toClient, bridgeVars>>
        /\ record' = [record EXCEPT ![ShutdownId] = "pending"]
        /\ Write(Frame("shutdown", ShutdownId))
    BY DEF Shutdown
  <1>3. record[ShutdownId] = "unused"
    BY <1>2 DEF IsReady, IInv, Agreed, Handshaking
  <1> QED
    BY <1>1, <1>2, <1>3, NewRequestKeeps

LEMMA AbortKeeps == ASSUME IInv, NEW r \in Requests, Abort(r) PROVE IInv'
  <1> DEFINE i == CancelOf(r)
  <1>1. /\ client \in {"ready", "closing"} /\ record[r] \in {"pending", "queued"}
        /\ UNCHANGED <<client, cause, running, toClient, bridgeVars>>
    BY DEF Abort
  <1>2. /\ record \in [Ids -> RecordState] /\ record[ShutdownId] # "resolved" /\ CancelledOnce
        /\ running \subseteq Spawned
    BY <1>1, NotShutDown DEF IInv, Typed, ClientTyped
  <1>3. /\ r \in Ids /\ i \in Ids /\ ShutdownId \in Ids /\ r # ShutdownId /\ i # ShutdownId /\ r # i
        /\ Requests \subseteq Ids
    BY IdNames
  <1>4. Ignore(r) = IF record[r] = "pending" THEN "ignored" ELSE "ignoredForever"
    BY <1>1 DEF Ignore
  <1>5. \A q \in Requests : CancelOf(q) \in Ids /\ CancelOf(q) # r /\ (q # r => CancelOf(q) # i)
    BY IdNames
  <1> HIDE DEF i
  <1>6. CASE IsReady
    <2>1. /\ record' = [[record EXCEPT ![r] = Ignore(r)] EXCEPT ![i] = "pending"]
          /\ Write(Frame("cancel", i))
      BY <1>6 DEF Abort, AbortedRecord, i
    <2>2. Ignore(r) \in RecordState /\ "pending" \in RecordState
      BY <1>4 DEF RecordState
    <2>3. /\ record' \in [Ids -> RecordState] /\ record'[r] = Ignore(r) /\ record'[i] = "pending"
          /\ \A id \in Ids \ {r, i} : record'[id] = record[id]
      BY <1>2, <1>3, <2>1, <2>2
    <2>4. Frame("cancel", i) \in FrameToBridge /\ Frame("cancel", i).id = i
      BY NewFrames DEF i
    <2>5. record[i] = "unused"
      BY <1>1, <1>2 DEF CancelledOnce, i
    <2>6. \A id \in Ids \ {i} : /\ Awaits(id)' <=> Awaits(id)
                                /\ record'[id] = "unused" <=> record[id] = "unused"
      BY <1>1, <1>4, <2>3 DEF Awaits
    <2>7. CancelledOnce'
      <3> SUFFICES ASSUME NEW q \in Requests, record'[q] \in {"unused", "pending", "queued"}
                   PROVE  record'[CancelOf(q)] = "unused"
        BY DEF CancelledOnce
      <3>1. q # r /\ q \in Ids
        BY <1>3, <1>4, <2>3
      <3>2. q # i /\ CancelOf(q) \in Ids \ {r, i}
        BY <1>5, <3>1, IdNames DEF i
      <3> QED
        BY <1>2, <2>3, <3>1, <3>2 DEF CancelledOnce
    <2>8. record'[ShutdownId] # "resolved" /\ client' = "ready"
      BY <1>1, <1>2, <1>3, <1>6, <2>3 DEF IsReady
    <2> QED
      BY <1>1, <1>3, <1>6, <2>1, <2>3, <2>4, <2>5, <2>6, <2>7, <2>8, WriteStep
  <1>7. CASE ~IsReady
    <2>1. record' = [record EXCEPT ![r] = Ignore(r)] /\ UNCHANGED toBridge
      BY <1>7 DEF Abort, AbortedRecord
    <2>2. Ignore(r) \in RecordState
      BY <1>4 DEF RecordState
    <2>3. /\ record' \in [Ids -> RecordState] /\ record'[r] = Ignore(r)
          /\ \A id \in Ids \ {r} : record'[id] = record[id]
      BY <1>2, <1>3, <2>1, <2>2
    <2>4. \A id \in Ids : /\ Awaits(id)' <=> Awaits(id)
                          /\ record'[id] = "unused" <=> record[id] = "unused"
      BY <1>1, <1>4, <2>3 DEF Awaits
    <2>5. \A q \in Requests : record'[q] \in {"unused", "pending", "queued"} =>
                                  record[q] \in {"unused", "pending", "queued"}
      BY <1>3, <1>4, <2>3
    <2>6. record'[ShutdownId] # "resolved"
      BY <1>2, <1>3, <2>3
    <2> QED
      BY <1>1, <1>2, <2>1, <2>3, <2>4, <2>5, <2>6, RecordStep
  <1> QED
    BY <1>6, <1>7

LEMMA ConnectKeeps == IInv /\ Connect => IInv'
  <1> SUFFICES ASSUME IInv, Connect PROVE IInv'
    OBVIOUS
  <1> DEFINE f == Frame("initialize", InitId)
  <1>1. /\ client = "new" /\ client' = "connecting" /\ Write(f)
        /\ UNCHANGED <<cause, record, running, toClient, bridgeVars>>
    BY DEF Connect
  <1>2. /\ Typed /\ ShutdownReplied /\ EveryFrameIsAttributed
        /\ Fresh /\ Expected /\ LastWord /\ CancelledOnce /\ Handshaking
    BY <1>1 DEF IInv, Agreed
  <1>3. /\ toBridge = <<>> /\ toClient = <<>> /\ serve = "uninitialized"
        /\ \A id \in Ids : record[id] = "unused"
    BY <1>1, <1>2 DEF Handshaking
  <1>4. toBridge' = <<f>>
    BY <1>1, <1>3 DEF Write
  <1>5. toBridge' \in Seq(FrameToBridge) /\ IdsIn(toBridge') = {InitId} /\ Distinct(toBridge')
    <2>1. f \in FrameToBridge /\ f.id = InitId
      BY NewFrames
    <2> HIDE DEF f
    <2>2. /\ toBridge' = Append(toBridge, f) /\ toBridge \in Seq(FrameToBridge)
          /\ IdsIn(toBridge) = {} /\ Distinct(toBridge)
      BY <1>1, <1>3, EmptyPipe DEF Write
    <2> QED
      BY <2>1, <2>2, Appended
  <1>6. ClientTyped' /\ SeenTyped' /\ BridgeTyped' /\ PipesTyped'
    BY <1>1, <1>2, <1>5 DEF Typed, ClientTyped, SeenTyped, BridgeTyped, PipesTyped, bridgeVars
  <1>7. ShutdownReplied'
    BY <1>1, <1>2, <1>3, EmptyPipe, IdNames DEF ShutdownReplied
  <1>8. EveryFrameIsAttributed'
    BY <1>1, <1>2 DEF EveryFrameIsAttributed, bridgeVars
  <1>9. \A id \in Ids : Awaits(id)' <=> Awaits(id)
    BY <1>1 DEF Awaits
  <1>10. Fresh'
    BY <1>1, <1>3, <1>5, IdNames DEF Fresh, bridgeVars
  <1>11. Expected'
    BY <1>1, <1>2, <1>9, IdNames DEF Expected, bridgeVars
  <1>12. LastWord' /\ CancelledOnce'
    BY <1>1, <1>2 DEF LastWord, CancelledOnce, bridgeVars
  <1>13. Handshaking'
    BY <1>1, <1>3, <1>4 DEF Handshaking, bridgeVars
  <1>14. Answered'
    BY <1>1, <1>3 DEF Answered, bridgeVars
  <1> QED
    BY <1>6, <1>7, <1>8, <1>10, <1>11, <1>12, <1>13, <1>14 DEF IInv, Typed, Agreed

\* An open client takes a frame of an id that it awaits: an event changes no record,
\* a terminal frame ends the wait, and neither is followed by another terminal frame.
LEMMA DeliverStep ==
    ASSUME IInv, client \in {"ready", "closing"}, toClient # <<>>, toClient' = Tail(toClient),
           UNCHANGED <<client, cause, toBridge, bridgeVars>>, running' \subseteq Spawned,
           NEW id \in Ids, id = Head(toClient).id,
           \/ ~TerminalFrame(Head(toClient)) /\ record' = record
           \/ /\ TerminalFrame(Head(toClient)) /\ (id = ShutdownId => record'[id] # "resolved")
              /\ record' \in [Ids -> RecordState]
              /\ \A i \in Ids \ {id} : record'[i] = record[i]
              /\ record'[id] \in {"forgotten", "rejected", "queued", "resolved"}
              /\ record'[id] = "queued" => record[id] = "pending"
    PROVE  IInv'
  <1> DEFINE f == Head(toClient)
  <1>1. /\ Typed /\ ShutdownReplied /\ EveryFrameIsAttributed
        /\ Fresh /\ Expected /\ LastWord /\ CancelledOnce /\ Handshaking /\ Answered
    BY DEF IInv, Agreed
  <1>2. toClient \in Seq(FrameToClient) /\ TerminalIsLast(toClient) /\ ShutdownIsLast(toClient)
    BY <1>1 DEF Typed, PipesTyped, LastWord, ShutdownReplied
  <1>3. /\ toClient' \in Seq(FrameToClient) /\ IdsIn(toClient) = {id} \cup IdsIn(toClient')
        /\ EndedIn(toClient') \subseteq EndedIn(toClient)
        /\ EndedIn(toClient) \subseteq EndedIn(toClient') \cup (IF TerminalFrame(f) THEN {id} ELSE {})
        /\ TerminalIsLast(toClient') /\ ShutdownIsLast(toClient')
        /\ TerminalFrame(f) => id \notin IdsIn(toClient') /\ id \in EndedIn(toClient)
    BY <1>2, Taken
  <1>4. Awaits(id) /\ id \notin IdsIn(toBridge) /\ record[ShutdownId] # "resolved"
    BY <1>1, <1>3 DEF Expected, Fresh, ShutdownReplied
  <1> HIDE DEF f
  <1>5. record \in [Ids -> RecordState] /\ record' \in [Ids -> RecordState]
    BY <1>1 DEF Typed, ClientTyped
  <1>6. ClientTyped' /\ SeenTyped' /\ BridgeTyped'
    BY <1>1, <1>5 DEF Typed, ClientTyped, SeenTyped, BridgeTyped, bridgeVars
  <1>7. PipesTyped'
    BY <1>1, <1>3 DEF Typed, PipesTyped, bridgeVars
  <1>8. /\ record'[ShutdownId] # "resolved" /\ ShutdownId \in Ids
        /\ id = ShutdownId => record[ShutdownId] # "unused" /\ serve = "exited"
        /\ id # ShutdownId => record'[ShutdownId] = record[ShutdownId]
    BY <1>1, <1>3, <1>4, IdNames DEF Awaits, ShutdownReplied, Quiet
  <1>9. ShutdownReplied'
    <2>1. Quiet' <=> Quiet
      BY DEF Quiet, Joined, bridgeVars
    <2> QED
      BY <1>1, <1>3, <1>4, <1>8, <2>1 DEF ShutdownReplied
  <1>10. EveryFrameIsAttributed'
    BY <1>1 DEF EveryFrameIsAttributed, bridgeVars
  <1>11. /\ \A i \in Ids \ {id} : Awaits(i)' <=> Awaits(i)
         /\ ~TerminalFrame(f) => Awaits(id)'
         /\ TerminalFrame(f) => ~Awaits(id)'
         /\ \A i \in Ids : record'[i] = "unused" => record[i] = "unused"
    BY <1>4 DEF Awaits, f
  <1>12. Fresh'
    BY <1>1, <1>3, <1>4, <1>11 DEF Fresh, bridgeVars
  <1>13. Expected'
    <2>1. \A i \in Ids \cap IdsIn(toClient') : Awaits(i)'
      BY <1>1, <1>3, <1>11 DEF Expected
    <2>2. \A r \in Spawned : tasks[r] = "running" => Awaits(r)'
      <3>1. \A r \in Spawned : tasks[r] = "running" => Awaits(r) /\ (TerminalFrame(f) => r # id)
        BY <1>1, <1>3 DEF Expected, LastWord
      <3> QED
        BY <1>11, <3>1, IdNames
    <2>3. \A r \in Spawned : record'[r] = "unused" => tasks[r] = "none"
      BY <1>1, <1>11, IdNames DEF Expected
    <2>4. serve = "draining" => (Awaits(ShutdownId)' <=> Awaits(ShutdownId))
      BY <1>8 DEF Awaits
    <2> QED
      BY <1>1, <2>1, <2>2, <2>3, <2>4 DEF Expected, bridgeVars
  <1>14. LastWord'
    BY <1>1, <1>3 DEF LastWord, bridgeVars
  <1>15. CancelledOnce'
    <2> SUFFICES ASSUME NEW r \in Requests, record'[r] \in {"unused", "pending", "queued"}
                 PROVE  record'[CancelOf(r)] = "unused"
      BY DEF CancelledOnce
    <2>1. r \in Ids /\ CancelOf(r) \in Ids
      BY IdNames
    <2>2. record[r] \in {"unused", "pending", "queued"}
      BY <2>1
    <2>3. record[CancelOf(r)] = "unused"
      BY <1>1, <2>2 DEF CancelledOnce
    <2>4. CancelOf(r) # id
      BY <1>4, <2>3 DEF Awaits
    <2> QED
      BY <2>1, <2>3, <2>4
  <1>16. Handshaking'
    BY <1>1, <1>3, <1>8 DEF Handshaking, bridgeVars
  <1>17. Answered'
    <2> SUFFICES ASSUME serve = "serving", NEW i \in Ids, Awaits(i)'
                 PROVE  \/ i \in IdsIn(toBridge) \/ i \in EndedIn(toClient')
                        \/ i \in Spawned /\ tasks[i] \in {"running", "panicked"}
      BY DEF Answered, bridgeVars
    <2>1. Awaits(i) /\ (i = id => ~TerminalFrame(f))
      BY <1>4, <1>11
    <2>2. \/ i \in IdsIn(toBridge) \/ i \in EndedIn(toClient)
          \/ i \in Spawned /\ tasks[i] \in {"running", "panicked"}
      BY <1>1, <2>1 DEF Answered
    <2> QED
      BY <1>3, <2>1, <2>2
  <1> QED
    BY <1>6, <1>7, <1>9, <1>10, <1>12, <1>13, <1>14, <1>15, <1>16, <1>17 DEF IInv, Typed, Agreed

\* The first frame of a connecting client is the handshake.
LEMMA HandshakeKeeps ==
    ASSUME IInv, toClient # <<>>, toClient' = Tail(toClient), client = "connecting",
           RouteHandshake(Head(toClient)), UNCHANGED <<toBridge, bridgeVars>>
    PROVE  IInv'
  <1>1. /\ Typed /\ ShutdownReplied /\ EveryFrameIsAttributed
        /\ Fresh /\ Expected /\ LastWord /\ CancelledOnce /\ Handshaking
    BY DEF IInv, Agreed
  <1>2. /\ serve \in {"serving", "exited"} /\ toBridge = <<>> /\ toClient = <<Frame("handshake", InitId)>>
        /\ \A id \in Ids : record[id] = "unused"
    BY <1>1 DEF Handshaking
  <1>3. toClient' = <<>> /\ Head(toClient).type = "handshake"
    BY <1>2, NewFrames
  <1>4. client' = "ready" /\ UNCHANGED <<cause, record, running>>
    BY <1>3 DEF RouteHandshake
  <1>5. ClientTyped' /\ SeenTyped' /\ BridgeTyped' /\ PipesTyped'
    BY <1>1, <1>3, <1>4, EmptyPipe
       DEF Typed, ClientTyped, SeenTyped, BridgeTyped, PipesTyped, bridgeVars
  <1>6. ShutdownReplied'
    BY <1>2, <1>3, <1>4, EmptyPipe, IdNames DEF ShutdownReplied
  <1>7. EveryFrameIsAttributed'
    BY <1>1, <1>4 DEF EveryFrameIsAttributed, bridgeVars
  <1>8. \A id \in Ids : ~Awaits(id) /\ ~Awaits(id)'
    BY <1>2, <1>4 DEF Awaits
  <1>9. Fresh'
    BY <1>2, <1>4, EmptyPipe DEF Fresh, bridgeVars
  <1>10. Expected'
    BY <1>1, <1>3, <1>4, <1>8, EmptyPipe, IdNames DEF Expected, bridgeVars
  <1>11. LastWord' /\ CancelledOnce'
    BY <1>1, <1>3, <1>4, EmptyPipe DEF LastWord, CancelledOnce
  <1>12. Handshaking'
    BY <1>2, <1>3, <1>4, EmptyPipe, IdNames DEF Handshaking, bridgeVars
  <1>13. Answered'
    BY <1>8 DEF Answered
  <1> QED
    BY <1>5, <1>6, <1>7, <1>9, <1>10, <1>11, <1>12, <1>13 DEF IInv, Typed, Agreed

\* Every later frame is the error of the id limit, or has an id that is awaited.
LEMMA RouteKeeps ==
    ASSUME IInv, toClient # <<>>, toClient' = Tail(toClient), client \in {"ready", "closing"},
           Route(Head(toClient)), UNCHANGED <<toBridge, bridgeVars>>
    PROVE  IInv'
  <1> DEFINE f == Head(toClient)
             id == f.id
  <1>1. /\ Typed /\ ShutdownReplied /\ Expected /\ Handshaking
        /\ record \in [Ids -> RecordState] /\ running \subseteq Spawned
    BY DEF IInv, Agreed, Typed, ClientTyped
  <1>2. /\ f \in FrameToClient /\ IdsIn(toClient) = {id} \cup IdsIn(toClient')
        /\ id = ShutdownId => toClient' = <<>>
    <2>1. toClient \in Seq(FrameToClient) /\ ShutdownIsLast(toClient)
      BY <1>1 DEF Typed, PipesTyped, ShutdownReplied
    <2> QED
      BY <2>1, Taken
  <1>3. id = NoId \/ id \in Ids
    BY <1>1, <1>2, ClientFrames DEF Handshaking
  <1>4. Route(f)
    OBVIOUS
  <1> HIDE DEF f
  <1>5. CASE id = NoId
    <2>1. CloseWith("uncorrelated_error") /\ running' = running
      BY <1>4, <1>5 DEF Route
    <2>2. Cardinality(seen) >= MaxRequestIds
      BY <1>1, <1>2, <1>5 DEF Typed, PipesTyped
    <2> QED
      BY <2>1, <2>2, Rejected, ClosingKeeps DEF CloseWith
  <1>6. CASE id \in Ids
    <2>1. id # NoId /\ Awaits(id) /\ f.type \in {"event", "result", "error"}
      BY <1>1, <1>2, <1>6, IdNames, ClientFrames DEF Expected
    <2>2. TerminalFrame(f) <=> f.type \in {"result", "error"}
      BY <1>2, ClientFrames
    <2>3. CASE record[id] = "ignored"
      <3>1. /\ record' = [record EXCEPT ![id] = IF TerminalFrame(f) THEN "forgotten" ELSE record[id]]
            /\ UNCHANGED <<client, cause, running>>
        BY <1>4, <2>1, <2>3 DEF Route
      <3>2. CASE ~TerminalFrame(f)
        <4>1. record' = record
          BY <1>1, <1>6, <3>1, <3>2
        <4> QED
          BY <1>1, <1>6, <3>1, <3>2, <4>1, DeliverStep DEF f
      <3>3. CASE TerminalFrame(f)
        <4>1. /\ record' \in [Ids -> RecordState] /\ record'[id] = "forgotten"
              /\ \A i \in Ids \ {id} : record'[i] = record[i]
          BY <1>1, <1>6, <3>1, <3>3 DEF RecordState
        <4> QED
          BY <1>1, <1>6, <3>1, <3>3, <4>1, DeliverStep DEF f
      <3> QED
        BY <3>2, <3>3
    <2>4. CASE record[id] = "pending" /\ f.type = "event"
      <3>1. running' = running \cup {id} /\ UNCHANGED <<client, cause, record>>
        BY <1>4, <2>1, <2>4 DEF Route
      <3>2. id \in Spawned /\ ~TerminalFrame(f)
        BY <1>2, <2>2, <2>4, ClientFrames
      <3> QED
        BY <1>1, <1>6, <3>1, <3>2, DeliverStep DEF f
    <2>5. CASE record[id] = "pending" /\ f.type \in {"result", "error"} /\ id = ShutdownId
      <3>1. /\ client' = "closed" /\ cause' = "shutdown" /\ running' = running
            /\ record' = RejectAll \/ record' = [RejectAll EXCEPT ![id] = "resolved"]
        BY <1>4, <2>1, <2>5 DEF Route, CloseWith
      <3>2. record' \in [Ids -> RecordState]
        BY <3>1, Rejected DEF RecordState
      <3>3. Quiet /\ toClient' = <<>>
        BY <1>1, <1>2, <2>5 DEF ShutdownReplied
      <3> QED
        BY <3>1, <3>2, <3>3, ClosingKeeps
    <2>6. CASE record[id] = "pending" /\ f.type \in {"result", "error"} /\ id # ShutdownId
      <3>1. PICK v \in {"rejected", "queued", "resolved"} :
                record' = [record EXCEPT ![id] = v] /\ UNCHANGED <<client, cause, running>>
        BY <1>4, <2>1, <2>6 DEF Route
      <3>2. /\ record' \in [Ids -> RecordState] /\ record'[id] = v
            /\ \A i \in Ids \ {id} : record'[i] = record[i]
        BY <1>1, <1>6, <3>1 DEF RecordState
      <3> QED
        BY <1>1, <1>6, <2>2, <2>6, <3>1, <3>2, DeliverStep DEF f
    <2> QED
      BY <2>1, <2>3, <2>4, <2>5, <2>6 DEF Awaits
  <1> QED
    BY <1>3, <1>5, <1>6

LEMMA ReceiveKeeps == IInv /\ Receive => IInv'
  BY HandshakeKeeps, RouteKeeps DEF Receive

LEMMA ClientKeepsIInv == IInv /\ Client => IInv'
  BY ConnectKeeps, ShutdownKeeps, ReceiveKeeps, DropLateOutputKeeps, CloseKeeps, RequestKeeps, AbortKeeps,
     HandlersFinishKeeps, ControlKeeps, ControlTimeoutKeeps, WriteFailsKeeps DEF Client

LEMMA StutterKeepsIInv == IInv /\ UNCHANGED vars => IInv'
  <1> SUFFICES ASSUME IInv, UNCHANGED vars PROVE IInv'
    OBVIOUS
  <1>1. UNCHANGED <<clientVars, toBridge, toClient, bridgeVars>>
    BY DEF vars
  <1>2. Typed' /\ ShutdownReplied' /\ EveryFrameIsAttributed'
    BY <1>1 DEF IInv, Typed, ClientTyped, SeenTyped, BridgeTyped, PipesTyped, ShutdownReplied, Quiet, Joined,
               EveryFrameIsAttributed, clientVars, bridgeVars
  <1>3. Agreed' /\ Answered'
    BY <1>1 DEF IInv, Agreed, Answered, Fresh, Expected, LastWord, CancelledOnce, Handshaking, Awaits,
               clientVars, bridgeVars
  <1> QED
    BY <1>2, <1>3 DEF IInv

-----------------------------------------------------------------------------
(* The theorems.                                                           *)

\* Both ends agree on every id they exchange, through every handler of the client
\* and every step of the serve loop and its tasks.
THEOREM IdsAlwaysAgree == Spec => []IInv
  <1>1. IInv /\ [Next]_vars => IInv'
    BY BridgeKeepsIInv, ClientKeepsIInv, StutterKeepsIInv DEF Next, Idle
  <1> QED
    BY <1>1, InitIInv, PTL DEF Spec

\* However aborts, control timeouts, late replies, crashes and shutdown interleave,
\* the client attributes every frame it receives (#route), and awaits or ignores an
\* id only as long as its terminal frame is still to come.
THEOREM FramesStayAttributed == Spec => []FramesAreAttributed
  BY IdsAlwaysAgree, IInvIsEnough, PTL

\* When shutdown() resolves, every request task of the bridge was joined or aborted
\* and no frame of theirs follows the reply.
THEOREM ShutdownQuiescesAlways == Spec => []ShutdownQuiesces
  BY IdsAlwaysAgree, IInvIsEnough, PTL
=============================================================================
