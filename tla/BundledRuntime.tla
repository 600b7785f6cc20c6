--------------------------- MODULE BundledRuntime ---------------------------
(***************************************************************************)
(* BundledCodexRuntime: the owner of the bridge process.  Calls share one  *)
(* BridgeClient, the first opens it, concurrent ones await the same        *)
(* promise, a client that failed is forgotten so that the next call opens  *)
(* a new one, and shutdown forgets the client and shuts it down.           *)
(*                                                                         *)
(* JavaScript runs a function to its next await; when a promise settles,   *)
(* the continuations that await it run in the order they were registered,  *)
(* before the next event from outside (a frame, the end of a process) is   *)
(* delivered.  New calls may start between two continuations.              *)
(***************************************************************************)
EXTENDS Integers, Sequences, FiniteSets

CONSTANTS
    Calls,          \* calls of createResponse, compact, executeTool, ...
    Resolvers,      \* those among them that are resolveModel calls
    Shutdowns       \* bound: how often shutdown is called

ASSUME RuntimeAssumption ==
    /\ IsFiniteSet(Calls)
    /\ Resolvers \subseteq Calls
    /\ Shutdowns \in Nat

\* Each call opens at most one client, so these suffice.
Clients == 1..Cardinality(Calls)
None == 0

VARIABLES
    client,      \* #client, or None
    connecting,  \* #connecting: the client being opened, or None
    models,      \* whether #models holds the model
    status,      \* what became of each client
    waiting,     \* per client, the calls that await its opening, in order
    microtasks,  \* continuations to run
    call,        \* where each call stands
    using,       \* the client a call was given
    shutdowns,   \* how many shutdown calls began
    stopping,    \* clients that a shutdown call is shutting down
    disowned     \* clients whose promise shutdown or a joined call forgot (history)

vars == <<client, connecting, models, status, waiting, microtasks, call, using,
          shutdowns, stopping, disowned>>

Alive == {c \in Clients : status[c] \in {"opening", "ready"}}

-----------------------------------------------------------------------------

\* The outcome of the synchronous part of #connect: the call k has a client, or
\* awaits one that is being opened, or opens one.  current and pending are the
\* values of #client and #connecting it starts from, queue the continuations
\* that are already due.
UseClient_RereadsField(k, c) ==
    /\ call' = [call EXCEPT ![k] = "using"]
    /\ using' = [using EXCEPT ![k] = client]
    /\ UNCHANGED <<status, waiting>>
UseClient(k, c) ==
    /\ call' = [call EXCEPT ![k] = "using"]
    /\ using' = [using EXCEPT ![k] = c]
    /\ UNCHANGED <<status, waiting>>

\* await: a promise that has already settled resumes its caller in turn.
AwaitClient(k, c, queue) ==
    /\ IF status[c] \in {"unused", "opening"}
       THEN waiting' = [waiting EXCEPT ![c] = Append(@, k)] /\ microtasks' = queue
       ELSE microtasks' = Append(queue, [call |-> k, client |-> c]) /\ UNCHANGED waiting
    /\ UNCHANGED using

Unused == {c \in Clients : status[c] = "unused"}
NextClient == CHOOSE c \in Unused : TRUE

Shared_Never(pending) == FALSE
\* A promise that is pending is awaited rather than a second bridge opened.
Shared(pending) == pending # None

ConnectFrom(k, current, pending, queue) ==
    /\ client' = current
    /\ \/ /\ current # None
          /\ UseClient(k, current)
          /\ connecting' = pending
          /\ microtasks' = queue
       \/ /\ current = None /\ Shared(pending)
          /\ AwaitClient(k, pending, queue)
          /\ call' = [call EXCEPT ![k] = "joined"]
          /\ connecting' = pending
          /\ UNCHANGED status
       \/ /\ current = None /\ ~Shared(pending)
          /\ AwaitClient(k, NextClient, queue)
          /\ call' = [call EXCEPT ![k] = "opening"]
          /\ connecting' = NextClient
          /\ status' = [status EXCEPT ![NextClient] = "opening"]

\* A client that has failed is discarded before it is used again.
Discarded(c) == c # None /\ status[c] # "ready"

\* #connect.  #forgetClient drops the promise and the models as well.
Connect(k) ==
    IF Discarded(client)
    THEN ConnectFrom(k, None, None, microtasks) /\ models' = FALSE
    ELSE ConnectFrom(k, client, connecting, microtasks) /\ UNCHANGED models

StartCall(k) ==
    /\ call[k] = "idle"
    /\ IF k \in Resolvers /\ models
       THEN /\ call' = [call EXCEPT ![k] = "done"]
            /\ UNCHANGED <<client, connecting, models, status, waiting, microtasks, using>>
       ELSE Connect(k)
    /\ UNCHANGED <<shutdowns, stopping, disowned>>

Quiet == microtasks = <<>>

\* connectBundledBridge settles: the handshake succeeded, or the process ended,
\* timed out or did not match; or the client had failed again by the time its
\* promise resolved ("stillborn").
OpenSettles(c) ==
    /\ Quiet
    /\ status[c] = "opening"
    /\ \E outcome \in {"ready", "failed", "stillborn"} : status' = [status EXCEPT ![c] = outcome]
    /\ microtasks' = [i \in DOMAIN waiting[c] |-> [call |-> waiting[c][i], client |-> c]]
    /\ waiting' = [waiting EXCEPT ![c] = <<>>]
    /\ UNCHANGED <<client, connecting, models, call, using, shutdowns, stopping, disowned>>

Settled_KeptOnFailure(c) == IF status[c] = "failed" THEN connecting ELSE None
\* The finally block clears #connecting, whosever promise it holds by now.
Settled(c) == None

\* The continuation of the call that opened the client.
ResumeOpener(k, c) ==
    /\ call[k] = "opening"
    /\ connecting' = Settled(c)
    /\ IF status[c] = "failed"
       THEN call' = [call EXCEPT ![k] = "done"] /\ UNCHANGED <<client, status, waiting, using>>
       ELSE client' = c /\ UseClient(k, c)
    /\ microtasks' = Tail(microtasks)
    /\ UNCHANGED <<models, disowned>>

\* #forgetClient forgets the promise, too: nobody keeps the client it becomes.
Disowned == disowned \cup ({connecting} \ {None})

\* The continuation of a call that awaited another call's client.
ResumeJoiner(k, c) ==
    /\ call[k] = "joined"
    /\ \/ /\ status[c] = "failed"
          /\ call' = [call EXCEPT ![k] = "done"]
          /\ microtasks' = Tail(microtasks)
          /\ UNCHANGED <<client, connecting, models, status, waiting, using, disowned>>
       \/ /\ status[c] = "ready"
          /\ UseClient(k, c)
          /\ microtasks' = Tail(microtasks)
          /\ UNCHANGED <<client, connecting, models, disowned>>
       \/ /\ status[c] \in {"stillborn", "dead"}
          /\ ConnectFrom(k, None, None, Tail(microtasks))
          /\ disowned' = Disowned
          /\ models' = FALSE

Resume ==
    /\ ~Quiet
    /\ LET m == Head(microtasks) IN ResumeOpener(m.call, m.client) \/ ResumeJoiner(m.call, m.client)
    /\ UNCHANGED <<shutdowns, stopping>>

ForgetsOwn_Any(k) == TRUE
\* #discardClientIfFatal: only if the runtime still holds this call's client.
ForgetsOwn(k) == client = using[k]

\* The request settled; when its client failed, the client is discarded.
EndCall(k) ==
    /\ call[k] = "using"
    /\ call' = [call EXCEPT ![k] = "done"]
    /\ IF status[using[k]] # "ready"
       THEN IF ForgetsOwn(k)
            THEN client' = None /\ connecting' = None /\ models' = FALSE
            ELSE UNCHANGED <<client, connecting, models>>
       ELSE /\ models' \in {models, models \/ k \in Resolvers}
            /\ UNCHANGED <<client, connecting>>
    /\ UNCHANGED <<status, waiting, microtasks, using, shutdowns, stopping, disowned>>

\* The connection fails: a protocol failure, a handler that throws, a crash.
ClientFails(c) ==
    /\ Quiet
    /\ status[c] = "ready"
    /\ status' = [status EXCEPT ![c] = "dead"]
    /\ UNCHANGED <<client, connecting, models, waiting, microtasks, call, using,
                   shutdowns, stopping, disowned>>

\* shutdown: forget the client, then shut down the one that was held.
Shutdown ==
    /\ shutdowns < Shutdowns
    /\ shutdowns' = shutdowns + 1
    /\ stopping' = stopping \cup ({client} \ {None})
    /\ disowned' = Disowned
    /\ client' = None /\ connecting' = None /\ models' = FALSE
    /\ UNCHANGED <<status, waiting, microtasks, call, using>>

\* The bridge answered the shutdown request, or its time ran out.
ShutdownCompletes(c) ==
    /\ Quiet
    /\ c \in stopping
    /\ stopping' = stopping \ {c}
    /\ status' = [status EXCEPT ![c] = "dead"]
    /\ UNCHANGED <<client, connecting, models, waiting, microtasks, call, using, shutdowns, disowned>>

-----------------------------------------------------------------------------

Init ==
    /\ client = None /\ connecting = None /\ models = FALSE
    /\ status = [c \in Clients |-> "unused"]
    /\ waiting = [c \in Clients |-> <<>>]
    /\ microtasks = <<>>
    /\ call = [k \in Calls |-> "idle"]
    /\ using = [k \in Calls |-> None]
    /\ shutdowns = 0 /\ stopping = {} /\ disowned = {}

Finished ==
    /\ \A k \in Calls : call[k] = "done"
    /\ UNCHANGED vars

Next ==
    \/ \E k \in Calls : StartCall(k) \/ EndCall(k)
    \/ \E c \in Clients : OpenSettles(c) \/ ClientFails(c) \/ ShutdownCompletes(c)
    \/ Resume \/ Shutdown \/ Finished

Spec == Init /\ [][Next]_vars

-----------------------------------------------------------------------------
(* Properties.                                                             *)

\* Every variable keeps its type; a call that left #connect has a client.
TypeOK ==
    /\ client \in Clients \cup {None} /\ connecting \in Clients \cup {None}
    /\ models \in BOOLEAN
    /\ status \in [Clients -> {"unused", "opening", "ready", "failed", "stillborn", "dead"}]
    /\ \A c \in Clients : \A i \in DOMAIN waiting[c] : waiting[c][i] \in Calls
    /\ call \in [Calls -> {"idle", "opening", "joined", "using", "done"}]
    /\ \A k \in Calls : using[k] \in IF call[k] = "using" THEN Clients ELSE Clients \cup {None}
    /\ stopping \subseteq Clients /\ disowned \subseteq Clients

\* The bridge processes that no later shutdown would reach: nobody is shutting
\* them down, and they are neither held nor being opened nor about to be stored.
LeftBehind ==
    Alive \ ({client, connecting} \cup stopping \cup {microtasks[i].client : i \in DOMAIN microtasks})

\* However many calls overlap with the failure of the bridge, its replacement
\* and shutdown, a process is left behind only where #forgetClient forgot one
\* that was being opened: in shutdown, or in a call that joined a client which
\* had failed by the time its promise resolved.  Each such case leaves at most
\* one process; without one the runtime reaches every process.
LostOnlyIfDisowned == Cardinality(LeftBehind) <= Cardinality(disowned)

\* A call that ends late with the failure of an old client does not take down
\* the healthy client that has replaced it: only shutdown and the opening of
\* another client make the runtime let go of a client that is ready.
HealthyClientIsKept ==
    [][client # None /\ status[client] = "ready" /\ client' # client =>
          client' # None \/ shutdowns' # shutdowns]_vars

\* A promise that has settled does not stay in #connecting: otherwise one failed
\* start of the bridge would fail every later call.
ConnectingIsPending ==
    Quiet /\ connecting # None => status[connecting] = "opening"

\* Every bridge process is owned, apart from the disowned ones: the state is
\* typed, no other process is left behind, and no settled promise is kept.
BridgesAreOwned == TypeOK /\ LostOnlyIfDisowned /\ ConnectingIsPending
=============================================================================
