---------------------------- MODULE EventStream ----------------------------
(***************************************************************************)
(* What one streamed bridge request promises its caller: events are        *)
(* produced and handled one after the other, none is skipped or repeated,  *)
(* at most Window of them are outstanding, and the request resolves only   *)
(* when every event that was produced has been handled.  A rejected        *)
(* request (an abort, an error frame, a lost connection) may leave events  *)
(* unhandled.  FlowControl is shown to implement this specification.       *)
(***************************************************************************)
EXTENDS Integers

CONSTANT Window  \* the most events that may be unhandled (MAX_PENDING_EVENTS)

VARIABLES
    produced,    \* how many events the request has numbered
    consumed,    \* how many of them the caller's onEvent has handled
    outcome      \* "open", "resolved" or "rejected"

streamVars == <<produced, consumed, outcome>>

Init ==
    /\ produced = 0
    /\ consumed = 0
    /\ outcome = "open"

\* The producer numbers the next event, if the window allows it.
Produce ==
    /\ outcome # "resolved"
    /\ produced - consumed < Window
    /\ produced' = produced + 1
    /\ UNCHANGED <<consumed, outcome>>

\* The caller handles the oldest unhandled event.
Consume ==
    /\ outcome # "resolved"
    /\ consumed < produced
    /\ consumed' = consumed + 1
    /\ UNCHANGED <<produced, outcome>>

Resolve ==
    /\ outcome = "open"
    /\ consumed = produced
    /\ outcome' = "resolved"
    /\ UNCHANGED <<produced, consumed>>

Reject ==
    /\ outcome = "open"
    /\ outcome' = "rejected"
    /\ UNCHANGED <<produced, consumed>>

Next == Produce \/ Consume \/ Resolve \/ Reject

Spec == Init /\ [][Next]_streamVars
=============================================================================
