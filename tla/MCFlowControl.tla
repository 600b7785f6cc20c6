--------------------------- MODULE MCFlowControl ---------------------------
(* Model values for FlowControl: a window of two events, a channel of two   *)
(* frames, so that the window, the channel and the sequence are all         *)
(* exhausted within one request.                                            *)
EXTENDS FlowControl
=============================================================================
