--------------------------- MODULE MCApprovalGate ---------------------------
(* Model values for ApprovalGate: an operation of every kind, with every    *)
(* policy; image generation has two approvals, of which the client may      *)
(* answer the first while the second waits; every user interface.           *)
EXTENDS ApprovalGate
=============================================================================
