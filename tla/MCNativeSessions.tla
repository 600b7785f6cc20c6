-------------------------- MODULE MCNativeSessions --------------------------
(* Model values for NativeSessions: an exec request, a write_stdin request  *)
(* for its session, and more output than the buffer retains.                *)
EXTENDS NativeSessions
=============================================================================
