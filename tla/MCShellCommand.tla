--------------------------- MODULE MCShellCommand ---------------------------
(* Model values for ShellCommand: twice the output that is retained.        *)
EXTENDS ShellCommand
=============================================================================
