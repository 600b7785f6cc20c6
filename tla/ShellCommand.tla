---------------------------- MODULE ShellCommand ----------------------------
(***************************************************************************)
(* The one-shot shell_command tool: run_shell_process owns the process     *)
(* handle and loops over five sources (cancellation, deadline, exit code,  *)
(* stdout, stderr) until the process has exited and both streams ended.    *)
(* Each chunk is emitted as an event before the loop looks at the sources  *)
(* again; when the function returns by any path, dropping the handle kills *)
(* the process group.                                                      *)
(***************************************************************************)
EXTENDS Integers

CONSTANTS
    MaxOutput,   \* MAX_OUTPUT_BYTES, the output the result retains
    MaxWritten   \* bound: bytes the process writes

ASSUME ShellAssumption == MaxOutput \in Nat /\ MaxWritten \in Nat

Streams == {"stdout", "stderr"}

VARIABLES
    process,    \* "running" or "exited"
    killed,     \* the process group was killed
    pipe, held, \* per stream: bytes not yet received; whether anyone holds it open
    written,
    step,       \* "select", "emit" or "done"
    exitCode, open, output, truncated,  \* the locals of run_shell_process
    received,   \* bytes received
    cancelled,
    result      \* "none", "completed", "timed_out" or "aborted"

osVars == <<process, killed, pipe, held, written>>
localVars == <<exitCode, open, output, truncated, received>>
vars == <<osVars, localVars, step, cancelled, result>>

-----------------------------------------------------------------------------
(* The process and its descendants.                                        *)

ProcessWrites(s) ==
    /\ ~killed /\ s \in held
    /\ \E n \in 1..(MaxWritten - written) :
          /\ written' = written + n
          /\ pipe' = [pipe EXCEPT ![s] = @ + n]
    /\ UNCHANGED <<process, killed, held, localVars, step, cancelled, result>>

\* A descendant that inherited a stream holds it open after the exit.
ProcessExits ==
    /\ process = "running"
    /\ process' = "exited"
    /\ UNCHANGED <<killed, pipe, held, written, localVars, step, cancelled, result>>

StreamEnds(s) ==
    /\ s \in held
    /\ held' = held \ {s}
    /\ UNCHANGED <<process, killed, pipe, written, localVars, step, cancelled, result>>

-----------------------------------------------------------------------------
(* run_shell_process.                                                      *)

\* Every return drops the handle, and that terminates the process.
Return(status) ==
    /\ step' = "done"
    /\ result' = status
    /\ killed' = TRUE
    /\ UNCHANGED <<process, pipe, held, written>>

Complete_ExitOnly == exitCode
\* The loop ends when the process has exited and both streams have ended.
Complete == exitCode /\ open = {}

Completes ==
    /\ step = "select" /\ Complete
    /\ Return("completed")
    /\ UNCHANGED <<localVars, cancelled>>

CancelledSelect_Ignored == FALSE /\ UNCHANGED vars
CancelledSelect ==
    /\ step = "select" /\ ~Complete
    /\ cancelled
    /\ Return("aborted")
    /\ UNCHANGED <<localVars, cancelled>>

Deadline_AfterExit ==
    /\ step = "select" /\ ~Complete
    /\ exitCode
    /\ Return("timed_out")
    /\ UNCHANGED <<localVars, cancelled>>
\* The deadline branch is disabled once the exit code is known.
Deadline ==
    /\ step = "select" /\ ~Complete
    /\ ~exitCode
    /\ Return("timed_out")
    /\ UNCHANGED <<localVars, cancelled>>

ReceiveExit ==
    /\ step = "select" /\ ~Complete
    /\ process = "exited" /\ ~exitCode
    /\ exitCode' = TRUE
    /\ UNCHANGED <<osVars, open, output, truncated, received, step, cancelled, result>>

Retain_Unbounded(n) ==
    /\ output' = IF output < MaxOutput THEN output + n ELSE output
    /\ truncated' = (truncated \/ output >= MaxOutput)
\* append_process_output keeps what fits.  (The lossy conversion to UTF-8 may
\* replace a byte by three; bytes are counted as they were received.)
Retain(n) ==
    LET room == MaxOutput - output IN
    /\ output' = output + IF n <= room THEN n ELSE room
    /\ truncated' = (truncated \/ n > room)

\* A chunk is received and retained; its event is still to be emitted.
ReceiveChunk(s) ==
    /\ step = "select" /\ ~Complete
    /\ s \in open
    /\ \E n \in 1..pipe[s] :
          /\ pipe' = [pipe EXCEPT ![s] = @ - n]
          /\ received' = received + n
          /\ Retain(n)
    /\ step' = "emit"
    /\ UNCHANGED <<process, killed, held, written, exitCode, open, cancelled, result>>

ReceiveEnd(s) ==
    /\ step = "select" /\ ~Complete
    /\ s \in open \ held /\ pipe[s] = 0
    /\ open' = open \ {s}
    /\ UNCHANGED <<osVars, exitCode, output, truncated, received, step, cancelled, result>>

\* While the event waits for room in the window nothing else is looked at: only
\* a cancellation, inside emit, ends the wait.
Emitted ==
    /\ step = "emit"
    /\ step' = "select"
    /\ UNCHANGED <<osVars, localVars, cancelled, result>>

CancelledEmit_Ignored == FALSE /\ UNCHANGED vars
CancelledEmit ==
    /\ step = "emit"
    /\ cancelled
    /\ Return("aborted")
    /\ UNCHANGED <<localVars, cancelled>>

Cancel ==
    /\ ~cancelled /\ step # "done"
    /\ cancelled' = TRUE
    /\ UNCHANGED <<osVars, localVars, step, result>>

Loop ==
    \/ Completes \/ CancelledSelect \/ Deadline \/ ReceiveExit
    \/ \E s \in Streams : ReceiveChunk(s) \/ ReceiveEnd(s)

-----------------------------------------------------------------------------

Init ==
    /\ process = "running" /\ killed = FALSE
    /\ pipe = [s \in Streams |-> 0] /\ held = Streams /\ written = 0
    /\ step = "select"
    /\ exitCode = FALSE /\ open = Streams /\ output = 0 /\ truncated = FALSE /\ received = 0
    /\ cancelled = FALSE /\ result = "none"

Finished == step = "done" /\ UNCHANGED vars

Next ==
    \/ ProcessExits
    \/ \E s \in Streams : ProcessWrites(s) \/ StreamEnds(s)
    \/ Loop \/ Emitted \/ CancelledEmit \/ Cancel \/ Finished

Spec == Init /\ [][Next]_vars

\* Fairness: the loop is scheduled.  The select picks among its ready branches at
\* random, so neither the cancellation nor a deadline that has passed is passed
\* over for ever.  Nothing obliges a process or its descendants to exit or to
\* close a stream, and nothing obliges the window to have room for an event.
Fairness ==
    /\ WF_vars(Loop) /\ SF_vars(Deadline)
    /\ SF_vars(CancelledSelect) /\ WF_vars(CancelledEmit)

FairSpec == Spec /\ Fairness

-----------------------------------------------------------------------------
(* Properties.                                                             *)

\* Every variable keeps its type.
TypeOK ==
    /\ process \in {"running", "exited"} /\ killed \in BOOLEAN /\ cancelled \in BOOLEAN
    /\ pipe \in [Streams -> 0..MaxWritten] /\ held \subseteq Streams /\ written \in 0..MaxWritten
    /\ step \in {"select", "emit", "done"}
    /\ exitCode \in BOOLEAN /\ open \subseteq Streams
    /\ output \in 0..MaxOutput /\ truncated \in BOOLEAN /\ received \in 0..MaxWritten
    /\ result \in {"none", "completed", "timed_out", "aborted"}

\* A completed command reports its exit code and everything it wrote: output
\* that was still in a pipe when the process exited is not lost, and what did
\* not fit is marked as truncated.
CompletedIsWhole ==
    result = "completed" =>
        exitCode /\ received = written /\ (truncated <=> output < received)

\* The state is typed, and a completed command is reported whole.
ResultIsWhole == TypeOK /\ CompletedIsWhole

\* A cancelled command ends, even while its output meets a full event window or
\* a descendant holds its streams open.
CancelledCommandEnds == cancelled ~> step = "done"

\* Every event of the command finds room in the window in the end.
EventsFindRoom == []<>(step # "emit")

\* "Maximum command runtime" (the timeout_ms parameter) is kept until the exit
\* code is known: as long as the shell runs the deadline ends the call, and once
\* the shell has exited the call ends when nobody holds its streams any more.
\* In between it may last: the deadline is disabled, so a descendant that keeps
\* a stream open keeps the call open.  It may also last while an event waits for
\* room: inside emit the deadline is not looked at.
OnlyDescendantsOutlast ==
    EventsFindRoom => <>(step = "done" \/ exitCode) /\ (held = {} ~> step = "done")

\* Nothing keeps a command from ending but a descendant that holds its streams
\* open and an event that finds no room, and a cancellation ends even those.
CommandEnds == CancelledCommandEnds /\ OnlyDescendantsOutlast
=============================================================================
