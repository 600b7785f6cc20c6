--------------------------- MODULE NativeSessions ---------------------------
(***************************************************************************)
(* A command run by exec_command and the managed session it may become:    *)
(* the process, the three drainer tasks that move its output and exit code *)
(* into the SessionOutput, the exec request that waits for it and may      *)
(* leave it in the session map, the write_stdin requests that poll it, and *)
(* the control frames that write to it or terminate it.                    *)
(*                                                                         *)
(* Session ids are never reused and sessions share nothing but the map, so *)
(* one session is modelled.  Output is counted in bytes; what is in them   *)
(* does not matter here.  Every critical section of the SessionOutput      *)
(* mutex is one step, together with the notify_waiters that follows it.    *)
(***************************************************************************)
EXTENDS Integers, FiniteSets

CONSTANTS
    Polls,        \* write_stdin requests for the session
    MaxRetained,  \* MAX_SESSION_OUTPUT_BYTES
    MaxWritten    \* bound: bytes the process writes

ASSUME SessionAssumption ==
    /\ "exec" \notin Polls
    /\ MaxRetained \in Nat
    /\ MaxWritten \in Nat

Exec == "exec"
Requests == {Exec} \cup Polls
Streams == {"stdout", "stderr"}

VARIABLES
    \* the operating system
    process,      \* "none", "running" or "exited"
    killed,       \* request_terminate or terminate was called
    pipe,         \* bytes written to a stream and not yet drained
    held,         \* streams the process or a descendant of it still holds open
    written,
    \* SessionOutput
    retained, original, truncated, exitCode,
    open,         \* stdout_open and stderr_open
    \* the bridge
    background,   \* allow_background_sessions
    entry,        \* the session in the map: "none", "present" or "removed"
    step,         \* where each request stands
    notified,     \* requests whose Notified future is ready
    cancelled,    \* requests whose token is cancelled
    snapshot,     \* what each request last took from the session
    result,       \* the terminal status of each request
    ended,        \* requests whose result says that the session is over
    drainSeen,    \* requests whose last wait ended because the session was drained
    interrupted   \* requests cancelled while they emitted output

osVars == <<process, killed, pipe, held, written>>
outputVars == <<retained, original, truncated, exitCode, open>>
requestVars == <<background, step, cancelled, snapshot, result, ended, drainSeen, interrupted>>
vars == <<osVars, outputVars, entry, notified, requestVars>>

NoSnapshot == [bytes |-> 0, exit |-> FALSE]

-----------------------------------------------------------------------------
(* The process, and the drainers.                                          *)

\* A process that was killed writes no more.
ProcessWrites(s) ==
    /\ process # "none" /\ ~killed
    /\ s \in held
    /\ \E n \in 1..(MaxWritten - written) :
          /\ written' = written + n
          /\ pipe' = [pipe EXCEPT ![s] = @ + n]
    /\ UNCHANGED <<process, killed, held, outputVars, entry, notified, requestVars>>

ProcessExits ==
    /\ process = "running"
    /\ process' = "exited"
    /\ UNCHANGED <<killed, pipe, held, written, outputVars, entry, notified, requestVars>>

\* A stream ends when its last holder closes it: before the process exits, or
\* after it when a descendant has inherited the stream.
StreamEnds(s) ==
    /\ process # "none"
    /\ s \in held
    /\ held' = held \ {s}
    /\ UNCHANGED <<process, killed, pipe, written, outputVars, entry, notified, requestVars>>

Notifiable_OnlyWaiting(r) == step[r] = "waiting"
\* wait_for_session creates its Notified future before it looks at the output:
\* notify_waiters reaches it from then on.
Notifiable(r) == step[r] \in {"check", "checked", "waiting"}

NotifyWaiters == notified' = notified \cup {r \in Requests : Notifiable(r)}

Append_Unbounded(n) ==
    /\ original' = original + n
    /\ retained' = IF retained < MaxRetained THEN retained + n ELSE retained
    /\ truncated' = (truncated \/ retained >= MaxRetained)
Append_PartialUnflagged(n) ==
    LET room == MaxRetained - retained IN
    /\ original' = original + n
    /\ retained' = retained + IF n <= room THEN n ELSE room
    /\ truncated' = (truncated \/ room = 0)
\* append: keep what fits, and remember that something did not.
Append(n) ==
    LET room == MaxRetained - retained IN
    /\ original' = original + n
    /\ retained' = retained + IF n <= room THEN n ELSE room
    /\ truncated' = (truncated \/ n > room)

DrainOutput(s) ==
    /\ \E n \in 1..pipe[s] :
          /\ pipe' = [pipe EXCEPT ![s] = @ - n]
          /\ Append(n)
    /\ NotifyWaiters
    /\ UNCHANGED <<process, killed, held, written, exitCode, open, entry, requestVars>>

CloseStream(s) ==
    /\ s \in open \ held
    /\ pipe[s] = 0
    /\ open' = open \ {s}
    /\ NotifyWaiters
    /\ UNCHANGED <<osVars, retained, original, truncated, exitCode, entry, requestVars>>

SetExitCode ==
    /\ process = "exited" /\ ~exitCode
    /\ exitCode' = TRUE
    /\ NotifyWaiters
    /\ UNCHANGED <<osVars, retained, original, truncated, open, entry, requestVars>>

IsDrained_ExitOnly == exitCode
IsDrained == exitCode /\ open = {}

-----------------------------------------------------------------------------
(* The requests.                                                           *)

RequestTerminate == killed' = TRUE /\ UNCHANGED <<process, pipe, held, written>>

End(r, status) ==
    /\ step' = [step EXCEPT ![r] = "done"]
    /\ result' = [result EXCEPT ![r] = status]

GoTo(r, where) == step' = [step EXCEPT ![r] = where] /\ UNCHANGED result

\* run_exec_process up to its first wait.
Spawn ==
    /\ step[Exec] = "start"
    /\ \/ GoTo(Exec, "register") /\ process' = "running"
       \/ End(Exec, "error") /\ UNCHANGED process
    /\ UNCHANGED <<killed, pipe, held, written, outputVars, entry, notified, background,
                   cancelled, snapshot, ended, drainSeen, interrupted>>

\* write_stdin looks the session up; from here on it holds the session itself.
Lookup(r) ==
    /\ r \in Polls
    /\ step[r] = "start"
    /\ IF entry = "present" THEN GoTo(r, "authorize") ELSE End(r, "error")
    /\ UNCHANGED <<osVars, outputVars, entry, notified, background, cancelled, snapshot, ended,
                   drainSeen, interrupted>>

\* An empty poll goes straight to the wait; anything else is authorized first (see
\* ApprovalGate), which can be declined or be cancelled.
Authorize(r) ==
    /\ step[r] = "authorize"
    /\ \/ GoTo(r, "register")
       \/ ~cancelled[r] /\ GoTo(r, "write")
       \/ End(r, "error")
       \/ cancelled[r] /\ End(r, "aborted")
    /\ UNCHANGED <<osVars, outputVars, entry, notified, background, cancelled, snapshot, ended,
                   drainSeen, interrupted>>

\* The input is handed to the writer of the session, as soon as its channel has
\* room: the process may never read.  No cancellation is looked at meanwhile.
WriteInput(r) ==
    /\ step[r] = "write"
    /\ GoTo(r, "register") \/ End(r, "error")
    /\ UNCHANGED <<osVars, outputVars, entry, notified, background, cancelled, snapshot, ended,
                   drainSeen, interrupted>>

\* wait_for_session: changed.notified() ...
Register(r) ==
    /\ step[r] = "register"
    /\ GoTo(r, "check")
    /\ notified' = notified \ {r}
    /\ UNCHANGED <<osVars, outputVars, entry, background, cancelled, snapshot, ended, drainSeen,
                   interrupted>>

\* ... is_drained() ...
Check(r) ==
    /\ step[r] = "check"
    /\ GoTo(r, IF IsDrained THEN "snapshot" ELSE "checked")
    /\ drainSeen' = IF IsDrained THEN drainSeen \cup {r} ELSE drainSeen
    /\ UNCHANGED <<osVars, outputVars, entry, notified, background, cancelled, snapshot, ended,
                   interrupted>>

\* ... and the select, which is not entered under the lock is_drained() took ...
EnterSelect(r) ==
    /\ step[r] = "checked"
    /\ GoTo(r, "waiting")
    /\ UNCHANGED <<osVars, outputVars, entry, notified, background, cancelled, snapshot, ended,
                   drainSeen, interrupted>>

\* ... and ends with a change, or the deadline.
Woken(r) ==
    /\ step[r] = "waiting"
    /\ r \in notified
    /\ GoTo(r, "register")
    /\ UNCHANGED <<osVars, outputVars, entry, notified, background, cancelled, snapshot, ended,
                   drainSeen, interrupted>>

Deadline(r) ==
    /\ step[r] = "waiting"
    /\ GoTo(r, "snapshot")
    /\ UNCHANGED <<osVars, outputVars, entry, notified, background, cancelled, snapshot, ended,
                   drainSeen, interrupted>>

AfterCancel_KeepsProcess(r) == UNCHANGED <<osVars, entry>>
\* The select terminates the process; write_stdin also forgets the session.
AfterCancel(r) ==
    /\ RequestTerminate
    /\ entry' = IF r \in Polls /\ entry = "present" THEN "removed" ELSE entry

CancelledWait_Ignored(r) == FALSE /\ UNCHANGED vars
CancelledWait(r) ==
    /\ step[r] = "waiting"
    /\ cancelled[r]
    /\ End(r, "aborted")
    /\ AfterCancel(r)
    /\ UNCHANGED <<outputVars, notified, background, cancelled, snapshot, ended, drainSeen, interrupted>>

\* snapshot drains the retained chunks and resets the counters.
TakeSnapshot(r) ==
    /\ step[r] = "snapshot"
    /\ snapshot' = [snapshot EXCEPT ![r] = [bytes |-> retained, exit |-> exitCode]]
    /\ retained' = 0 /\ original' = 0 /\ truncated' = FALSE
    /\ GoTo(r, "emit")
    /\ UNCHANGED <<osVars, exitCode, open, entry, notified, background, cancelled, ended, drainSeen,
                   interrupted>>

\* emit_session_chunks has sent every chunk.
Emitted(r) ==
    /\ step[r] = "emit"
    /\ GoTo(r, "decide")
    /\ UNCHANGED <<osVars, outputVars, entry, notified, background, cancelled, snapshot, ended,
                   drainSeen, interrupted>>

CancelledEmit_Ignored(r) == FALSE /\ UNCHANGED vars
\* A chunk meets a full window and the cancellation arrives: the early return of
\* run_exec_process drops its session without terminating the process, which the
\* drainers keep alive; write_stdin terminates it and forgets the session.
CancelledEmit(r) ==
    /\ step[r] = "emit"
    /\ cancelled[r] /\ snapshot[r].bytes > 0
    /\ End(r, "aborted")
    /\ interrupted' = interrupted \cup {r}
    /\ IF r \in Polls THEN AfterCancel(r) ELSE UNCHANGED <<osVars, entry>>
    /\ UNCHANGED <<outputVars, notified, background, cancelled, snapshot, ended, drainSeen>>

\* A drained session is over, one that runs is kept, or terminated and waited
\* for once more when sessions may not stay in the background.
DecideExec ==
    /\ step[Exec] = "decide"
    /\ \/ /\ killed  \* the second time: terminated after its deadline
          /\ End(Exec, "timed_out")
          /\ ended' = ended \cup {Exec}
          /\ UNCHANGED <<osVars, entry>>
       \/ /\ ~killed /\ IsDrained
          /\ End(Exec, "completed")
          /\ ended' = ended \cup {Exec}
          /\ UNCHANGED <<osVars, entry>>
       \/ /\ ~killed /\ ~IsDrained /\ background
          /\ End(Exec, "completed")
          /\ entry' = "present"
          /\ UNCHANGED <<osVars, ended>>
       \/ /\ ~killed /\ ~IsDrained /\ ~background
          /\ RequestTerminate
          /\ GoTo(Exec, "register")
          /\ UNCHANGED <<entry, ended>>
    /\ UNCHANGED <<outputVars, notified, background, cancelled, snapshot, drainSeen, interrupted>>

DecidePoll(r) ==
    /\ r \in Polls
    /\ step[r] = "decide"
    /\ End(r, "completed")
    /\ IF IsDrained
       THEN ended' = ended \cup {r} /\ entry' = "removed"
       ELSE UNCHANGED <<ended, entry>>
    /\ UNCHANGED <<osVars, outputVars, notified, background, cancelled, snapshot, drainSeen, interrupted>>

Request(r) ==
    \/ r = Exec /\ (Spawn \/ DecideExec)
    \/ Lookup(r) \/ Authorize(r) \/ WriteInput(r) \/ Register(r) \/ Check(r) \/ EnterSelect(r) \/ Woken(r)
    \/ Deadline(r)
    \/ CancelledWait(r) \/ TakeSnapshot(r) \/ Emitted(r) \/ CancelledEmit(r) \/ DecidePoll(r)

Cancel(r) ==
    /\ step[r] # "done" /\ ~cancelled[r]
    /\ cancelled' = [cancelled EXCEPT ![r] = TRUE]
    /\ UNCHANGED <<osVars, outputVars, entry, notified, background, step, snapshot, result, ended,
                   drainSeen, interrupted>>

\* terminate_session, and terminate_all at the end of the connection.
TerminateSession ==
    /\ entry = "present"
    /\ entry' = "removed"
    /\ RequestTerminate
    /\ UNCHANGED <<outputVars, notified, requestVars>>

\* write_session finds that the process has exited: the session is removed.
WriteAfterExit ==
    /\ entry = "present"
    /\ process = "exited"
    /\ entry' = "removed"
    /\ UNCHANGED <<osVars, outputVars, notified, requestVars>>

-----------------------------------------------------------------------------

Init ==
    /\ process = "none" /\ killed = FALSE
    /\ pipe = [s \in Streams |-> 0] /\ held = Streams /\ written = 0
    /\ retained = 0 /\ original = 0 /\ truncated = FALSE /\ exitCode = FALSE
    /\ open = Streams
    /\ background \in BOOLEAN
    /\ entry = "none"
    /\ step = [r \in Requests |-> "start"]
    /\ notified = {}
    /\ cancelled = [r \in Requests |-> FALSE]
    /\ snapshot = [r \in Requests |-> NoSnapshot]
    /\ result = [r \in Requests |-> "none"]
    /\ ended = {} /\ drainSeen = {} /\ interrupted = {}

Finished ==
    /\ \A r \in Requests : step[r] = "done"
    /\ UNCHANGED vars

Next ==
    \/ \E s \in Streams : ProcessWrites(s) \/ StreamEnds(s) \/ DrainOutput(s) \/ CloseStream(s)
    \/ ProcessExits \/ SetExitCode
    \/ \E r \in Requests : Request(r) \/ Cancel(r)
    \/ TerminateSession \/ WriteAfterExit
    \/ Finished

Spec == Init /\ [][Next]_vars

\* Fairness: request tasks run, except that no deadline is owed to fire early,
\* the user is not owed to answer, the process is not owed to read its input and
\* no emit is owed to find room in the window (FlowControl has a trace where it
\* never does); one that finds none notices its cancellation.
Fairness ==
    \A r \in Requests :
        /\ WF_vars(Register(r) \/ Check(r) \/ EnterSelect(r) \/ Woken(r) \/ CancelledWait(r)
                   \/ TakeSnapshot(r))
        /\ WF_vars(step[r] \in {"start", "decide"} /\ Request(r))
        /\ WF_vars(cancelled[r] /\ Authorize(r))
        /\ WF_vars(snapshot[r].bytes = 0 /\ Emitted(r))
        /\ WF_vars(CancelledEmit(r))

FairSpec == Spec /\ Fairness

-----------------------------------------------------------------------------
(* Properties.                                                             *)

StepState == {"start", "authorize", "write", "register", "check", "checked", "waiting", "snapshot",
              "emit", "decide", "done"}

\* Every variable keeps its type.
TypeOK ==
    /\ process \in {"none", "running", "exited"} /\ killed \in BOOLEAN
    /\ pipe \in [Streams -> 0..MaxWritten] /\ held \subseteq Streams /\ written \in 0..MaxWritten
    /\ retained \in 0..MaxRetained /\ original \in 0..MaxWritten /\ truncated \in BOOLEAN
    /\ exitCode \in BOOLEAN /\ open \subseteq Streams
    /\ background \in BOOLEAN
    /\ entry \in {"none", "present", "removed"}
    /\ step \in [Requests -> StepState]
    /\ notified \subseteq Requests
    /\ cancelled \in [Requests -> BOOLEAN]
    /\ snapshot \in [Requests -> [bytes : 0..MaxRetained, exit : BOOLEAN]]
    /\ result \in [Requests -> {"none", "completed", "timed_out", "error", "aborted"}]
    /\ ended \subseteq Requests /\ drainSeen \subseteq Requests /\ interrupted \subseteq Requests

\* Output that did not fit the buffer is never dropped silently: between two
\* snapshots the truncation mark is set exactly when bytes are missing.
DropsAreFlagged == truncated <=> original > retained

\* No process is lost: one that runs and was not told to terminate is either
\* being waited for by its exec request, or can be reached through the session
\* map.  The one way around this is a cancellation of the exec request while its
\* output meets a full event window.
ProcessesAreTracked ==
    process = "running" /\ ~killed =>
        step[Exec] # "done" \/ entry = "present" \/ Exec \in interrupted

\* A request whose wait ended because the session was drained, and which reports
\* the session as over, has the exit code, and no output is left behind: not in
\* the buffer, and not in a stream that was still open when the process exited.
DrainedResultIsComplete ==
    \A r \in ended \cap drainSeen :
        snapshot[r].exit /\ retained = 0 /\ \A s \in Streams : pipe[s] = 0

\* A waiting request notices that its session is drained, without waiting for
\* its deadline, however the drainers interleave with the registration.
DrainWakesWaiter ==
    \A r \in Requests : (step[r] = "waiting" /\ IsDrained) ~> (step[r] # "waiting")

\* A cancelled request ends, wherever it stands, unless it stands in the write to
\* an input that the process does not read; past that write it ends, too.
CancelledRequestEnds ==
    \A r \in Requests : cancelled[r] ~> step[r] \in {"done", "write"}

\* Output is accounted for: the state is typed, what is dropped is flagged, and
\* a session that was seen drained is reported whole.
OutputIsAccountedFor == TypeOK /\ DropsAreFlagged /\ DrainedResultIsComplete

\* No request waits for ever for a session that is drained, nor, but for the
\* write to its input, after it was cancelled.
WaitersEnd == DrainWakesWaiter /\ CancelledRequestEnds
=============================================================================
