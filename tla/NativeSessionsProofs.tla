------------------------ MODULE NativeSessionsProofs ------------------------
(***************************************************************************)
(* Proofs about a command session, for every number of polls, every buffer *)
(* size and every amount of output.                                        *)
(*                                                                         *)
(* Two arguments meet here.  Output: what is written is in a pipe or was   *)
(* appended, a stream is closed only when it is empty, so a session that   *)
(* is drained stays drained and its buffer, once taken, stays empty.       *)
(* Ownership: the exec request waits for the process until it hands it to  *)
(* the session map, and the map lets go only of a process that was told to *)
(* terminate or has exited.                                                *)
(*                                                                         *)
(* The last part proves the same of the output of one-shot commands.       *)
(***************************************************************************)
EXTENDS NativeSessions, TLAPS

-----------------------------------------------------------------------------
(* The inductive invariant.                                                *)

\* What was appended since the last snapshot, and what is still in the pipes,
\* was written.
Accounted == original + pipe["stdout"] + pipe["stderr"] <= written

\* The buffer keeps what fits and flags the rest.
KeptToLimit ==
    /\ retained <= original
    /\ truncated <=> retained < original
    /\ truncated => retained = MaxRetained

\* A stream is closed only when it is empty and has no holder left.
ClosedIsEmpty == \A s \in Streams : s \notin open => s \notin held /\ pipe[s] = 0

\* Only a process that has exited has an exit code, and there is none before the
\* exec request spawned it.
ProcessFollowsExec ==
    /\ exitCode => process = "exited"
    /\ step[Exec] \notin {"authorize", "write"}
    /\ step[Exec] = "start" => process = "none"

\* A request that saw the session drained goes on to take its output; from then
\* on it has the exit code and the buffer is empty.
SeenIsDrained ==
    \A r \in drainSeen :
        /\ IsDrained
        /\ step[r] \in {"snapshot", "emit", "decide", "done"}
        /\ step[r] # "snapshot" => snapshot[r].exit /\ retained = 0

\* A request that reported the session as over has ended.
EndedIsDone == \A r \in ended : step[r] = "done"

IInv ==
    /\ TypeOK /\ Accounted /\ KeptToLimit /\ ClosedIsEmpty
    /\ ProcessFollowsExec /\ SeenIsDrained /\ EndedIsDone /\ ProcessesAreTracked

-----------------------------------------------------------------------------
(* Facts that the steps share.                                             *)

\* What the type invariant says about the counters.
LEMMA Counters ==
    ASSUME TypeOK
    PROVE  /\ MaxRetained \in Nat /\ MaxWritten \in Nat
           /\ written \in Nat /\ written <= MaxWritten
           /\ original \in Nat /\ original <= MaxWritten
           /\ retained \in Nat /\ retained <= MaxRetained
           /\ pipe["stdout"] \in Nat /\ pipe["stderr"] \in Nat
           /\ \A s \in Streams : pipe[s] \in Nat /\ pipe[s] <= MaxWritten
  BY SessionAssumption DEF TypeOK, Streams

LEMMA InitIInv == Init => IInv
  <1> SUFFICES ASSUME Init PROVE IInv
    OBVIOUS
  <1>1. 0 \in 0..MaxWritten /\ 0 \in 0..MaxRetained
    BY SessionAssumption
  <1>2. snapshot \in [Requests -> [bytes : 0..MaxRetained, exit : BOOLEAN]]
    BY <1>1 DEF Init, NoSnapshot
  <1>3. step \in [Requests -> StepState] /\ step[Exec] = "start"
    BY DEF Init, StepState, Requests
  <1>4. TypeOK
    BY <1>1, <1>2, <1>3 DEF Init, TypeOK
  <1>5. Accounted
    BY DEF Init, Accounted, Streams
  <1>6. KeptToLimit /\ ClosedIsEmpty /\ SeenIsDrained /\ EndedIsDone
    BY DEF Init, KeptToLimit, ClosedIsEmpty, SeenIsDrained, EndedIsDone
  <1>7. ProcessFollowsExec /\ ProcessesAreTracked
    BY <1>3 DEF Init, ProcessFollowsExec, ProcessesAreTracked
  <1> QED
    BY <1>4, <1>5, <1>6, <1>7 DEF IInv

\* A step that neither moves a byte nor touches a stream.
LEMMA OutputKept ==
    ASSUME IInv, UNCHANGED <<pipe, held, written, retained, original, truncated, open>>
    PROVE  Accounted' /\ KeptToLimit' /\ ClosedIsEmpty'
  BY DEF IInv, Accounted, KeptToLimit, ClosedIsEmpty

\* A step of the process or of a drainer: the requests stay where they are.  The
\* exit code appears, and the buffer fills, only when nobody has seen the session
\* drained yet, for then there is nothing left to receive.
LEMMA RequestsKept ==
    ASSUME IInv, UNCHANGED <<step, snapshot, ended, drainSeen, interrupted, killed, entry>>,
           drainSeen # {} => IsDrained' /\ retained' = retained,
           process' = process \/ (process = "running" /\ process' = "exited"),
           exitCode' => process' = "exited"
    PROVE  ProcessFollowsExec' /\ SeenIsDrained' /\ EndedIsDone' /\ ProcessesAreTracked'
  <1>1. ProcessFollowsExec'
    BY DEF IInv, ProcessFollowsExec
  <1>2. SeenIsDrained' /\ EndedIsDone'
    BY DEF IInv, SeenIsDrained, EndedIsDone
  <1>3. ProcessesAreTracked'
    BY DEF IInv, ProcessesAreTracked
  <1> QED
    BY <1>1, <1>2, <1>3

\* Once a request has seen the session drained there is nothing in the pipes,
\* and nobody can write.
LEMMA DrainedIsEmpty ==
    ASSUME IInv, drainSeen # {}
    PROVE  IsDrained /\ \A s \in Streams : s \notin held /\ pipe[s] = 0
  <1>1. IsDrained
    BY DEF IInv, SeenIsDrained
  <1>2. open = {}
    BY <1>1 DEF IsDrained
  <1> QED
    BY <1>1, <1>2 DEF IInv, ClosedIsEmpty

-----------------------------------------------------------------------------
(* The process and the drainers.                                           *)

LEMMA ProcessWritesStep ==
    ASSUME IInv, NEW s \in Streams, ProcessWrites(s)
    PROVE  IInv'
  <1>1. PICK n \in 1..(MaxWritten - written) :
           written' = written + n /\ pipe' = [pipe EXCEPT ![s] = @ + n]
    BY DEF ProcessWrites
  <1>2. s \in held /\ UNCHANGED <<process, killed, held, outputVars, entry, notified, requestVars>>
    BY DEF ProcessWrites
  <1>3. UNCHANGED <<process, killed, held, retained, original, truncated, exitCode, open, entry,
                    notified, background, step, cancelled, snapshot, result, ended, drainSeen,
                    interrupted>>
    BY <1>2 DEF outputVars, requestVars
  <1>4. /\ n \in Nat /\ written' <= MaxWritten /\ written' \in Nat
        /\ pipe'[s] = pipe[s] + n /\ \A t \in Streams : t # s => pipe'[t] = pipe[t]
    BY <1>1, Counters DEF IInv, TypeOK
  <1>5. Accounted'
    <2>1. CASE s = "stdout"
      BY <1>1, <1>3, <1>4, <2>1, Counters DEF IInv, Accounted, Streams
    <2>2. CASE s = "stderr"
      BY <1>1, <1>3, <1>4, <2>2, Counters DEF IInv, Accounted, Streams
    <2> QED
      BY <2>1, <2>2 DEF Streams
  <1>6. TypeOK'
    <2>1. pipe[s] + n <= MaxWritten
      BY <1>1, <1>4, Counters DEF IInv, Accounted, Streams
    <2>2. pipe' \in [Streams -> 0..MaxWritten]
      BY <1>1, <1>4, <2>1, Counters DEF IInv, TypeOK
    <2> QED
      BY <1>3, <1>4, <2>2, Counters DEF IInv, TypeOK
  <1>7. KeptToLimit' /\ ClosedIsEmpty'
    BY <1>2, <1>3, <1>4 DEF IInv, KeptToLimit, ClosedIsEmpty
  <1>8. drainSeen = {}
    BY <1>2, DrainedIsEmpty
  <1>9. exitCode' => process' = "exited"
    BY <1>3 DEF IInv, ProcessFollowsExec
  <1> QED
    BY <1>3, <1>5, <1>6, <1>7, <1>8, <1>9, RequestsKept DEF IInv

LEMMA DrainOutputStep ==
    ASSUME IInv, NEW s \in Streams, DrainOutput(s)
    PROVE  IInv'
  <1>1. PICK n \in 1..pipe[s] : pipe' = [pipe EXCEPT ![s] = @ - n] /\ Append(n)
    BY DEF DrainOutput
  <1>2. UNCHANGED <<process, killed, held, written, exitCode, open, entry, background, step,
                    cancelled, snapshot, result, ended, drainSeen, interrupted>>
    BY DEF DrainOutput, requestVars
  <1>3. /\ n \in Nat /\ n >= 1 /\ n <= pipe[s]
        /\ pipe'[s] = pipe[s] - n /\ \A t \in Streams : t # s => pipe'[t] = pipe[t]
    BY <1>1, Counters DEF IInv, TypeOK
  <1>4. /\ original' = original + n
        /\ retained' = retained + (IF n <= MaxRetained - retained THEN n ELSE MaxRetained - retained)
        /\ truncated' = (truncated \/ n > MaxRetained - retained)
    BY <1>1 DEF Append
  <1>5. Accounted' /\ original' \in Nat /\ original' <= MaxWritten
    <2>1. CASE s = "stdout"
      BY <1>2, <1>3, <1>4, <2>1, Counters DEF IInv, Accounted, Streams
    <2>2. CASE s = "stderr"
      BY <1>2, <1>3, <1>4, <2>2, Counters DEF IInv, Accounted, Streams
    <2> QED
      BY <2>1, <2>2 DEF Streams
  <1>6. retained' \in 0..MaxRetained /\ truncated' \in BOOLEAN /\ KeptToLimit'
    <2>1. CASE n <= MaxRetained - retained
      <3>1. ~truncated /\ retained = original
        BY <1>3, <2>1, Counters DEF IInv, KeptToLimit, TypeOK
      <3>2. ~(n > MaxRetained - retained)
        BY <1>3, <2>1, Counters DEF IInv
      <3>3. ~truncated' /\ truncated' \in BOOLEAN
        BY <1>4, <3>1, <3>2, Zenon
      <3>4. retained' = retained + n
        BY <1>4, <2>1
      <3>5. retained' = original' /\ retained' \in 0..MaxRetained
        BY <1>3, <1>4, <2>1, <3>1, <3>4, Counters DEF IInv
      <3>6. retained' <= original' /\ ~(retained' < original')
        BY <1>5, <3>5
      <3> QED
        BY <3>3, <3>5, <3>6 DEF KeptToLimit
    <2>2. CASE ~(n <= MaxRetained - retained)
      <3>1. retained' = MaxRetained
        BY <1>3, <1>4, <2>2, Counters DEF IInv
      <3>2. n > MaxRetained - retained
        BY <1>3, <2>2, Counters DEF IInv
      <3>3. truncated' /\ truncated' \in BOOLEAN
        BY <1>4, <3>2, Zenon
      <3>4. MaxRetained < original'
        BY <1>3, <1>4, <3>2, Counters DEF IInv, KeptToLimit
      <3>5. retained' \in 0..MaxRetained
        BY <3>1, SessionAssumption
      <3>6. retained' < original' /\ retained' <= original'
        BY <1>5, <3>1, <3>4, SessionAssumption
      <3> QED
        BY <3>1, <3>3, <3>5, <3>6 DEF KeptToLimit
    <2> QED
      BY <2>1, <2>2
  <1>7. pipe' \in [Streams -> 0..MaxWritten]
    BY <1>1, <1>3, Counters DEF IInv, TypeOK
  <1>8. notified' \subseteq Requests
    BY DEF DrainOutput, NotifyWaiters, IInv, TypeOK
  <1>9. TypeOK'
    BY <1>2, <1>5, <1>6, <1>7, <1>8, Counters DEF IInv, TypeOK
  <1>10. ClosedIsEmpty'
    BY <1>2, <1>3 DEF IInv, ClosedIsEmpty
  <1>11. drainSeen = {}
    BY <1>3, DrainedIsEmpty, Counters DEF IInv
  <1>12. exitCode' => process' = "exited"
    BY <1>2 DEF IInv, ProcessFollowsExec
  <1> QED
    BY <1>2, <1>5, <1>6, <1>9, <1>10, <1>11, <1>12, RequestsKept DEF IInv

\* The steps that only end a stream or the process.
LEMMA EndingStep ==
    ASSUME IInv,
           \/ \E s \in Streams : StreamEnds(s) \/ CloseStream(s)
           \/ ProcessExits \/ SetExitCode
    PROVE  IInv'
  <1>1. ASSUME NEW s \in Streams, StreamEnds(s) PROVE IInv'
    <2>1. /\ held' = held \ {s}
          /\ UNCHANGED <<process, killed, pipe, written, retained, original, truncated, exitCode,
                         open, entry, notified, background, step, cancelled, snapshot, result,
                         ended, drainSeen, interrupted>>
      BY <1>1 DEF StreamEnds, outputVars, requestVars
    <2>2. TypeOK'
      BY <2>1 DEF IInv, TypeOK
    <2>3. Accounted' /\ KeptToLimit' /\ ClosedIsEmpty'
      BY <2>1 DEF IInv, Accounted, KeptToLimit, ClosedIsEmpty
    <2>4. drainSeen # {} => IsDrained'
      BY <2>1, DrainedIsEmpty DEF IsDrained
    <2>5. exitCode' => process' = "exited"
      BY <2>1 DEF IInv, ProcessFollowsExec
    <2> QED
      BY <2>1, <2>2, <2>3, <2>4, <2>5, RequestsKept DEF IInv
  <1>2. ASSUME NEW s \in Streams, CloseStream(s) PROVE IInv'
    <2>1. /\ s \in open \ held /\ pipe[s] = 0 /\ open' = open \ {s}
          /\ UNCHANGED <<process, killed, pipe, held, written, retained, original, truncated,
                         exitCode, entry, background, step, cancelled, snapshot, result,
                         ended, drainSeen, interrupted>>
      BY <1>2 DEF CloseStream, osVars, requestVars
    <2>2. notified' \subseteq Requests
      BY <1>2 DEF CloseStream, NotifyWaiters, IInv, TypeOK
    <2>3. TypeOK'
      BY <2>1, <2>2 DEF IInv, TypeOK
    <2>4. Accounted' /\ KeptToLimit' /\ ClosedIsEmpty'
      BY <2>1 DEF IInv, Accounted, KeptToLimit, ClosedIsEmpty
    <2>5. drainSeen # {} => IsDrained'
      BY <2>1, DrainedIsEmpty DEF IsDrained
    <2>6. exitCode' => process' = "exited"
      BY <2>1 DEF IInv, ProcessFollowsExec
    <2> QED
      BY <2>1, <2>3, <2>4, <2>5, <2>6, RequestsKept DEF IInv
  <1>3. CASE ProcessExits
    <2>1. /\ process = "running" /\ process' = "exited"
          /\ UNCHANGED <<killed, pipe, held, written, retained, original, truncated, exitCode, open,
                         entry, notified, background, step, cancelled, snapshot, result, ended,
                         drainSeen, interrupted>>
      BY <1>3 DEF ProcessExits, outputVars, requestVars
    <2>2. TypeOK'
      BY <2>1 DEF IInv, TypeOK
    <2>3. drainSeen # {} => IsDrained'
      BY <2>1, DrainedIsEmpty DEF IsDrained
    <2> QED
      BY <2>1, <2>2, <2>3, OutputKept, RequestsKept DEF IInv
  <1>4. CASE SetExitCode
    <2>1. /\ process = "exited" /\ exitCode' = TRUE
          /\ UNCHANGED <<process, killed, pipe, held, written, retained, original, truncated, open,
                         entry, background, step, cancelled, snapshot, result, ended, drainSeen,
                         interrupted>>
      BY <1>4 DEF SetExitCode, osVars, requestVars
    <2>2. notified' \subseteq Requests
      BY <1>4 DEF SetExitCode, NotifyWaiters, IInv, TypeOK
    <2>3. TypeOK'
      BY <2>1, <2>2 DEF IInv, TypeOK
    <2>4. drainSeen # {} => IsDrained'
      BY <2>1, DrainedIsEmpty DEF IsDrained
    <2> QED
      BY <2>1, <2>3, <2>4, OutputKept, RequestsKept DEF IInv
  <1> QED
    BY <1>1, <1>2, <1>3, <1>4

-----------------------------------------------------------------------------
(* The requests.  A request takes a step: the lemmas say what it has to     *)
(* guarantee for each part of the invariant.                               *)

LEMMA StepTyped ==
    ASSUME TypeOK, NEW r \in Requests, NEW where \in StepState, step' = [step EXCEPT ![r] = where]
    PROVE  /\ step' \in [Requests -> StepState]
           /\ step'[r] = where /\ \A q \in Requests : q # r => step'[q] = step[q]
  BY DEF TypeOK

\* A request that has seen the session drained only goes on from its snapshot.
LEMMA SeenKept ==
    ASSUME IInv, NEW r \in Requests, NEW where \in StepState, step' = [step EXCEPT ![r] = where],
           UNCHANGED <<drainSeen, snapshot, retained, exitCode, open>>,
           \/ step[r] \notin {"snapshot", "emit", "decide", "done"}
           \/ step[r] \in {"emit", "decide"} /\ where \in {"decide", "done"}
           \/ ~IsDrained
    PROVE  SeenIsDrained'
  <1>1. \A q \in drainSeen : q \in Requests
    BY DEF IInv, TypeOK
  <1>2. IsDrained' = IsDrained
    BY DEF IsDrained
  <1> SUFFICES ASSUME NEW q \in drainSeen
               PROVE  /\ IsDrained
                      /\ step'[q] \in {"snapshot", "emit", "decide", "done"}
                      /\ step'[q] # "snapshot" => snapshot[q].exit /\ retained = 0
    BY <1>2 DEF SeenIsDrained
  <1>3. CASE q = r
    BY <1>3, StepTyped DEF IInv, SeenIsDrained
  <1>4. CASE q # r
    BY <1>1, <1>4, StepTyped DEF IInv, SeenIsDrained
  <1> QED
    BY <1>3, <1>4

\* A request reports the session as over only when it ends.
LEMMA EndedKept ==
    ASSUME IInv, NEW r \in Requests, NEW where \in StepState, step' = [step EXCEPT ![r] = where],
           step[r] # "done",
           ended' = ended \/ (where = "done" /\ ended' = ended \cup {r})
    PROVE  EndedIsDone'
  <1>1. r \notin ended /\ ended \subseteq Requests
    BY DEF IInv, TypeOK, EndedIsDone
  <1>2. \A q \in ended : step'[q] = "done"
    BY <1>1, StepTyped DEF IInv, EndedIsDone
  <1> QED
    BY <1>2, StepTyped DEF IInv, EndedIsDone

\* The exec request lets go of a process only when it was told to terminate, has
\* exited, or is in the map; and the map when it was told to terminate or exited.
LEMMA OwnedKept ==
    ASSUME IInv, NEW r \in Requests, NEW where \in StepState, step' = [step EXCEPT ![r] = where],
           UNCHANGED <<process, exitCode>>,
           killed => killed',
           interrupted \subseteq interrupted',
           entry = "present" => entry' = "present" \/ killed' \/ process # "running",
           r = Exec => where \notin {"start", "authorize", "write"},
           r = Exec /\ where = "done" =>
               killed' \/ process # "running" \/ entry' = "present" \/ Exec \in interrupted'
    PROVE  ProcessFollowsExec' /\ ProcessesAreTracked'
  <1>1. Exec \in Requests
    BY DEF Requests
  <1>2. r # Exec => step'[Exec] = step[Exec]
    BY <1>1, StepTyped DEF IInv
  <1>3. r = Exec => step'[Exec] = where
    BY StepTyped DEF IInv
  <1>4. ProcessFollowsExec'
    BY <1>2, <1>3 DEF IInv, ProcessFollowsExec
  <1>5. ProcessesAreTracked'
    <2>1. CASE r = Exec
      BY <1>3, <2>1 DEF ProcessesAreTracked
    <2>2. CASE r # Exec
      BY <1>2, <2>2 DEF IInv, ProcessesAreTracked
    <2> QED
      BY <2>1, <2>2
  <1> QED
    BY <1>4, <1>5

\* A step from one place to another that changes neither the process, nor the
\* output, nor the map.
LEMMA PlainStep ==
    ASSUME IInv, NEW r \in Requests, NEW where \in StepState, step' = [step EXCEPT ![r] = where],
           UNCHANGED <<osVars, outputVars, entry, background, cancelled, snapshot, ended, drainSeen,
                       interrupted>>,
           notified' \subseteq notified,
           result' \in [Requests -> {"none", "completed", "timed_out", "error", "aborted"}],
           \/ step[r] \notin {"snapshot", "emit", "decide", "done"}
           \/ step[r] \in {"emit", "decide"} /\ where \in {"decide", "done"},
           r = Exec => where \notin {"start", "authorize", "write"},
           r = Exec /\ where = "done" => process # "running"
    PROVE  IInv'
  <1>1. UNCHANGED <<process, killed, pipe, held, written, retained, original, truncated, exitCode,
                    open, entry, background, cancelled, snapshot, ended, drainSeen, interrupted>>
    BY DEF osVars, outputVars
  <1>2. TypeOK'
    BY <1>1, StepTyped DEF IInv, TypeOK
  <1>3. Accounted' /\ KeptToLimit' /\ ClosedIsEmpty'
    BY <1>1, OutputKept
  <1>4. SeenIsDrained'
    BY <1>1, SeenKept
  <1>5. EndedIsDone'
    BY <1>1, EndedKept
  <1>6. ProcessFollowsExec' /\ ProcessesAreTracked'
    BY <1>1, OwnedKept
  <1> QED
    BY <1>2, <1>3, <1>4, <1>5, <1>6 DEF IInv

\* What GoTo and End assign.
LEMMA GoToTyped ==
    ASSUME IInv, NEW r \in Requests, NEW where, GoTo(r, where)
    PROVE  /\ step' = [step EXCEPT ![r] = where]
           /\ result' \in [Requests -> {"none", "completed", "timed_out", "error", "aborted"}]
  BY DEF GoTo, IInv, TypeOK

LEMMA EndTyped ==
    ASSUME IInv, NEW r \in Requests, NEW status \in {"completed", "timed_out", "error", "aborted"},
           End(r, status)
    PROVE  /\ step' = [step EXCEPT ![r] = "done"]
           /\ result' \in [Requests -> {"none", "completed", "timed_out", "error", "aborted"}]
  BY DEF End, IInv, TypeOK

LEMMA SpawnStep ==
    ASSUME IInv, Spawn
    PROVE  IInv'
  <1>1. Exec \in Requests /\ step[Exec] = "start" /\ process = "none"
    BY DEF Requests, Spawn, IInv, ProcessFollowsExec
  <1>2. UNCHANGED <<killed, pipe, held, written, retained, original, truncated, exitCode, open, entry,
                    notified, background, cancelled, snapshot, ended, drainSeen, interrupted>>
    BY DEF Spawn, outputVars
  <1>3. CASE GoTo(Exec, "register") /\ process' = "running"
    <2>1. /\ step' = [step EXCEPT ![Exec] = "register"]
          /\ result' \in [Requests -> {"none", "completed", "timed_out", "error", "aborted"}]
      BY <1>1, <1>3, GoToTyped
    <2>2. "register" \in StepState
      BY DEF StepState
    <2>3. step' \in [Requests -> StepState] /\ step'[Exec] = "register"
      BY <1>1, <2>1, <2>2, StepTyped DEF IInv
    <2>4. TypeOK'
      BY <1>2, <1>3, <2>1, <2>3 DEF IInv, TypeOK
    <2>5. SeenIsDrained' /\ EndedIsDone'
      BY <1>1, <1>2, <2>1, <2>2, SeenKept, EndedKept
    <2>6. ~exitCode'
      BY <1>1, <1>2 DEF IInv, ProcessFollowsExec
    <2>7. ProcessFollowsExec' /\ ProcessesAreTracked'
      BY <1>2, <1>3, <2>3, <2>6 DEF ProcessFollowsExec, ProcessesAreTracked
    <2> QED
      BY <1>2, <2>4, <2>5, <2>7, OutputKept DEF IInv
  <1>4. CASE End(Exec, "error") /\ UNCHANGED process
    <2>1. /\ step' = [step EXCEPT ![Exec] = "done"]
          /\ result' \in [Requests -> {"none", "completed", "timed_out", "error", "aborted"}]
      BY <1>1, <1>4, EndTyped
    <2>2. "done" \in StepState
      BY DEF StepState
    <2> QED
      BY <1>1, <1>2, <1>4, <2>1, <2>2, PlainStep DEF osVars, outputVars
  <1> QED
    BY <1>3, <1>4 DEF Spawn

\* The steps up to the select, and the end of the output.
LEMMA PlainSteps ==
    ASSUME IInv, NEW r \in Requests,
           \/ Lookup(r) \/ Authorize(r) \/ WriteInput(r) \/ Register(r) \/ EnterSelect(r) \/ Woken(r)
           \/ Deadline(r) \/ Emitted(r)
    PROVE  IInv'
  <1> USE DEF StepState
  <1>0. r \in Polls => r # Exec
    BY SessionAssumption DEF Exec
  <1>1. CASE Lookup(r)
    <2>1. /\ r \in Polls /\ step[r] = "start"
          /\ UNCHANGED <<osVars, outputVars, entry, notified, background, cancelled, snapshot, ended,
                         drainSeen, interrupted>>
          /\ GoTo(r, "authorize") \/ End(r, "error")
      BY <1>1 DEF Lookup
    <2>2. CASE GoTo(r, "authorize")
      BY <1>0, <2>1, <2>2, GoToTyped, PlainStep
    <2>3. CASE End(r, "error")
      BY <1>0, <2>1, <2>3, EndTyped, PlainStep
    <2> QED
      BY <2>1, <2>2, <2>3
  <1>2. CASE Authorize(r) \/ WriteInput(r)
    <2>1. /\ step[r] \in {"authorize", "write"}
          /\ UNCHANGED <<osVars, outputVars, entry, notified, background, cancelled, snapshot, ended,
                         drainSeen, interrupted>>
          /\ GoTo(r, "register") \/ GoTo(r, "write") \/ End(r, "error") \/ End(r, "aborted")
      BY <1>2 DEF Authorize, WriteInput
    <2>2. r # Exec
      BY <2>1 DEF IInv, ProcessFollowsExec
    <2>3. CASE GoTo(r, "register")
      BY <2>1, <2>2, <2>3, GoToTyped, PlainStep
    <2>4. CASE GoTo(r, "write")
      BY <2>1, <2>2, <2>4, GoToTyped, PlainStep
    <2>5. CASE End(r, "error")
      BY <2>1, <2>2, <2>5, EndTyped, PlainStep
    <2>6. CASE End(r, "aborted")
      BY <2>1, <2>2, <2>6, EndTyped, PlainStep
    <2> QED
      BY <2>1, <2>3, <2>4, <2>5, <2>6
  <1>3. CASE Register(r)
    <2>1. /\ step[r] = "register" /\ GoTo(r, "check") /\ notified' \subseteq notified
          /\ UNCHANGED <<osVars, outputVars, entry, background, cancelled, snapshot, ended,
                         drainSeen, interrupted>>
      BY <1>3 DEF Register
    <2> QED
      BY <2>1, GoToTyped, PlainStep
  <1>4. CASE EnterSelect(r)
    BY <1>4, GoToTyped, PlainStep DEF EnterSelect
  <1>5. CASE Woken(r)
    BY <1>5, GoToTyped, PlainStep DEF Woken
  <1>6. CASE Deadline(r)
    BY <1>6, GoToTyped, PlainStep DEF Deadline
  <1>7. CASE Emitted(r)
    BY <1>7, GoToTyped, PlainStep DEF Emitted
  <1> QED
    BY <1>1, <1>2, <1>3, <1>4, <1>5, <1>6, <1>7

\* The check under the lock: what it sees holds from then on.
LEMMA CheckStep ==
    ASSUME IInv, NEW r \in Requests, Check(r)
    PROVE  IInv'
  <1>1. /\ step[r] = "check"
        /\ UNCHANGED <<osVars, outputVars, entry, notified, background, cancelled, snapshot, ended,
                       interrupted>>
    BY DEF Check
  <1>2. CASE ~IsDrained
    <2>1. GoTo(r, "checked") /\ UNCHANGED drainSeen
      BY <1>2 DEF Check
    <2> QED
      BY <1>1, <2>1, GoToTyped, PlainStep DEF StepState
  <1>3. CASE IsDrained
    <2>1. GoTo(r, "snapshot") /\ drainSeen' = drainSeen \cup {r}
      BY <1>3 DEF Check
    <2>2. /\ step' = [step EXCEPT ![r] = "snapshot"]
          /\ result' \in [Requests -> {"none", "completed", "timed_out", "error", "aborted"}]
      BY <2>1, GoToTyped
    <2>3. "snapshot" \in StepState
      BY DEF StepState
    <2>4. /\ step' \in [Requests -> StepState]
          /\ step'[r] = "snapshot" /\ \A q \in Requests : q # r => step'[q] = step[q]
      BY <2>2, <2>3, StepTyped DEF IInv
    <2>5. UNCHANGED <<process, killed, pipe, held, written, retained, original, truncated, exitCode,
                      open, entry, notified, background, cancelled, snapshot, ended, interrupted>>
      BY <1>1 DEF osVars, outputVars
    <2>6. TypeOK'
      BY <2>1, <2>2, <2>4, <2>5 DEF IInv, TypeOK
    <2>7. SeenIsDrained'
      <3>1. IsDrained'
        BY <1>3, <2>5 DEF IsDrained
      <3>2. \A q \in drainSeen : q \in Requests
        BY DEF IInv, TypeOK
      <3>3. ASSUME NEW q \in drainSeen, q # r
            PROVE  /\ step'[q] \in {"snapshot", "emit", "decide", "done"}
                   /\ step'[q] # "snapshot" => snapshot'[q].exit /\ retained' = 0
        BY <2>4, <2>5, <3>2, <3>3 DEF IInv, SeenIsDrained
      <3> QED
        BY <2>1, <2>4, <3>1, <3>3 DEF SeenIsDrained
    <2>8. ProcessFollowsExec' /\ ProcessesAreTracked' /\ EndedIsDone'
      BY <1>1, <2>2, <2>3, <2>5, OwnedKept, EndedKept
    <2> QED
      BY <2>5, <2>6, <2>7, <2>8, OutputKept DEF IInv
  <1> QED
    BY <1>2, <1>3

\* A request takes the output, and the exit code with it.
LEMMA TakeSnapshotStep ==
    ASSUME IInv, NEW r \in Requests, TakeSnapshot(r)
    PROVE  IInv'
  <1>1. /\ step[r] = "snapshot"
        /\ snapshot' = [snapshot EXCEPT ![r] = [bytes |-> retained, exit |-> exitCode]]
        /\ retained' = 0 /\ original' = 0 /\ truncated' = FALSE
        /\ UNCHANGED <<osVars, exitCode, open, entry, notified, background, cancelled, ended,
                       drainSeen, interrupted>>
        /\ GoTo(r, "emit")
    BY DEF TakeSnapshot
  <1>2. /\ step' = [step EXCEPT ![r] = "emit"]
        /\ result' \in [Requests -> {"none", "completed", "timed_out", "error", "aborted"}]
    BY <1>1, GoToTyped
  <1>3. "emit" \in StepState
    BY DEF StepState
  <1>4. /\ step' \in [Requests -> StepState]
        /\ step'[r] = "emit" /\ \A q \in Requests : q # r => step'[q] = step[q]
    BY <1>2, <1>3, StepTyped DEF IInv
  <1>5. UNCHANGED <<process, killed, pipe, held, written>>
    BY <1>1 DEF osVars
  <1>6. /\ snapshot' \in [Requests -> [bytes : 0..MaxRetained, exit : BOOLEAN]]
        /\ snapshot'[r].exit = exitCode /\ \A q \in Requests : q # r => snapshot'[q] = snapshot[q]
    BY <1>1 DEF IInv, TypeOK
  <1>7. TypeOK'
    <2>1. retained' \in 0..MaxRetained /\ original' \in 0..MaxWritten
      BY <1>1, SessionAssumption
    <2>2. truncated' \in BOOLEAN
      BY <1>1
    <2> QED
      BY <1>1, <1>2, <1>4, <1>5, <1>6, <2>1, <2>2 DEF IInv, TypeOK
  <1>8. Accounted'
    BY <1>1, <1>5, Counters DEF IInv, Accounted
  <1>9. KeptToLimit' /\ ClosedIsEmpty'
    BY <1>1, <1>5 DEF IInv, KeptToLimit, ClosedIsEmpty
  <1>10. SeenIsDrained'
    <2>1. \A q \in drainSeen : q \in Requests
      BY DEF IInv, TypeOK
    <2>2. IsDrained' = IsDrained
      BY <1>1 DEF IsDrained
    <2>3. ASSUME NEW q \in drainSeen
          PROVE  /\ IsDrained'
                 /\ step'[q] \in {"snapshot", "emit", "decide", "done"}
                 /\ step'[q] # "snapshot" => snapshot'[q].exit /\ retained' = 0
      <3>1. IsDrained /\ exitCode
        BY DEF IInv, SeenIsDrained, IsDrained
      <3>2. CASE q = r
        BY <1>1, <1>4, <1>6, <2>2, <3>1, <3>2
      <3>3. CASE q # r
        BY <1>1, <1>4, <1>6, <2>1, <2>2, <3>1, <3>3 DEF IInv, SeenIsDrained
      <3> QED
        BY <3>2, <3>3
    <2> QED
      BY <1>1, <2>3 DEF SeenIsDrained
  <1>11. ProcessFollowsExec' /\ ProcessesAreTracked' /\ EndedIsDone'
    BY <1>1, <1>2, <1>3, <1>5, OwnedKept, EndedKept
  <1> QED
    BY <1>7, <1>8, <1>9, <1>10, <1>11 DEF IInv

\* A step that may end a request, terminate the process or change the map.
LEMMA LettingGo ==
    ASSUME IInv, NEW r \in Requests, NEW where \in StepState, step' = [step EXCEPT ![r] = where],
           UNCHANGED <<process, pipe, held, written, outputVars, notified, background, cancelled,
                       snapshot, drainSeen>>,
           killed' \in BOOLEAN, killed => killed',
           entry' \in {"none", "present", "removed"},
           step[r] # "done",
           ended' = ended \/ (where = "done" /\ ended' = ended \cup {r}),
           interrupted' \subseteq Requests, interrupted \subseteq interrupted',
           result' \in [Requests -> {"none", "completed", "timed_out", "error", "aborted"}],
           \/ step[r] \notin {"snapshot", "emit", "decide", "done"}
           \/ step[r] \in {"emit", "decide"} /\ where \in {"decide", "done"}
           \/ ~IsDrained,
           entry = "present" => entry' = "present" \/ killed' \/ process # "running",
           r = Exec => where \notin {"start", "authorize", "write"},
           r = Exec /\ where = "done" =>
               killed' \/ process # "running" \/ entry' = "present" \/ Exec \in interrupted'
    PROVE  IInv'
  <1>1. UNCHANGED <<retained, original, truncated, exitCode, open>>
    BY DEF outputVars
  <1>2. TypeOK'
    BY <1>1, StepTyped DEF IInv, TypeOK
  <1>3. Accounted' /\ KeptToLimit' /\ ClosedIsEmpty'
    BY <1>1, OutputKept
  <1>4. SeenIsDrained'
    BY <1>1, SeenKept
  <1>5. EndedIsDone'
    BY EndedKept
  <1>6. ProcessFollowsExec' /\ ProcessesAreTracked'
    BY <1>1, OwnedKept
  <1> QED
    BY <1>2, <1>3, <1>4, <1>5, <1>6 DEF IInv

LEMMA CancelledWaitStep ==
    ASSUME IInv, NEW r \in Requests, CancelledWait(r)
    PROVE  IInv'
  <1>1. step[r] = "waiting" /\ End(r, "aborted") /\ AfterCancel(r)
    BY DEF CancelledWait
  <1>2. UNCHANGED <<outputVars, notified, background, cancelled, snapshot, ended, drainSeen, interrupted>>
    BY DEF CancelledWait
  <1>3. /\ killed' = TRUE /\ UNCHANGED <<process, pipe, held, written>>
        /\ entry' \in {"none", "present", "removed"}
    BY <1>1 DEF AfterCancel, RequestTerminate, IInv, TypeOK
  <1>4. interrupted' \subseteq Requests /\ interrupted \subseteq interrupted'
    BY <1>2 DEF IInv, TypeOK
  <1>5. "done" \in StepState
    BY DEF StepState
  <1> QED
    BY <1>1, <1>2, <1>3, <1>4, <1>5, EndTyped, LettingGo

LEMMA CancelledEmitStep ==
    ASSUME IInv, NEW r \in Requests, CancelledEmit(r)
    PROVE  IInv'
  <1>1. step[r] = "emit" /\ End(r, "aborted") /\ interrupted' = interrupted \cup {r}
    BY DEF CancelledEmit
  <1>2. UNCHANGED <<outputVars, notified, background, cancelled, snapshot, ended, drainSeen>>
    BY DEF CancelledEmit
  <1>3. interrupted' \subseteq Requests /\ interrupted \subseteq interrupted'
    BY <1>1, <1>2 DEF IInv, TypeOK
  <1>4. "done" \in StepState
    BY DEF StepState
  <1>5. r = Exec => Exec \in interrupted'
    BY <1>1
  <1>6. CASE r \in Polls
    <2>1. AfterCancel(r)
      BY <1>6 DEF CancelledEmit
    <2>2. /\ killed' = TRUE /\ UNCHANGED <<process, pipe, held, written>>
          /\ entry' \in {"none", "present", "removed"}
      BY <2>1 DEF AfterCancel, RequestTerminate, IInv, TypeOK
    <2> QED
      BY <1>1, <1>2, <1>3, <1>4, <1>5, <2>2, EndTyped, LettingGo
  <1>7. CASE r \notin Polls
    <2>1. UNCHANGED <<osVars, entry>>
      BY <1>7 DEF CancelledEmit
    <2>2. /\ UNCHANGED <<process, pipe, held, written, killed, entry>>
          /\ entry' \in {"none", "present", "removed"} /\ killed' \in BOOLEAN
      BY <2>1 DEF osVars, IInv, TypeOK
    <2> QED
      BY <1>1, <1>2, <1>3, <1>4, <1>5, <2>2, EndTyped, LettingGo
  <1> QED
    BY <1>6, <1>7

\* A drained process has exited.
LEMMA DrainedHasExited ==
    ASSUME IInv, IsDrained
    PROVE  process # "running"
  BY DEF IInv, ProcessFollowsExec, IsDrained

LEMMA DecidePollStep ==
    ASSUME IInv, NEW r \in Requests, DecidePoll(r)
    PROVE  IInv'
  <1>1. r \in Polls /\ r # Exec /\ step[r] = "decide" /\ End(r, "completed")
    BY SessionAssumption DEF DecidePoll, Exec
  <1>2. UNCHANGED <<osVars, outputVars, notified, background, cancelled, snapshot, drainSeen, interrupted>>
    BY DEF DecidePoll
  <1>3. /\ UNCHANGED <<process, pipe, held, written, killed>>
        /\ killed' \in BOOLEAN
        /\ interrupted' \subseteq Requests /\ interrupted \subseteq interrupted'
    BY <1>2 DEF osVars, IInv, TypeOK
  <1>4. /\ ended' = ended \/ ended' = ended \cup {r}
        /\ entry' \in {"none", "present", "removed"}
        /\ entry = "present" => entry' = "present" \/ process # "running"
    <2>1. CASE IsDrained
      BY <2>1, DrainedHasExited DEF DecidePoll, IInv, TypeOK
    <2>2. CASE ~IsDrained
      BY <2>2 DEF DecidePoll, IInv, TypeOK
    <2> QED
      BY <2>1, <2>2
  <1>5. "done" \in StepState
    BY DEF StepState
  <1> QED
    BY <1>1, <1>2, <1>3, <1>4, <1>5, EndTyped, LettingGo

LEMMA DecideExecStep ==
    ASSUME IInv, DecideExec
    PROVE  IInv'
  <1>1. /\ Exec \in Requests /\ step[Exec] = "decide"
        /\ "done" \in StepState /\ "register" \in StepState
    BY DEF Requests, DecideExec, StepState
  <1>2. UNCHANGED <<outputVars, notified, background, cancelled, snapshot, drainSeen, interrupted>>
    BY DEF DecideExec
  <1>3. interrupted' \subseteq Requests /\ interrupted \subseteq interrupted'
    BY <1>2 DEF IInv, TypeOK
  <1>4. CASE /\ killed \/ IsDrained
             /\ End(Exec, "timed_out") \/ End(Exec, "completed")
             /\ ended' = ended \cup {Exec}
             /\ UNCHANGED <<osVars, entry>>
    <2>1. /\ UNCHANGED <<process, pipe, held, written, killed, entry>>
          /\ entry' \in {"none", "present", "removed"} /\ killed' \in BOOLEAN
      BY <1>1, <1>4 DEF osVars, IInv, TypeOK
    <2>2. killed' \/ process # "running"
      BY <1>4, <2>1, DrainedHasExited
    <2>3. /\ step' = [step EXCEPT ![Exec] = "done"]
          /\ result' \in [Requests -> {"none", "completed", "timed_out", "error", "aborted"}]
      BY <1>1, <1>4, EndTyped
    <2> QED
      BY <1>1, <1>2, <1>3, <1>4, <2>1, <2>2, <2>3, LettingGo
  <1>5. CASE /\ End(Exec, "completed") /\ entry' = "present"
             /\ UNCHANGED <<osVars, ended>>
    <2>1. /\ UNCHANGED <<process, pipe, held, written, killed>>
          /\ killed' \in BOOLEAN
      BY <1>5 DEF osVars, IInv, TypeOK
    <2>2. /\ step' = [step EXCEPT ![Exec] = "done"]
          /\ result' \in [Requests -> {"none", "completed", "timed_out", "error", "aborted"}]
      BY <1>1, <1>5, EndTyped
    <2> QED
      BY <1>1, <1>2, <1>3, <1>5, <2>1, <2>2, LettingGo
  <1>6. CASE /\ ~IsDrained
             /\ RequestTerminate /\ GoTo(Exec, "register")
             /\ UNCHANGED <<entry, ended>>
    <2>1. /\ killed' = TRUE /\ UNCHANGED <<process, pipe, held, written>>
          /\ entry' \in {"none", "present", "removed"}
      BY <1>6 DEF RequestTerminate, IInv, TypeOK
    <2>2. /\ step' = [step EXCEPT ![Exec] = "register"]
          /\ result' \in [Requests -> {"none", "completed", "timed_out", "error", "aborted"}]
      BY <1>1, <1>6, GoToTyped
    <2> QED
      BY <1>1, <1>2, <1>3, <1>6, <2>1, <2>2, LettingGo
  <1> QED
    BY <1>4, <1>5, <1>6 DEF DecideExec

LEMMA RequestStep ==
    ASSUME IInv, NEW r \in Requests, Request(r)
    PROVE  IInv'
  BY SpawnStep, PlainSteps, CheckStep, TakeSnapshotStep, CancelledWaitStep, CancelledEmitStep,
     DecidePollStep, DecideExecStep DEF Request

-----------------------------------------------------------------------------
(* The controls.                                                           *)

LEMMA CancelStep ==
    ASSUME IInv, NEW r \in Requests, Cancel(r)
    PROVE  IInv'
  <1>1. /\ cancelled' = [cancelled EXCEPT ![r] = TRUE]
        /\ UNCHANGED <<process, killed, pipe, held, written, retained, original, truncated, exitCode,
                       open, entry, notified, background, step, snapshot, result, ended, drainSeen,
                       interrupted>>
    BY DEF Cancel, osVars, outputVars
  <1>2. TypeOK'
    BY <1>1 DEF IInv, TypeOK
  <1>3. exitCode' => process' = "exited"
    BY <1>1 DEF IInv, ProcessFollowsExec
  <1>4. drainSeen # {} => IsDrained'
    BY <1>1, DrainedIsEmpty DEF IsDrained
  <1> QED
    BY <1>1, <1>2, <1>3, <1>4, OutputKept, RequestsKept DEF IInv

\* The map forgets the session: the process is terminated, or it has exited.
LEMMA ForgetStep ==
    ASSUME IInv, TerminateSession \/ WriteAfterExit
    PROVE  IInv'
  <1>1. /\ entry' = "removed"
        /\ UNCHANGED <<process, pipe, held, written, retained, original, truncated, exitCode, open,
                       notified, background, step, cancelled, snapshot, result, ended, drainSeen,
                       interrupted>>
    BY DEF TerminateSession, WriteAfterExit, RequestTerminate, osVars, outputVars, requestVars
  <1>2. killed' = TRUE \/ (killed' = killed /\ process = "exited")
    BY DEF TerminateSession, WriteAfterExit, RequestTerminate, osVars
  <1>3. killed' \in BOOLEAN
    BY <1>2 DEF IInv, TypeOK
  <1>4. TypeOK'
    BY <1>1, <1>3 DEF IInv, TypeOK
  <1>5. ProcessFollowsExec' /\ SeenIsDrained' /\ EndedIsDone'
    BY <1>1 DEF IInv, ProcessFollowsExec, SeenIsDrained, EndedIsDone, IsDrained
  <1>6. ProcessesAreTracked'
    BY <1>1, <1>2 DEF ProcessesAreTracked
  <1> QED
    BY <1>1, <1>4, <1>5, <1>6, OutputKept DEF IInv

LEMMA NextIInv == IInv /\ [Next]_vars => IInv'
  <1> SUFFICES ASSUME IInv, [Next]_vars PROVE IInv'
    OBVIOUS
  <1>1. CASE Finished \/ UNCHANGED vars
    <2>1. UNCHANGED <<process, killed, pipe, held, written, retained, original, truncated, exitCode,
                      open, entry, notified, background, step, cancelled, snapshot, result, ended,
                      drainSeen, interrupted>>
      BY <1>1 DEF Finished, vars, osVars, outputVars, requestVars
    <2>2. TypeOK'
      BY <2>1 DEF IInv, TypeOK
    <2>3. ProcessFollowsExec' /\ SeenIsDrained' /\ EndedIsDone' /\ ProcessesAreTracked'
      BY <2>1
         DEF IInv, ProcessFollowsExec, SeenIsDrained, EndedIsDone, IsDrained,
             ProcessesAreTracked
    <2> QED
      BY <2>1, <2>2, <2>3, OutputKept DEF IInv
  <1>2. CASE Next
    BY <1>1, <1>2, ProcessWritesStep, DrainOutputStep, EndingStep, RequestStep, CancelStep,
       ForgetStep DEF Next
  <1> QED
    BY <1>1, <1>2

-----------------------------------------------------------------------------
(* The theorems.                                                           *)

\* The inductive invariant holds of every session.
THEOREM IInvHolds == Spec => []IInv
  BY InitIInv, NextIInv, PTL DEF Spec

\* Whatever the buffer size, the number of polls and the amount of output: output
\* that did not fit is flagged, and a request that saw the session drained and
\* reports it as over has the exit code and left no output behind.
THEOREM OutputIsAccountedForAlways == Spec => []OutputIsAccountedFor
  <1>1. IInv => OutputIsAccountedFor
    <2> SUFFICES ASSUME IInv PROVE OutputIsAccountedFor
      OBVIOUS
    <2>1. DropsAreFlagged
      BY Counters DEF IInv, KeptToLimit, DropsAreFlagged
    <2>2. DrainedResultIsComplete
      <3> SUFFICES ASSUME NEW r \in ended \cap drainSeen
                   PROVE  snapshot[r].exit /\ retained = 0 /\ \A s \in Streams : pipe[s] = 0
        BY DEF DrainedResultIsComplete
      <3>1. \A s \in Streams : pipe[s] = 0
        BY DrainedIsEmpty
      <3> QED
        BY <3>1 DEF IInv, SeenIsDrained, EndedIsDone
    <2> QED
      BY <2>1, <2>2 DEF IInv, OutputIsAccountedFor
  <1> QED
    BY <1>1, IInvHolds, PTL

\* No running process that was not told to terminate is out of reach, but for the
\* cancellation of its exec request while output meets a full window.
THEOREM ProcessesStayTracked == Spec => []ProcessesAreTracked
  <1>1. IInv => ProcessesAreTracked
    BY DEF IInv
  <1> QED
    BY <1>1, IInvHolds, PTL

-----------------------------------------------------------------------------
(***************************************************************************)
(* One-shot commands (module ShellCommand).  Both kinds of command have    *)
(* the same operating system under them, and their variables the same      *)
(* names; what follows is about the specification of ShellCommand alone.   *)
(*                                                                         *)
(* A byte that was written is in a pipe or has been received, a stream     *)
(* that the loop has closed is empty and nobody can write to it any more,  *)
(* and the retained output is what was received, up to the limit.          *)
(***************************************************************************)

CONSTANT MaxOutput
VARIABLES output, received

Shell == INSTANCE ShellCommand

(* The inductive invariant.                                                *)

\* No byte is lost between the process and the loop.
ShellConserved == received + pipe["stdout"] + pipe["stderr"] = written

\* A stream is closed only when it is empty and has no holder left.
ShellClosed == \A s \in Shell!Streams : s \notin open => s \notin held /\ pipe[s] = 0

\* Output is kept as long as it fits, and flagged from then on.
ShellKept ==
    /\ output <= received
    /\ truncated <=> output < received
    /\ truncated => output = MaxOutput

ShellCompleted == result = "completed" => step = "done" /\ exitCode /\ open = {}

ShellIInv ==
    /\ MaxOutput \in Nat
    /\ Shell!TypeOK /\ ShellConserved /\ ShellClosed /\ ShellKept /\ ShellCompleted

-----------------------------------------------------------------------------
(* The steps.                                                              *)

\* What the type invariant says about the counters.
LEMMA ShellCounters ==
    ASSUME ShellIInv
    PROVE  /\ MaxOutput \in Nat /\ MaxWritten \in Nat
           /\ written \in Nat /\ written <= MaxWritten
           /\ received \in Nat /\ received <= MaxWritten
           /\ output \in Nat /\ output <= MaxOutput
           /\ pipe["stdout"] \in Nat /\ pipe["stderr"] \in Nat
           /\ \A s \in Shell!Streams : pipe[s] \in Nat /\ pipe[s] <= MaxWritten
  BY SessionAssumption DEF ShellIInv, Shell!TypeOK, Shell!Streams

LEMMA ShellInit ==
    ASSUME MaxOutput \in Nat, Shell!Init
    PROVE  ShellIInv
  <1>1. Shell!TypeOK
    <2>1. 0 \in 0..MaxWritten /\ 0 \in 0..MaxOutput
      BY SessionAssumption
    <2> QED
      BY <2>1 DEF Shell!Init, Shell!TypeOK
  <1>2. ShellConserved
    BY DEF Shell!Init, ShellConserved, Shell!Streams
  <1>3. ShellClosed /\ ShellKept /\ ShellCompleted
    BY DEF Shell!Init, ShellClosed, ShellKept, ShellCompleted
  <1> QED
    BY <1>1, <1>2, <1>3 DEF ShellIInv

LEMMA ShellWritesStep ==
    ASSUME ShellIInv, NEW s \in Shell!Streams, Shell!ProcessWrites(s)
    PROVE  ShellIInv'
  <1>1. PICK n \in 1..(MaxWritten - written) :
           written' = written + n /\ pipe' = [pipe EXCEPT ![s] = @ + n]
    BY DEF Shell!ProcessWrites
  <1>2. /\ s \in held
        /\ UNCHANGED <<process, killed, held, exitCode, open, output, truncated, received,
                       step, cancelled, result>>
    BY DEF Shell!ProcessWrites, Shell!localVars
  <1>3. /\ n \in Nat /\ written' <= MaxWritten /\ written' \in Nat
        /\ pipe'[s] = pipe[s] + n /\ \A t \in Shell!Streams : t # s => pipe'[t] = pipe[t]
    BY <1>1, ShellCounters DEF ShellIInv, Shell!TypeOK
  <1>4. ShellConserved'
    <2>1. CASE s = "stdout"
      BY <1>1, <1>2, <1>3, <2>1, ShellCounters DEF ShellIInv, ShellConserved, Shell!Streams
    <2>2. CASE s = "stderr"
      BY <1>1, <1>2, <1>3, <2>2, ShellCounters DEF ShellIInv, ShellConserved, Shell!Streams
    <2> QED
      BY <2>1, <2>2 DEF Shell!Streams
  <1>5. Shell!TypeOK'
    <2>1. pipe[s] + n <= MaxWritten
      BY <1>1, <1>3, ShellCounters DEF ShellIInv, ShellConserved, Shell!Streams
    <2>2. pipe' \in [Shell!Streams -> 0..MaxWritten]
      BY <1>1, <1>3, <2>1, ShellCounters DEF ShellIInv, Shell!TypeOK
    <2> QED
      BY <1>2, <1>3, <2>2, ShellCounters DEF ShellIInv, Shell!TypeOK
  <1>6. ShellClosed' /\ ShellKept' /\ ShellCompleted'
    BY <1>2, <1>3 DEF ShellIInv, ShellClosed, ShellKept, ShellCompleted
  <1> QED
    BY <1>4, <1>5, <1>6 DEF ShellIInv

LEMMA ShellChunkStep ==
    ASSUME ShellIInv, NEW s \in Shell!Streams, Shell!ReceiveChunk(s)
    PROVE  ShellIInv'
  <1>1. PICK n \in 1..pipe[s] :
           pipe' = [pipe EXCEPT ![s] = @ - n] /\ received' = received + n /\ Shell!Retain(n)
    BY DEF Shell!ReceiveChunk
  <1>2. /\ step = "select" /\ s \in open /\ step' = "emit"
        /\ UNCHANGED <<process, killed, held, written, exitCode, open, cancelled, result>>
    BY DEF Shell!ReceiveChunk
  <1>3. /\ n \in Nat /\ n >= 1 /\ n <= pipe[s]
        /\ pipe'[s] = pipe[s] - n /\ \A t \in Shell!Streams : t # s => pipe'[t] = pipe[t]
    BY <1>1, ShellCounters DEF ShellIInv, Shell!TypeOK
  <1>4. ShellConserved' /\ received' \in Nat /\ received' <= MaxWritten
    <2>1. CASE s = "stdout"
      BY <1>1, <1>2, <1>3, <2>1, ShellCounters DEF ShellIInv, ShellConserved, Shell!Streams
    <2>2. CASE s = "stderr"
      BY <1>1, <1>2, <1>3, <2>2, ShellCounters DEF ShellIInv, ShellConserved, Shell!Streams
    <2> QED
      BY <2>1, <2>2 DEF Shell!Streams
  <1>5. /\ output' = output + (IF n <= MaxOutput - output THEN n ELSE MaxOutput - output)
        /\ truncated' = (truncated \/ n > MaxOutput - output)
    BY <1>1 DEF Shell!Retain
  <1>6. output' \in 0..MaxOutput /\ truncated' \in BOOLEAN /\ ShellKept'
    <2>1. CASE n <= MaxOutput - output
      <3>1. ~truncated /\ output = received
        BY <1>3, <2>1, ShellCounters DEF ShellIInv, ShellKept, Shell!TypeOK
      <3>2. ~(n > MaxOutput - output)
        BY <1>3, <2>1, ShellCounters DEF ShellIInv
      <3>3. ~truncated' /\ truncated' \in BOOLEAN
        BY <1>5, <3>1, <3>2, Zenon
      <3>4. output' = output + n
        BY <1>5, <2>1
      <3>5. output' = received' /\ output' \in 0..MaxOutput
        BY <1>1, <1>3, <2>1, <3>1, <3>4, ShellCounters DEF ShellIInv
      <3>6. output' <= received' /\ ~(output' < received')
        BY <1>4, <3>5
      <3> QED
        BY <3>3, <3>5, <3>6 DEF ShellKept
    <2>2. CASE ~(n <= MaxOutput - output)
      <3>1. output' = MaxOutput
        BY <1>3, <1>5, <2>2, ShellCounters DEF ShellIInv
      <3>2. n > MaxOutput - output
        BY <1>3, <2>2, ShellCounters DEF ShellIInv
      <3>3. truncated' /\ truncated' \in BOOLEAN
        BY <1>5, <3>2, Zenon
      <3>4. MaxOutput < received'
        BY <1>1, <1>3, <3>2, ShellCounters DEF ShellIInv, ShellKept
      <3>5. output' \in 0..MaxOutput
        BY <3>1, ShellCounters
      <3>6. output' < received' /\ output' <= received'
        BY <1>4, <3>1, <3>4, ShellCounters
      <3> QED
        BY <3>1, <3>3, <3>5, <3>6 DEF ShellKept
    <2> QED
      BY <2>1, <2>2
  <1>7. pipe' \in [Shell!Streams -> 0..MaxWritten]
    BY <1>1, <1>3, ShellCounters DEF ShellIInv, Shell!TypeOK
  <1>8. Shell!TypeOK'
    BY <1>2, <1>4, <1>6, <1>7, ShellCounters DEF ShellIInv, Shell!TypeOK
  <1>9. ShellClosed' /\ ShellCompleted'
    BY <1>2, <1>3 DEF ShellIInv, ShellClosed, ShellCompleted
  <1> QED
    BY <1>4, <1>6, <1>8, <1>9 DEF ShellIInv

\* The steps that move no byte.
LEMMA ShellNoBytesMove ==
    ASSUME ShellIInv, UNCHANGED <<pipe, written, received, output, truncated>>,
           Shell!TypeOK', ShellClosed', ShellCompleted'
    PROVE  ShellIInv'
  BY DEF ShellIInv, ShellConserved, ShellKept

LEMMA ShellReturnStep ==
    ASSUME ShellIInv, NEW status \in {"completed", "timed_out", "aborted"}, Shell!Return(status),
           status = "completed" => Shell!Complete, UNCHANGED <<Shell!localVars, cancelled>>
    PROVE  ShellIInv'
  <1> USE DEF Shell!Return, Shell!localVars
  <1>1. Shell!TypeOK' /\ ShellClosed'
    BY DEF ShellIInv, Shell!TypeOK, ShellClosed
  <1>2. ShellCompleted'
    BY DEF ShellCompleted, Shell!Complete
  <1> QED
    BY <1>1, <1>2, ShellNoBytesMove

LEMMA ShellNext == ShellIInv /\ [Shell!Next]_Shell!vars => ShellIInv'
  <1> SUFFICES ASSUME ShellIInv, [Shell!Next]_Shell!vars PROVE ShellIInv'
    OBVIOUS
  <1>1. CASE Shell!ProcessExits \/ Shell!ReceiveExit \/ Shell!Emitted \/ Shell!Cancel
    <2>1. Shell!TypeOK' /\ ShellClosed' /\ ShellCompleted'
      BY <1>1
         DEF Shell!ProcessExits, Shell!ReceiveExit, Shell!Emitted, Shell!Cancel, Shell!osVars,
             Shell!localVars, ShellIInv, Shell!TypeOK,
                  ShellClosed, ShellCompleted
    <2> QED
      BY <1>1, <2>1, ShellNoBytesMove
         DEF Shell!ProcessExits, Shell!ReceiveExit, Shell!Emitted, Shell!Cancel, Shell!osVars,
             Shell!localVars
  <1>2. ASSUME NEW s \in Shell!Streams, Shell!StreamEnds(s) \/ Shell!ReceiveEnd(s) PROVE ShellIInv'
    <2>1. Shell!TypeOK' /\ ShellClosed' /\ ShellCompleted'
      BY <1>2
         DEF Shell!StreamEnds, Shell!ReceiveEnd, Shell!osVars, Shell!localVars, ShellIInv,
             Shell!TypeOK, ShellClosed, ShellCompleted
    <2> QED
      BY <1>2, <2>1, ShellNoBytesMove
         DEF Shell!StreamEnds, Shell!ReceiveEnd, Shell!osVars, Shell!localVars
  <1>3. CASE Shell!Completes
    BY <1>3, ShellReturnStep DEF Shell!Completes
  <1>4. CASE Shell!CancelledSelect \/ Shell!CancelledEmit
    BY <1>4, ShellReturnStep DEF Shell!CancelledSelect, Shell!CancelledEmit
  <1>5. CASE Shell!Deadline
    BY <1>5, ShellReturnStep DEF Shell!Deadline
  <1>6. CASE Shell!Finished \/ UNCHANGED Shell!vars
    <2>1. Shell!TypeOK' /\ ShellClosed' /\ ShellCompleted'
      BY <1>6
         DEF Shell!Finished, Shell!vars, Shell!osVars, Shell!localVars, ShellIInv, Shell!TypeOK,
             ShellClosed, ShellCompleted
    <2> QED
      BY <1>6, <2>1, ShellNoBytesMove DEF Shell!Finished, Shell!vars, Shell!osVars, Shell!localVars
  <1> QED
    BY <1>1, <1>2, <1>3, <1>4, <1>5, <1>6, ShellWritesStep, ShellChunkStep
       DEF Shell!Next, Shell!Loop

-----------------------------------------------------------------------------
(* The theorem about shell commands.                                       *)

\* A command that is reported as completed has its exit code and every byte that
\* was written to its streams, or the mark that the rest did not fit, whatever
\* the limits.
THEOREM ResultIsWholeAlways ==
    ASSUME MaxOutput \in Nat
    PROVE  Shell!Spec => []Shell!ResultIsWhole
  <1>1. Shell!Init => ShellIInv
    BY ShellInit
  <1>2. ShellIInv => Shell!ResultIsWhole
    <2> SUFFICES ASSUME ShellIInv PROVE Shell!ResultIsWhole
      OBVIOUS
    <2>1. ASSUME result = "completed" PROVE received = written
      <3>1. pipe["stdout"] = 0 /\ pipe["stderr"] = 0
        BY <2>1 DEF ShellIInv, ShellCompleted, ShellClosed, Shell!Streams
      <3> QED
        BY <3>1, ShellCounters DEF ShellIInv, ShellConserved
    <2> QED
      BY <2>1 DEF ShellIInv, Shell!ResultIsWhole, Shell!CompletedIsWhole, ShellCompleted, ShellKept
  <1> QED
    BY <1>1, <1>2, ShellNext, PTL DEF Shell!Spec
=============================================================================
