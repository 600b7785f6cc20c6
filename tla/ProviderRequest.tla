--------------------------- MODULE ProviderRequest ---------------------------
(***************************************************************************)
(* A Codex provider request, from the call of streamSimple to its end:     *)
(* the request record and its approval (CodexProviderRequestGuard), the    *)
(* payload hook that replays or creates a remote checkpoint, the context   *)
(* accounting (CodexCompactionStore), the mark of a running compaction     *)
(* (CodexCompactionCoordinator), manual compaction, and the session events *)
(* that come between any two of their steps.                               *)
(*                                                                         *)
(* One session.  JavaScript runs from one await to the next as one step.   *)
(* The estimates, the remote compaction and Pi itself are external: they   *)
(* answer anything the code must expect of them.                           *)
(***************************************************************************)
EXTENDS Integers, Sequences, FiniteSets, SequencesExt

CONSTANTS
    Models,
    AuthOptions,     \* what Pi's model registry hands out: headers and api key
    Claim,           \* the account a token names, or None
    None,
    InitialModel, InitialAuth,
    EntryKinds,      \* what is appended: messages, entries outside the context
    InitialKinds,    \* the kinds of the entries a session begins with
    Slots,           \* requests in flight at a time
    Bounds           \* combinations of bounds: overlapping requests, requests,
                     \* entries appended, and events from outside

ASSUME RequestAssumption ==
    /\ InitialModel \in Models /\ InitialAuth \in AuthOptions
    /\ Bounds \subseteq [overlapping : Nat, requests : Nat, entries : Nat, events : Nat]
    /\ InitialKinds \in Seq(STRING) /\ "manual" \notin Slots
    /\ \A o \in AuthOptions :
         o.authorization \in DOMAIN Claim \cup {None, "other"}
         /\ o.apiKey \in DOMAIN Claim \cup {None}

VARIABLES
    guard,       \* #nextGeneration, #disposed
    req,         \* the requests in flight with their records
    store,       \* CodexCompactionStore of the session
    mark,        \* CodexCompactionCoordinator: the phase of the session
    status,      \* the inline compaction status is showing
    manual,      \* Pi's own compaction, in session_before_compact
    branch,      \* the active branch of the session
    boundary,    \* Pi's usage boundary: the id of an entry, or 0
    restoring,   \* restorations of the boundary in flight
    model, auth, \* ctx.model and what the model registry holds for it
    epoch,       \* session starts and the shutdown, counted
    entries, events,
    bound,       \* the bounds of this behaviour
    committed,   \* the outputs Pi has committed as checkpoints
    disowned,    \* a mark was cleared by someone who had not set it
    rewound      \* the user went back while a hook held the branch it had read

compactionVars == <<store, mark, status, disowned>>
branchVars == <<branch, boundary, committed, entries, rewound>>
sessionVars == <<restoring, model, auth, epoch, events, bound>>
vars == <<guard, req, compactionVars, manual, branchVars, sessionVars>>

\* What comes from outside is counted, to bound it.
Event == events < bound.events /\ events' = events + 1

-----------------------------------------------------------------------------
(* Identities.                                                             *)

\* createProviderConnection: what authenticates a request.  A header wins over
\* the api key, and suppresses it even when it is no bearer token.
CreateProviderConnection(o) ==
    LET token == IF o.authorization # None
                 THEN IF o.authorization = "other" THEN None ELSE o.authorization
                 ELSE IF o.suppressed THEN None ELSE o.apiKey
    IN [token |-> token, accountHeader |-> o.accountHeader]

\* authenticationSummary: a token that names an account stands for the account,
\* so that a refreshed token keeps the identity.
AuthenticationSummary(c) ==
    IF c.token = None THEN None
    ELSE LET claim == Claim[c.token] IN
         IF claim # None /\ c.accountHeader \notin {None, claim} THEN None
         ELSE IF claim # None THEN <<"jwt_account", claim>>
         ELSE <<"credential", c.token>>

NoIdentity == <<>>
ProviderCompactionIdentity(m, c) ==
    LET binding == AuthenticationSummary(c)
    IN IF binding = None THEN NoIdentity ELSE <<m, binding>>

-----------------------------------------------------------------------------
(* Entries, payloads and checkpoints.  An item stands for the messages it  *)
(* carries: a message item for one, the output of a compaction for all     *)
(* that were compacted into it.                                            *)

MessageItem(id) == [ids |-> <<id>>, by |-> NoIdentity]
CompactionItem(input, identity) ==
    [ids |-> FlattenSeq([i \in DOMAIN input |-> input[i].ids]), by |-> identity]
ForeignItem == [ids |-> <<0>>, by |-> NoIdentity]

IsSupportedStructuredResponseItem(item) == item # ForeignItem

\* What stands for what: the messages a payload carries, in order.
Standing(payload) == FlattenSeq([i \in DOMAIN payload |-> payload[i].ids])

ValidateCompactionOutput_AnyNumber(output) ==
    output # <<>> /\ \A i \in DOMAIN output : IsSupportedStructuredResponseItem(output[i])
\* Supported items, exactly one of them the compaction.
ValidateCompactionOutput(output) ==
    /\ output # <<>> /\ \A i \in DOMAIN output : IsSupportedStructuredResponseItem(output[i])
    /\ Cardinality({i \in DOMAIN output : output[i].by # NoIdentity}) = 1

\* What the remote compaction may answer: everything in one item, a message kept
\* beside it, or nothing, too much or something unknown.
RemoteOutputs(input, identity) ==
    {<<CompactionItem(input, identity)>>,
     <<Head(input), CompactionItem(Tail(input), identity)>>,
     <<CompactionItem(input, identity), CompactionItem(input, identity)>>,
     <<ForeignItem>>, <<>>}

Entry(id, kind) == [id |-> id, kind |-> kind, covered |-> 0, by |-> NoIdentity, output |-> <<>>]
Checkpoint(id, p) ==
    [id |-> id, kind |-> "checkpoint", covered |-> p.covered, by |-> p.by, output |-> p.output]

\* Older schemas and what does not validate are inert, like any other custom entry.
ParseRemoteCompactionCheckpoint(e) ==
    e.kind = "checkpoint" /\ e.by # NoIdentity /\ ValidateCompactionOutput(e.output)

SameIdentity(e, identity) == e.by = identity

\* Messages become items, everything else is left out.
ProjectCanonicalEntries(es) ==
    FlattenSeq([i \in DOMAIN es |->
        IF es[i].kind = "message" THEN <<MessageItem(es[i].id)>> ELSE <<>>])

Leaf(es) == IF es = <<>> THEN 0 ELSE Last(es).id
IndexOf(es, id) == SelectInSeq(es, LAMBDA e : e.id = id)

ScanRemoteCompactionCheckpoints_AnyIdentity(es, identity, before) ==
    SelectLastInSeq(es, LAMBDA e :
        /\ ParseRemoteCompactionCheckpoint(e)
        /\ IndexOf(es, e.covered) \in 1..(IndexOf(es, e.id) - 1) \cap 1..(before - 1))
\* The index of the latest checkpoint of this identity whose covered entry lies
\* before it and before the boundary, or 0.
ScanRemoteCompactionCheckpoints(es, identity, before) ==
    SelectLastInSeq(es, LAMBDA e :
        /\ ParseRemoteCompactionCheckpoint(e) /\ SameIdentity(e, identity)
        /\ IndexOf(es, e.covered) \in 1..(IndexOf(es, e.id) - 1) \cap 1..(before - 1))

CheckpointSuffix_AfterCheckpoint(es, at, end) ==
    ProjectCanonicalEntries(SubSeq(es, at + 1, end - 1))
\* What follows the covered entry, the end excluded.
CheckpointSuffix(es, at, end) ==
    ProjectCanonicalEntries(SubSeq(es, IndexOf(es, es[at].covered) + 1, end - 1))

CheckpointPayload(es, at, end) == es[at].output \o CheckpointSuffix(es, at, end)

-----------------------------------------------------------------------------
(* CodexCompactionStore, for one session.                                  *)

InvalidateContextAccounting(s) ==
    [s EXCEPT !.generation = @ + 1, !.baselines = {}]

ContextAccounting_KeepsOthers(s, identity) == [s EXCEPT !.active = identity]
\* Another identity than the active one starts a new generation.
ContextAccounting(s, identity) ==
    [(IF s.active \notin {NoIdentity, identity} THEN InvalidateContextAccounting(s) ELSE s)
        EXCEPT !.active = identity]

RecordContextUsage_LastWins(s, usage) ==
    IF s.generation # usage.generation THEN s
    ELSE [s EXCEPT !.baselines = {b \in @ : b.by # usage.by} \cup {usage}]
\* A response of an older request never replaces that of a newer one.
RecordContextUsage(s, usage) ==
    IF \/ s.generation # usage.generation
       \/ \E b \in s.baselines : b.by = usage.by /\ b.request > usage.request
    THEN s
    ELSE [s EXCEPT !.baselines = {b \in @ : b.by # usage.by} \cup {usage}]

DisposeStore(s) == [InvalidateContextAccounting(s) EXCEPT !.active = NoIdentity]

-----------------------------------------------------------------------------
(* The request record; what a later step no longer reads is reset.         *)

NoAccounting == [generation |-> 0, input |-> <<>>]
NoProposal == [covered |-> 0, by |-> NoIdentity, output |-> <<>>]
NoPayload == <<ForeignItem, ForeignItem>>
Free ==
    [pc |-> "free", generation |-> 0, model |-> None, identity |-> NoIdentity, epoch |-> 0,
     input |-> <<>>, payload |-> <<>>, approved |-> NoPayload, closed |-> FALSE,
     aborted |-> FALSE, failed |-> FALSE, token |-> 0, replay |-> <<>>,
     pending |-> FALSE, read |-> <<>>, accounting |-> NoAccounting, proposal |-> NoProposal]

\* assertLive; the record is in #records until it is closed.
AssertLive(r) == ~guard.disposed /\ ~req[r].closed /\ ~req[r].aborted

\* An error in the hook is recorded in a record that is still live; Pi then
\* rejects the request or goes on without the hook's answer.
HookFails(r) ==
    [req EXCEPT ![r] = [Free EXCEPT !.pc = "answered", !.failed = req[r].failed \/ AssertLive(r),
                          !.generation = req[r].generation, !.epoch = req[r].epoch,
                          !.payload = req[r].input, !.closed = req[r].closed,
                          !.aborted = req[r].aborted]]

Approve(r, payload) ==
    [req EXCEPT ![r].approved = payload, ![r].payload = payload, ![r].pc = "answered",
                ![r].replay = <<>>, ![r].pending = FALSE]

\* The digests agree exactly when the payloads do.
SameDigest(payload, approved) == payload = approved
AssertApproved(r) ==
    AssertLive(r) /\ ~req[r].failed /\ SameDigest(req[r].payload, req[r].approved)

InvalidateAll_Nothing(rs) == rs
InvalidateAll(rs) ==
    [r \in Slots |-> [rs[r] EXCEPT !.closed = rs[r].pc \notin {"free", "preparing"} \/ @]]

-----------------------------------------------------------------------------
(* CodexCompactionCoordinator.                                             *)

IsBusy == mark # "idle"

\* Whose compactions run: end and dispose clear the mark whoever set it.
Compacting == {r \in Slots : req[r].pc = "compacting"}
Running == Compacting \cup (IF manual.pc = "executing" THEN {"manual"} ELSE {})
ClearMark(own) ==
    /\ mark' = "idle"
    /\ disowned' = (disowned \/ Running \ own # {})

-----------------------------------------------------------------------------
(* The payload hook and its request.                                       *)

BuildCodexRequest(es) == ProjectCanonicalEntries(es)

\* streamSimple: the options are copied, the input is what Pi's context holds.
Start(r) ==
    /\ req[r].pc = "free" /\ guard.next < bound.requests
    /\ Cardinality({s \in Slots : req[s].pc # "free"}) < bound.overlapping
    /\ LET c == CreateProviderConnection(auth) IN
       req' = [req EXCEPT ![r] = [Free EXCEPT
                 !.pc = "preparing", !.model = model, !.epoch = epoch,
                 !.identity = ProviderCompactionIdentity(model, c),
                 !.input = BuildCodexRequest(branch)]]
    /\ UNCHANGED <<guard, manual, compactionVars, branchVars, sessionVars>>

Open_KeepsCounter(r) ==
    /\ req[r].pc = "preparing" /\ ~guard.disposed /\ ~req[r].aborted /\ guard.next < bound.requests
    /\ UNCHANGED guard
    /\ \E token \in {0, Leaf(branch)} :
         /\ token # 0 => req[r].input = ProjectCanonicalEntries(branch)
         /\ req' = [req EXCEPT ![r].pc = "hooking", ![r].generation = guard.next + 1,
                               ![r].payload = req[r].input, ![r].epoch = epoch,
                               ![r].token = token]
    /\ UNCHANGED <<manual, compactionVars, branchVars, sessionVars>>
\* The configuration and the capabilities are there: the record is opened, and
\* Pi's onPayload runs in its scope.  Pi prepares a commit token for a leaf whose
\* history is the request's, or none.
Open(r) ==
    /\ req[r].pc = "preparing" /\ ~guard.disposed /\ ~req[r].aborted /\ guard.next < bound.requests
    /\ guard' = [guard EXCEPT !.next = @ + 1]
    /\ \E token \in {0, Leaf(branch)} :
         /\ token # 0 => req[r].input = ProjectCanonicalEntries(branch)
         /\ req' = [req EXCEPT ![r].pc = "hooking", ![r].generation = guard.next + 1,
                               ![r].payload = req[r].input, ![r].epoch = epoch,
                               ![r].token = token]
    /\ UNCHANGED <<manual, compactionVars, branchVars, sessionVars>>

HookMayProceed(r) == AssertLive(r) /\ req[r].model = model

Selected(r) == ScanRemoteCompactionCheckpoints(branch, req[r].identity, Len(branch) + 1)
EntryIdAt(at) == IF at = 0 THEN 0 ELSE branch[at].id

\* The synchronous part of the hook: the usage boundary is refreshed, the branch
\* is read once, the replay is built from it.
Scan(r) ==
    /\ req[r].pc = "hooking" /\ HookMayProceed(r) /\ req[r].identity # NoIdentity
    /\ LET end == Len(branch) + 1
           at == Selected(r)
           replay == IF at = 0 THEN req[r].input ELSE CheckpointPayload(branch, at, end)
           pending == IF at = 0 THEN req[r].input # <<>>
                      ELSE CheckpointSuffix(branch, at, end) # <<>>
       IN /\ boundary' = EntryIdAt(at)
          /\ req' = [req EXCEPT ![r].pc = "scanned", ![r].replay = replay, ![r].pending = pending,
                                ![r].read = Standing(ProjectCanonicalEntries(branch))]
    /\ UNCHANGED <<guard, manual, compactionVars, branch, committed, entries, sessionVars, rewound>>

\* A summary that Pi itself asks for is approved as it is.
ApproveSummary(r) ==
    /\ req[r].pc = "hooking" /\ HookMayProceed(r)
    /\ req' = Approve(r, req[r].input)
    /\ boundary' = EntryIdAt(Selected(r))
    /\ UNCHANGED <<guard, manual, compactionVars, branch, committed, entries, sessionVars, rewound>>

\* Configuration and capabilities again, then the accounting is read and the
\* estimate asked for.
Account(r) ==
    /\ req[r].pc = "scanned"
    /\ store' = ContextAccounting(store, req[r].identity)
    /\ req' = [req EXCEPT ![r].pc = "estimating",
                 ![r].accounting = [generation |-> store'.generation, input |-> req[r].replay]]
    /\ UNCHANGED <<guard, manual, mark, status, disowned, branchVars, sessionVars>>

Levels == {"below", "threshold", "window"}

ShouldCreateAutomaticCheckpoint(r, auto, level) ==
    auto /\ level # "below" /\ req[r].pending /\ ~IsBusy

\* The estimate says that the context fits, or that nothing can be done about it.
Estimated(r) ==
    /\ req[r].pc = "estimating" /\ AssertLive(r)
    /\ \E auto \in BOOLEAN, level \in Levels :
         /\ ~ShouldCreateAutomaticCheckpoint(r, auto, level)
         /\ req' = IF level = "window" THEN HookFails(r) ELSE Approve(r, req[r].replay)
    /\ UNCHANGED <<guard, manual, compactionVars, branchVars, sessionVars>>

BeginCompaction_Unmarked(r) ==
    /\ req[r].pc = "estimating" /\ AssertLive(r) /\ req[r].token # 0
    /\ \E level \in Levels : ShouldCreateAutomaticCheckpoint(r, TRUE, level)
    /\ status' = TRUE
    /\ req' = [req EXCEPT ![r].pc = "compacting",
                 ![r].proposal = [NoProposal EXCEPT !.covered = Leaf(branch)]]
    /\ UNCHANGED <<guard, manual, store, mark, disowned, branchVars, sessionVars>>
BeginCompaction(r) ==
    /\ req[r].pc = "estimating" /\ AssertLive(r) /\ req[r].token # 0
    /\ \E level \in Levels : ShouldCreateAutomaticCheckpoint(r, TRUE, level)
    /\ mark' = "pending" /\ status' = TRUE
    /\ req' = [req EXCEPT ![r].pc = "compacting",
                 ![r].proposal = [NoProposal EXCEPT !.covered = Leaf(branch)]]
    /\ UNCHANGED <<guard, manual, store, disowned, branchVars, sessionVars>>

\* Without a token the overflow is reported by failing the request: the hook
\* records the failure and returns the payload as it came.
ContextWindowError(r) ==
    /\ req[r].pc = "estimating" /\ AssertLive(r) /\ req[r].token = 0
    /\ \E level \in Levels : ShouldCreateAutomaticCheckpoint(r, TRUE, level)
    /\ req' = HookFails(r)
    /\ UNCHANGED <<guard, manual, compactionVars, branchVars, sessionVars>>

CompactionAccepted(r) == AssertLive(r) /\ Leaf(branch) = req[r].proposal.covered

\* The output came, the request is live and the leaf has not moved: the usage of
\* the replaced context is forgotten and the compacted payload approved.
Compacted(r) ==
    /\ req[r].pc = "compacting" /\ CompactionAccepted(r)
    /\ \E output \in RemoteOutputs(req[r].replay, req[r].identity) :
       /\ ValidateCompactionOutput(output)
       /\ store' = ContextAccounting(InvalidateContextAccounting(store), req[r].identity)
       /\ req' = [Approve(r, output) EXCEPT
                    ![r].accounting = [generation |-> store'.generation, input |-> output],
                    ![r].proposal.by = req[r].identity, ![r].proposal.output = output]
    /\ ClearMark({r})
    /\ UNCHANGED <<guard, manual, status, branchVars, sessionVars>>

CompactionFails_KeepsMark(r) ==
    /\ req[r].pc = "compacting"
    /\ status' = FALSE /\ req' = HookFails(r)
    /\ UNCHANGED <<guard, manual, store, mark, disowned, branchVars, sessionVars>>
CompactionFails_KeepsStatus(r) ==
    /\ req[r].pc = "compacting"
    /\ req' = HookFails(r) /\ ClearMark({r})
    /\ UNCHANGED <<guard, manual, store, status, branchVars, sessionVars>>
\* The remote call failed, was aborted or returned what does not validate, or
\* its result came too late.
CompactionFails(r) ==
    /\ req[r].pc = "compacting"
    /\ status' = FALSE /\ req' = HookFails(r) /\ ClearMark({r})
    /\ UNCHANGED <<guard, manual, store, branchVars, sessionVars>>

\* Any other error of the hook: not live, another model, no identity, a payload
\* that another extension changed, a failed configuration or capability.
HookError(r) ==
    /\ req[r].pc \in {"hooking", "scanned", "estimating"}
    /\ req' = HookFails(r)
    /\ \/ UNCHANGED boundary
       \/ req[r].pc = "hooking" /\ HookMayProceed(r) /\ boundary' = EntryIdAt(Selected(r))
    /\ UNCHANGED <<guard, manual, compactionVars, branch, committed, entries, sessionVars, rewound>>

-----------------------------------------------------------------------------
(* Pi's side of the hook, and the dispatch.                                *)

\* Pi appends the checkpoint if the leaf is still the one of the token; it moves
\* the usage boundary and tells the extension.  Only then the request goes on.
Commit(r) ==
    /\ req[r].pc = "answered" /\ req[r].proposal # NoProposal
    /\ Leaf(branch) = req[r].token /\ entries < bound.entries
    /\ entries' = entries + 1
    /\ branch' = Append(branch, Checkpoint(entries + 1, req[r].proposal))
    /\ committed' = committed \cup {req[r].proposal.output}
    /\ boundary' = entries + 1
    /\ status' = FALSE
    /\ req' = [req EXCEPT ![r].proposal = NoProposal]
    /\ UNCHANGED <<guard, manual, store, mark, disowned, sessionVars, rewound>>

Rejected(r) == [req EXCEPT ![r] = Free]

\* Otherwise it reports the outcome as indeterminate and fails onPayload.
Indeterminate(r) ==
    /\ req[r].pc = "answered" /\ req[r].proposal # NoProposal
    /\ status' = FALSE
    /\ req' = Rejected(r)
    /\ UNCHANGED <<guard, manual, store, mark, disowned, branchVars, sessionVars>>

\* Another extension answers the payload event after this one.
Replace(r) ==
    /\ req[r].pc = "answered" /\ req[r].proposal = NoProposal
    /\ req[r].payload # <<ForeignItem>>
    /\ req' = [req EXCEPT ![r].payload = <<ForeignItem>>]
    /\ UNCHANGED <<guard, manual, compactionVars, branchVars, sessionVars>>

Dispatch(r) ==
    /\ req[r].pc = "answered" /\ req[r].proposal = NoProposal
    /\ AssertApproved(r)
    /\ req' = [req EXCEPT ![r].pc = "dispatched", ![r].token = 0]
    /\ UNCHANGED <<guard, manual, compactionVars, branchVars, sessionVars>>

\* Completed or incomplete: the usage is recorded, the record consumed.
Complete(r) ==
    /\ req[r].pc = "dispatched" /\ ~req[r].aborted
    /\ \/ UNCHANGED store          \* no usage was reported
       \/ /\ req[r].accounting # NoAccounting
          /\ req[r].payload = req[r].accounting.input
          /\ store' = RecordContextUsage(store,
                        [generation |-> req[r].accounting.generation,
                         request |-> req[r].generation, by |-> req[r].identity])
    /\ req' = [req EXCEPT ![r] = Free]
    /\ UNCHANGED <<guard, manual, mark, status, disowned, branchVars, sessionVars>>

\* Every error ends the stream and consumes the record: no connection, no
\* capability, a rejected payload, a failed, aborted or failing response.
Fail(r) ==
    /\ \/ req[r].pc \in {"preparing", "dispatched"}
       \/ req[r].pc = "answered" /\ req[r].proposal = NoProposal
    /\ req' = Rejected(r)
    /\ UNCHANGED <<guard, manual, compactionVars, branchVars, sessionVars>>

Abort(r) ==
    /\ req[r].pc # "free" /\ ~req[r].aborted
    /\ Event
    /\ req' = [req EXCEPT ![r].aborted = TRUE]
    /\ UNCHANGED <<guard, manual, compactionVars, branchVars, restoring, model, auth, epoch, bound>>

-----------------------------------------------------------------------------
(* compactForPi: the compaction that Pi asks for, one at a time.           *)

Idle == [pc |-> "idle", overlay |-> FALSE, branch |-> <<>>, kept |-> 0, aborted |-> FALSE,
         identity |-> NoIdentity, input |-> <<>>, proposal |-> NoProposal]

CurrentIdentity == ProviderCompactionIdentity(model, CreateProviderConnection(auth))

\* The user's /compact or an overflow; or the settings overlay, which first
\* announces the execution to the coordinator.  compactForPi keeps the model of its
\* call and asks for the credentials before it loads and resolves anything else.
ManualStart(overlay) ==
    /\ manual.pc = "idle" /\ ~guard.disposed
    /\ Event
    /\ \E kept \in 1..Len(branch) :
         manual' = [Idle EXCEPT !.pc = "resolving", !.overlay = overlay,
                                !.branch = branch, !.kept = kept, !.identity = CurrentIdentity]
    /\ overlay => ~IsBusy
    /\ mark' = IF overlay THEN "requested" ELSE mark
    /\ UNCHANGED <<guard, req, store, status, disowned, branchVars, restoring, model, auth, epoch, bound>>

\* What is compacted is the part before the first entry that Pi keeps.
ManualInput ==
    LET at == ScanRemoteCompactionCheckpoints(manual.branch, manual.identity, manual.kept)
    IN IF manual.kept = 1 \/ manual.identity = NoIdentity THEN <<>>
       ELSE IF at = 0 THEN ProjectCanonicalEntries(SubSeq(manual.branch, 1, manual.kept - 1))
       ELSE CheckpointPayload(manual.branch, at, manual.kept)

BeginExecution ==
    /\ manual.pc = "resolving" /\ mark \notin {"pending", "executing"} /\ ManualInput # <<>>
    /\ mark' = "executing"
    /\ manual' = [manual EXCEPT !.pc = "executing", !.input = ManualInput,
                    !.proposal = [NoProposal EXCEPT !.by = manual.identity,
                                    !.covered = manual.branch[manual.kept - 1].id]]
    /\ UNCHANGED <<guard, req, store, status, disowned, branchVars, sessionVars>>

\* Cancelled before the execution began, or because the boundary, the identity
\* or the input is missing: whoever began clears the mark.
ManualCancelled ==
    /\ manual.pc = "resolving"
    /\ manual' = [Idle EXCEPT !.pc = "settling", !.overlay = manual.overlay]
    /\ \/ UNCHANGED <<mark, disowned>>
       \/ mark \notin {"pending", "executing"} /\ ManualInput = <<>> /\ ClearMark({"manual"})
    /\ UNCHANGED <<guard, req, store, status, branchVars, sessionVars>>

ManualCompacted ==
    /\ manual.pc = "executing" /\ ~manual.aborted /\ Leaf(branch) = Leaf(manual.branch)
    /\ store' = InvalidateContextAccounting(store)
    /\ \E output \in RemoteOutputs(manual.input, manual.proposal.by) :
         /\ ValidateCompactionOutput(output)
         /\ manual' = [manual EXCEPT !.pc = "returning", !.input = <<>>, !.proposal.output = output]
    /\ ClearMark({"manual"})
    /\ UNCHANGED <<guard, req, status, branchVars, sessionVars>>

ManualFails ==
    /\ manual.pc = "executing"
    /\ manual' = [Idle EXCEPT !.pc = "settling", !.overlay = manual.overlay]
    /\ ClearMark({"manual"})
    /\ UNCHANGED <<guard, req, store, status, branchVars, sessionVars>>

ManualAbort ==
    /\ manual.pc \in {"resolving", "executing"} /\ ~manual.aborted
    /\ Event
    /\ manual' = [manual EXCEPT !.aborted = TRUE]
    /\ UNCHANGED <<guard, req, compactionVars, branchVars, restoring, model, auth, epoch, bound>>

\* Pi commits on the leaf it made the token for, or reports the outcome as
\* indeterminate; either event clears the status.
ManualCommit ==
    /\ manual.pc = "returning"
    /\ status' = FALSE
    /\ manual' = [Idle EXCEPT !.pc = "settling", !.overlay = manual.overlay]
    /\ \/ /\ Leaf(branch) = Leaf(manual.branch) /\ entries < bound.entries
          /\ entries' = entries + 1
          /\ branch' = Append(branch, Checkpoint(entries + 1, manual.proposal))
          /\ committed' = committed \cup {manual.proposal.output}
          /\ boundary' = entries + 1
       \/ UNCHANGED <<entries, branch, committed, boundary>>
    /\ UNCHANGED <<guard, req, store, mark, disowned, sessionVars, rewound>>

\* onComplete or onError of the overlay's compaction clears the mark again.
ManualSettle ==
    /\ manual.pc = "settling"
    /\ manual' = Idle
    /\ IF manual.overlay THEN ClearMark({"manual"}) ELSE UNCHANGED <<mark, disowned>>
    /\ UNCHANGED <<guard, req, store, status, branchVars, sessionVars>>

-----------------------------------------------------------------------------
(* The session.                                                            *)

\* Pi, its user and other extensions append while no checkpoint is committed.
AppendEntry ==
    /\ entries < bound.entries /\ entries' = entries + 1
    /\ \E kind \in EntryKinds : branch' = Append(branch, Entry(entries + 1, kind))
    /\ UNCHANGED <<guard, req, manual, compactionVars, boundary, committed, sessionVars, rewound>>

DisposeSession ==
    status' = FALSE /\ ClearMark({}) /\ store' = DisposeStore(store)

\* Both session_start handlers, up to their first await: that of extension.ts and
\* that of registerCodexCompaction.  Pi runs one after the other; that the first
\* awaits its refresh before the second begins is not modelled.
SessionStart ==
    /\ Event /\ ~guard.disposed
    /\ req' = InvalidateAll(req)
    /\ DisposeSession
    /\ restoring' = restoring + 1
    /\ epoch' = epoch + 1
    /\ UNCHANGED <<guard, manual, branchVars, model, auth, bound>>

ModelSelect ==
    /\ Event /\ ~guard.disposed
    /\ model' \in Models \ {model}
    /\ store' = InvalidateContextAccounting(store)
    /\ restoring' = restoring + 1
    /\ UNCHANGED <<guard, req, manual, mark, status, disowned, branchVars, auth, epoch, bound>>

SessionTree_KeepsBoundary ==
    /\ Event /\ ~guard.disposed
    /\ \E n \in 0..(Len(branch) - 1) : branch' = SubSeq(branch, 1, n)
    /\ rewound' = (rewound \/ \E r \in Slots : req[r].pc \in {"scanned", "estimating"})
    /\ store' = InvalidateContextAccounting(store)
    /\ UNCHANGED <<restoring, guard, req, manual, mark, status, disowned, boundary, committed, entries, model, auth, epoch, bound>>
\* The user goes back in the session tree.  Pi also lets them go to a sibling, or
\* forward again to entries they left; branches that were left are not kept here.
SessionTree ==
    /\ Event /\ ~guard.disposed
    /\ \E n \in 0..(Len(branch) - 1) : branch' = SubSeq(branch, 1, n)
    /\ rewound' = (rewound \/ \E r \in Slots : req[r].pc \in {"scanned", "estimating"})
    /\ store' = InvalidateContextAccounting(store)
    /\ restoring' = restoring + 1
    /\ UNCHANGED <<guard, req, manual, mark, status, disowned, boundary, committed, entries, model, auth, epoch, bound>>

\* Credentials change without an event.
ChangeCredentials ==
    /\ Event
    /\ auth' \in AuthOptions \ {auth}
    /\ UNCHANGED <<guard, req, manual, compactionVars, branchVars, restoring, model, epoch, bound>>

Shutdown ==
    /\ Event /\ ~guard.disposed
    /\ guard' = [guard EXCEPT !.disposed = TRUE]
    /\ req' = InvalidateAll(req)
    /\ DisposeSession
    /\ epoch' = epoch + 1
    /\ UNCHANGED <<manual, branchVars, restoring, model, auth, bound>>

\* The connection is resolved, or is not; the branch is read after that await.
RestoreBoundary ==
    /\ restoring > 0 /\ restoring' = restoring - 1
    /\ boundary' \in {0, EntryIdAt(ScanRemoteCompactionCheckpoints(
                               branch, CurrentIdentity, Len(branch) + 1))}
    /\ UNCHANGED <<guard, req, manual, compactionVars, branch, committed, entries, model, auth, epoch, events, bound, rewound>>

-----------------------------------------------------------------------------
Init ==
    /\ guard = [next |-> 0, disposed |-> FALSE]
    /\ req = [r \in Slots |-> Free]
    /\ store = [generation |-> 0, active |-> NoIdentity, baselines |-> {}]
    /\ mark = "idle" /\ status = FALSE /\ manual = Idle
    /\ branch = [i \in DOMAIN InitialKinds |-> Entry(i, InitialKinds[i])]
    /\ entries = Len(InitialKinds) /\ boundary = 0 /\ restoring = 0
    /\ model = InitialModel /\ auth = InitialAuth
    /\ epoch = 0 /\ events = 0 /\ bound \in Bounds
    /\ committed = {} /\ disowned = FALSE /\ rewound = FALSE

RequestStep(r) ==
    \/ Open(r) \/ Scan(r) \/ ApproveSummary(r) \/ Account(r) \/ Estimated(r)
    \/ BeginCompaction(r) \/ ContextWindowError(r) \/ Compacted(r) \/ CompactionFails(r)
    \/ HookError(r) \/ Commit(r) \/ Indeterminate(r) \/ Dispatch(r) \/ Complete(r) \/ Fail(r)

ManualStep ==
    BeginExecution \/ ManualCancelled \/ ManualCompacted \/ ManualFails
    \/ ManualCommit \/ ManualSettle

SessionEvent ==
    AppendEntry \/ SessionStart \/ ModelSelect \/ SessionTree \/ ChangeCredentials \/ Shutdown

Next ==
    \/ \E r \in Slots : Start(r) \/ RequestStep(r) \/ Replace(r) \/ Abort(r)
    \/ \E overlay \in BOOLEAN : ManualStart(overlay)
    \/ ManualStep \/ ManualAbort \/ SessionEvent \/ RestoreBoundary

Spec == Init /\ [][Next]_vars

-----------------------------------------------------------------------------
(* Properties.                                                             *)

\* Every variable has its type.
TypeOK ==
    /\ guard.next \in 0..bound.requests /\ guard.disposed \in BOOLEAN
    /\ \A r \in Slots :
         /\ req[r].pc \in {"free", "preparing", "hooking", "scanned", "estimating",
                          "compacting", "answered", "dispatched"}
         /\ req[r].generation \in 0..guard.next
         /\ req[r].model \in Models \cup {None}
    /\ mark \in {"idle", "pending", "requested", "executing"}
    /\ manual.pc \in {"idle", "resolving", "executing", "returning", "settling"}
    /\ entries \in Nat /\ boundary \in 0..entries
    /\ store.generation \in Nat /\ restoring \in Nat
    /\ status \in BOOLEAN /\ disowned \in BOOLEAN

\* A request goes out only in the session it was opened in, while the extension
\* runs, unless it was aborted or its hook failed, and with the very payload its
\* own hook approved: whatever session events, other extensions and Pi did in
\* between (assertApproved).
DispatchIsApproved ==
    [][\A r \in Slots :
         req[r].pc # "dispatched" /\ req'[r].pc = "dispatched"
         => /\ req[r].epoch = epoch /\ ~guard.disposed
            /\ ~req[r].aborted /\ ~req[r].failed
            /\ req[r].payload = req[r].approved]_vars

\* What is dispatched stands for every message of the request's context, or of
\* the branch as the hook read it, each once and in order: the checkpoint and its
\* suffix neither lose nor repeat any (checkpointPayload).  The exception is that
\* of the checkpoints below, and what is replayed from them.
ReplayIsComplete ==
    \/ rewound
    \/ \A r \in Slots : req[r].pc = "dispatched" =>
         Standing(req[r].payload) \in {Standing(req[r].input), req[r].read}

\* A checkpoint that can be replayed holds exactly the messages up to the entry it
\* covers, though messages are appended and the branch changes while it is made.
\* (The hook reads the branch before its awaits and the leaf after them: should
\* the user go back in between, the two need not belong together.)
CheckpointsHoldTheirPrefix ==
    \/ rewound
    \/ \A i \in DOMAIN branch : branch[i].kind = "checkpoint" =>
         LET covered == IndexOf(branch, branch[i].covered)
         IN covered \in 1..(i - 1) =>
              Standing(branch[i].output)
                = Standing(ProjectCanonicalEntries(SubSeq(branch, 1, covered)))

\* A dispatched payload holds compacted history only if it was compacted under
\* the identity of this request and has been committed to the session before:
\* never that of another account or model, never an uncommitted one.
OpaqueOutputIsOwnAndCommitted ==
    \A r \in Slots : req[r].pc = "dispatched" =>
        \A i \in DOMAIN req[r].payload : req[r].payload[i].by # NoIdentity =>
            /\ req[r].payload[i].by = req[r].identity
            /\ \E output \in committed : req[r].payload[i] \in ToSet(output)

\* Recorded usage is of the identity that requests use now: a late response of
\* another one is not kept, nor kept beside it (contextAccounting).
BaselinesAreOfActiveIdentity ==
    \A b \in store.baselines : b.by = store.active /\ b.generation = store.generation

\* Within a generation, usage only comes from later and later requests.
UsageNeverGoesBack ==
    [][\A b \in store.baselines, c \in store'.baselines :
         b.by = c.by /\ b.generation = c.generation => c.request >= b.request]_vars

\* The coordinator is never left busy: a mark belongs to a compaction that still
\* runs, on every path of success, failure, cancellation and restart.
MarkHasOwner ==
    /\ mark = "pending" => Compacting # {}
    /\ mark = "executing" => manual.pc = "executing"
    /\ mark = "requested" => manual.pc # "idle" /\ manual.overlay

\* Two remote compactions never run at a time, unless one outlived a mark that
\* a session start, the shutdown or the overlay's callback cleared for it.
OneCompaction == disowned \/ Cardinality(Running) <= 1

\* The inline status shows only while its compaction runs or awaits Pi's commit.
StatusHasOwner ==
    status => \E r \in Slots :
        req[r].pc = "compacting" \/ req[r].proposal.output # <<>>

\* Once the restorations have ended, Pi's usage boundary names a checkpoint of
\* the branch that is active now, or nothing.
BoundaryIsOnBranch ==
    restoring = 0 => boundary \in {0} \cup
        {e.id : e \in {x \in ToSet(branch) : x.kind = "checkpoint"}}

\* Requests are well formed: the state is typed, and what is dispatched covers
\* the history it replays.
RequestsAreComplete == TypeOK /\ ReplayIsComplete

\* Checkpoints are sound: each holds the prefix it replaces, and opaque output
\* is used only where its own identity committed it.
CheckpointsAreSound == CheckpointsHoldTheirPrefix /\ OpaqueOutputIsOwnAndCommitted

\* Compaction is exclusive, the one disowned by dispose apart: the mark and the
\* status line have an owner, and there is at most one.
CompactionIsExclusive == MarkHasOwner /\ OneCompaction /\ StatusHasOwner

\* The context accounting describes the session as it is now: baselines of the
\* active identity, a boundary on the branch, and usage that no late report of
\* an overtaken request replaces.
AccountingIsCurrent ==
    [](BaselinesAreOfActiveIdentity /\ BoundaryIsOnBranch) /\ UsageNeverGoesBack
=============================================================================
