# A TLA+ model of pi-codex-adaptor

pi-codex-adaptor runs OpenAI Codex tools and Responses requests for the Pi coding
agent. A TypeScript extension (`src/src`) talks over stdin/stdout, one JSON frame per
line, to a bundled Rust process, the *bridge* (`src/native/crates/codex-bridge`). The
bridge streams model responses, runs shell commands and sessions, applies patches,
reads images, and asks the user for approval before side effects.

This directory holds TLA+ modules of the core of that system, in the bridge and in the
extension, the TLC
configurations that check them on small instances, and TLAPS proofs of the central
safety properties. `PROJECT.json` lists, for every definition that models code, the
lines it stands for.

Run a check with `tlc -config flow_safety.cfg MCFlowControl`, a proof with
`tlapm FlowControlProofs.tla`.

In the text, `runtime.rs` is `src/native/crates/codex-bridge/src/runtime.rs`,
`client.ts` and `runtime.ts` are in `src/src/infrastructure/codex-bridge/`, the files of the
provider and of compaction in `src/src/integration/pi/` and `src/src/application/`.

## Inventory

| Component | State | Operations | Hard behaviour | What makes it correct |
|---|---|---|---|---|
| Event flow control (`runtime.rs` FlowController, `client.ts` promise chain) | last sent and acknowledged number, paused flag, Notify, output channel, handler chain | emit, acknowledge, cancel, route a frame, run a handler | four actors interleave between two awaits; a wake-up that stores no permit; frames that cross | nothing buffered beyond the window, no gap, no reordering, no stall, the connection survives an abort |
| Bridge connection (`client.ts`, serve loop of `runtime.rs`) | pending and ignored ids, active map, join set, seen ids | initialize, request, abort, control request, shutdown, drain, exit | timeouts against late replies, id limits, death of the process at any step | every frame is attributed; shutdown answers only when all is joined; draining ends |
| Approval gate (`runtime.rs` authorize_operation, await_approval, the tools) | approvals map, oneshot channels, cancellation tokens, resolved targets | assess, ask, prompt, decide, revalidate, commit, perform | decision and cancellation race; a path changes while the user thinks | no effect without the user's own yes, none after a late decision, only on the target shown |
| Bundled runtime (`runtime.ts`) | `#client`, `#connecting`, `#models` | connect, call, discard, shutdown | several calls share one promise; failures settle late | one bridge process; a healthy client is not thrown away; shutdown leaves none behind |
| Native sessions (`runtime.rs` NativeSession, exec_command, write_stdin) | output buffer, exit code, open streams, session map | spawn, drain, wait, snapshot, emit, decide, write, terminate | process, drainers and requests race; descendants hold pipes | no process is lost, no output dropped silently, a final result is complete |
| Shell command (`runtime.rs` run_shell_process) | output, exit code, open streams | the select loop | deadline, exit, output and cancellation in any order | a completed command is whole; a call ends by its deadline or cancellation |
| Remote compaction (`runtime.rs`, `remote_compaction_v2.rs`, `compaction_context_fit.rs`) | attempt counter, transport, candidate window | attempt, back off, fall back to SSE, fit | retry under cancellation, one-way transport switch | bounded attempts, fallback at most once, cancellation ends it |
| Compaction coordinator, store and checkpoints (`application/compaction.ts`, `codex-compaction*.ts`) | phase per session, context accounting, generations | begin, requestExecution, beginExecution, end, dispose, replay | operations of a disposed session that end later | one compaction per session, no stale checkpoint replayed |
| Provider request guard (`codex-provider-request-guard.ts`) | live records, approval, failure | open, approve, assertApproved, consume, invalidate | invalidation between approval and dispatch | only the approved payload is dispatched, once, while live |
| Session router (`provider-session-router.ts`, `provider-dispatcher.ts`) | weak bindings by session id | bind, release, dispatch | reloads, garbage collection | a call reaches exactly the session it belongs to, or none |
| Tool profile and activation (`codex-tool-profile.ts`, `codex-tools.ts`, `provider-activation.ts`) | active tools, baseline, readiness, generation | activate, install, suppress, restore | overlapping activations that await | Pi's tools come back as they were; no stale activation installs tools |
| Provider stream (`codex-provider.ts`, `codex-message-normalization.ts`) | blocks and events of a response, the open block, Pi's messages | deltas, completed items, end or failure, next input | deltas and completed items overlap; responses break off with calls unanswered | what is shown is what the provider sent; each call is answered once; the input only grows |
| Capability cache (`resolve-effective-capabilities.ts`) | promises by key | resolve, invalidate | invalidation of a resolution in flight | no snapshot of an older bridge or configuration is served |
| Configuration (`configuration.ts`, `file-config-repository.ts`, `domain/config.ts`) | configuration and backup file | loadOrCreate, save, restoreBackup | crash between steps, two instances | a readable configuration survives |
| Settings overlay (`settings-model.ts`, `settings-overlay.ts`) | draft, saved configuration, state, dialog, disabled rows | keys, confirmations, prompts, save, reset, close | a save that ends after newer edits or after the overlay | what is shown as saved is stored; a dangerous policy is confirmed; a closed overlay stays closed |
| Codecs, request construction, estimators, renderers, diagnostics, executable selection | little or none | conversions | | out of scope, see below |

How they interact: every call of the extension goes through the *bundled runtime* to one
*connection*; a request on it runs as a task of the bridge; its events go through *flow
control*; a tool request passes the *approval gate*, whose prompt is itself an event and
whose decision is a control request on the same connection; the effect of a command is a
*session* or a *shell command*, whose output is again events under flow control.

In the extension a request of Pi for a model enters through the *session router*, which finds
the instance that hosts the session; its *dispatcher* calls the provider; the *request guard*
opens a record, Pi's payload hooks run, and the hook of *compaction* replays or creates a
checkpoint before the guard lets the request go; the *stream adapter* turns the answer into
Pi's message, from which the next input is built. The *configuration* decides which providers
and tools are active; its listeners reconcile the routes and activate the *tool profile*.

## Modules

| Module | Models | Kind |
|---|---|---|
| `EventStream` | what a streamed request promises its caller | abstract specification |
| `FlowControl` | one streamed request end to end; implements `EventStream` | component |
| `FlowControlProofs` | type, window, fatal frames and gapless delivery of `FlowControl`, and that it implements `EventStream` | proofs |
| `BridgeConnection` | one client, one bridge process, the two pipes | component |
| `BridgeConnectionProofs` | the safety properties of `BridgeConnection`, for every instance | proofs |
| `ApprovalGate` | tool operations from request to side effect | component |
| `ApprovalGateProofs` | the safety properties of `ApprovalGate`, for every instance | proofs |
| `BundledRuntime` | ownership of the bridge process by JavaScript calls | component |
| `BundledRuntimeProofs` | the safety properties of `BundledRuntime`, for every instance | proofs |
| `NativeSessions` | one command session and the requests on it | component |
| `ShellCommand` | one shell_command call | component |
| `NativeSessionsProofs` | the safety properties of `NativeSessions` and of `ShellCommand`, for every instance | proofs |
| `ToolActivation` | the tool profile, and the activations that switch it | component |
| `ProviderRequest` | request guard, compaction store, coordinator, replay and manual compaction, composed | composition |
| `ProviderRequestProofs` | approval, exclusive compaction, accounting and the history of `ProviderRequest`, for every instance | proofs |
| `SessionRouter` | the router all extension instances of a process share, leases and routes | component |
| `SessionRouterProofs` | the safety properties of `SessionRouter`, for every instance | proofs |
| `Conversation` | a response as Pi's message, and the messages as the next input | component |
| `ConfigRules` | configurations, capability snapshots, their keys and the rules that refuse settings | pure operators |
| `ConfigurationStore` | the configuration file and its backup under interleaved operations | component |
| `Settings` | the settings overlay and the capability cache on `ConfigurationStore` | composition |
| `SettingsProofs` | the safety properties of `Settings` and `ConfigurationStore`, for every instance | proofs |
| `MC...` | the instance of each component for TLC | model values |

Definitions named `X_Y` next to a definition `X` are deliberately wrong variants of it;
they document which mistake in the code the properties detect and are used by no other
definition.

### FlowControl and EventStream

A step is one critical section of the `FlowState` mutex, one channel send, one frame
served, one frame routed, or one handler that finishes. `task` is the position of the
request task: between `announcePause` and `waiting` stands `register`, the creation of the
`Notified` future, because `notify_waiters` reaches only futures that exist. `owed` is the
frame the serve loop is sending: `acknowledge` wakes the emitter *before* it sends
`resumed`. On the client side `request` is `pending`, `ignored` (aborted, terminal frame
not seen), `forgotten`, `resolved` or `rejected`; `eventChain` is the promise chain, and a
result is queued behind the handlers on it. The transport is one FIFO, the output channel;
the pipe behind it only adds capacity. `EventStream` is the promise: produce, consume in
order, resolve only when everything was consumed, at most `Window` outstanding.

### BridgeConnection

`record` gives the client's view of each request id (pending, queued behind handlers,
ignored, settled), `tasks` and `active` the bridge's. A control request is a session write
(which the bridge may run as a task) or one that is answered at once. The request-id limit,
the drain with its five second deadline, `shutdown`, `close`, the loss of the process and an
exit event that overtakes data in the pipe are all actions, and so are a write that fails because
the process is gone and the panic of a request
task, whose error `join_next` returns without an id. Malformed frames and a second
`initialize` are not: this client cannot produce them.

### ApprovalGate

`step` walks an operation from `assess` to `done`. The select in `await_approval` may take
either branch when decision and cancellation are both ready. Six kinds of operation differ
in where they resolve their target again and which of them notice a cancellation once
their effect has begun. Image generation has two rounds, each with its own approval id, so
a decision for the first can arrive while the second waits; without referenced images it asks
only for the network and is an operation of that kind. A round may fail after its effect, at
any of the error exits of `image_generation`. The short race between the last
resolution and the system call, which ADR 0021 accepts, is excluded (`LastResolved`).

On the client `mode` says which user interface the approvals of a request meet, and `dialog`
holds the prompt: an overlay with a focus that keys move (`tui`), a selector (`select`), no user
interface, which declines (`headless`), or a host that calls `decideApproval` by itself, late,
twice or with a decision nobody offered (`host`). The abort of a request disposes of the overlay
and drops a decision that is not sent; a selector cannot be taken back, so it becomes an `orphan`
whose answer goes nowhere. `moved` is a history: the user went to another option on purpose.

### BundledRuntime

Every call runs to its next `await`; continuations run in registration order
(`microtasks`) before the next outside event. A client can be `stillborn`: it failed between
its handshake and the continuations that wait for it. `disowned` remembers the clients whose
promise `#forgetClient` dropped while they were being opened.

### NativeSessions and ShellCommand

Output is counted in bytes. The process and its descendants are external: they write,
exit and close streams as they like, and a descendant may hold a stream open after the
exit. `NativeSessions` has the exec request, the polls, the drainers and the control
frames; `snapshot`, the emission of its chunks and `is_drained` are three steps, as in the
code. A write to the session's input has a step of its own after its approval, because
`writer_sender().send()` (`runtime.rs:3010`) does not watch the cancellation: a request may stay
there for as long as the process does not read. `ShellCommand` is the five-way select of
`run_shell_process`; no branch of it is polled while an output event waits for room. That the
lossy UTF-8 conversion may lengthen retained output is left out.

### ToolActivation

`surface` holds what `registerCodexTools` and the tool profile own: Pi's active tools in
their order, the captured baseline, readiness, status line. The methods of the profile are
operators from a surface to the next; an activation is a record in `act` that walks
`loading`, `loaded`, `resolving`, one step per `await`, and compares its generation after
each. `session_start` refreshes the activation policy first (read and replacement are two
steps, a save may come between, and `behind` remembers that it did) and then activates; a save writes the file and notifies
later; shutdown restores the profile in the composition root, awaits the runtime, and only
then reaches `registerCodexTools`. Pi and its user are external: they toggle and unregister
tools, take a managed name, or make the registry unreadable at any time.

Assumed of Pi: it delivers one event at a time and awaits its handlers, so no model is
selected and no shutdown begins while `session_start` is being handled; a user does not turn
on a core tool that the profile suppresses. The configuration file is changed only through
this instance, one save at a time.

### ProviderRequest

One session. `req` holds the requests in flight, each with the record of the request guard and
the step of its hook; `store` is the `CodexCompactionStore` (active identity, generations, usage,
baselines), `mark` the phase of the coordinator, `manual` a compaction Pi runs itself, `branch`
the entries of the session with their checkpoints, and `boundary` the usage boundary. A step
runs from one `await` to the next. A checkpoint is the identity that made it, the entries it
covers and its output; `ReplayIsComplete` compares the input that is dispatched with the history.
Model, credential and tree changes, aborts, competing payload hooks, shutdown and a new start of
the same session come between any two steps.

Assumed of Pi: a compaction token is offered only for a leaf whose history is the request's
input; a checkpoint is committed only if the leaf is still that of the token, and otherwise the
outcome is indeterminate and the request blocked; there is one manual compaction at a time; every
proposal is settled. One-time warnings are left out. A manual compaction keeps the model and the
credentials of its beginning (`codex-compaction.ts:147`, `:162`), whatever changes while it loads
the configuration. Two restrictions: `SessionTree` goes back to a prefix of the branch, while Pi
also lets its user go to a sibling or forward again (`codex-compaction.ts:91` handles all alike);
and the two `session_start` handlers (`extension.ts:116`, `codex-compaction.ts:80`) are one step up
to their first await. Two histories name what the code does not
exclude: `disowned` (`dispose` in `compaction.ts:477` and the callbacks in
`settings-overlay.ts:362` clear a mark that another operation has set) and `rewound` (the user
moves back in the tree between the branch a hook read, `codex-compaction-replay.ts:309`, and the
leaf it covers, `:403`).

### SessionRouter

`slot` is the global slot, `bucket` the table from session ids to tokens, `binding` what a token
stands for (owner, session, released, collected), `registration` and `cleanup` the finalization
registry. Instances load, start sessions, refresh their policy, shut down, or are dropped by Pi
without a shutdown, after which the collector may take their binding. A dropped instance keeps
its lease alive until then: its session is ambiguous and refused, never misrouted. `bind` is
called once per lease in this program, so its branch for rebinding is not reached. The routes
are modelled per instance, as the code keeps them. A refresh replaces the policy
(`provider-activation.ts:29`) and `session_start` registers the routes only after its await
(`extension.ts:122`): in between (`refreshing = "replaced"`) a provider that was just selected is
not yet routed, and `ServedByOwner` names that gap.

### Conversation

A text is a sequence of numbered chunks, so that a lost, repeated or misplaced piece shows.
`ResponseState` is a record that the handlers of the stream's events transform; the next input is
`ResponseItemsFromMessages` of the normalised messages. Two cases are named in the properties:
items that share a block (`Shares`, `codex-provider.ts:474`: two messages without anything in
between become one text) and raw reasoning that comes before a summary. A call has an id of its
own, which may be empty or come back, in the same response or in a later one, and its name may be
empty or that of the other kind: `toToolCall` (`codex-provider.ts:798`) lets all of these through.
`normalizeCodexContextMessages` is one fold with its failures: an empty id or name and a repeated id
within a response (`codex-message-normalization.ts:84`), a signed kind that is not the kind of the
name (`:112`) and a result of the other kind (`:47`); a history that fails is refused for every later
request, and `OnlyIllFormedCallsBlock` says which calls do that and that no others do. Assumed of the
provider: it finishes an item before the next; of Pi: it records a result
before the next turn or never, and runs no tools of a failed response. Other message roles of Pi
become user items and are represented by them; calls that are not even shaped like one, which
`toToolCall` drops, and signatures of older versions are left out.

### ConfigRules, ConfigurationStore and Settings

`ConfigRules` has no state: `Resolve` is the capability snapshot for a configuration and an
environment (model and bridge), `CapabilityCacheKey` the key it is cached under,
`CollectCapabilityIssues` what a save refuses and `Unsupported` what the rows show. The run
compares them with each other on snapshots and on partial contexts.

`ConfigurationStore` has the operations of the repository as tasks whose steps are single file
operations: create in place, read, write the backup, rename. Two tasks interleave, one may be of
another process; each may fail, and a crash ends those of this process. `Settings` adds the
overlay: any key that meets a visible row, the dialogs with their focus, Pi's prompts, saves
and resets that end later (`live` tells whether the overlay is still there), and the cache of
capability resolutions. `inspect` and `restoreBackup` are operations of the service no command
calls yet. A limit of 0 stands for the model's own. A context window is absent, a safe integer or
another number: the save demands a safe integer (`domain/config.ts:239`), the evaluation of the rows
only compares (`:565`), so a numeric limit under a window such as 4.5 is refused although its row is
enabled. `Unexplained` is that case and the exception of `RefusalsAreVisible`. The model, the
provider, the window and the host's tools are parts of the cache key too, and constant in a run.
A save that ends notifies the listeners and then marks the overlay as saved in one step, with only
a microtask in between.

The properties name what the code lets happen: `overlapped` (overlapping saves may notify in
another order than they rename, and the backup may miss a version), `overwritten` (a save that
ends replaces edits made since it began), `damaged` (a creation cut short leaves a file that every
later load refuses), `checked` (a reset leaves the disabled rows of the old configuration).

## Runs

| Run | Instance | Result |
|---|---|---|
| `flow_safety` | window 2, channel 2, 4 sequence numbers | passes |
| `flow_lost_wakeup` | window 1, channel 1, 2 sequence numbers | **violated** |
| `connection_safety` | one request, one control request, 4 ids, 1 event | passes |
| `gate_operation` | one operation of any of six kinds, two decisions per prompt | passes |
| `runtime_calls` | four calls (one resolves a model), one shutdown | passes |
| `session_safety` | exec and one poll, 1 byte retained, 2 written | passes |
| `shell_command` | 2 bytes retained, 4 written | passes |
| `tool_activation` | two models, two configurations, 3 activations of which 2 overlap, 1 change by the host | passes |
| `provider_request` | two models, two credentials; three requests in turn or two at once, up to 5 entries and 2 outside events | passes |
| `session_router` | two instances, two sessions, 4 leases, two providers | passes |
| `conversation` | up to 3 items of up to 2 chunks, up to 3 turns, all nine kinds of items, call ids that are empty or come back | passes |
| `settings` | seven sets of rows, environments and files, up to 5 keys, a fault, a second process | passes |

The properties of a run are conjunctions of named parts; a mutant is listed for each part.

* `flow_safety`: `EndToEndWindow` bounds all buffered events *together*, in channel, chain
  and acknowledgements; `InOrderWithoutGaps` says the client misses none while the request
  is pending; `OnlyLateResumeIsFatal` says the connection is lost to no frame but a late
  `resumed`; `ImplementsEventStream` is the refinement; `EmitterProgress` is liveness
  (`RegisteredEmitterResumes`, `CancellationEnds`).
* `connection_safety`: `FramesAreAttributed` (`EveryFrameIsAttributed`; `AwaitedIsAnswered`: no
  caller waits for a frame nobody will send, and the ignored set does not fill up with finished
  requests), `ShutdownQuiesces` and `DrainingEnds`.
* `gate_operation`: `AuthorizedEffects` (`EffectsAreAuthorized`, `EffectHitsApprovedTarget`,
  `ApprovalsBelongToWaiting`; `AllowIsDeliberate`: a prompt answers once and never allows by a
  default, a closed prompt or a missing user interface), `AbortedIsUntouched`
  (`LateDecisionHasNoEffect`, `AbortedPatchIsUntouched`, `AbortClosesPrompt`),
  `CancelledOperationEnds` (a cancelled operation ends even if its process or its network request
  never does; not while it writes to a session's input).
* `runtime_calls`: `BridgesAreOwned` (`LostOnlyIfDisowned`: as many processes can be left behind
  as promises were forgotten while they were pending; `ConnectingIsPending`),
  `HealthyClientIsKept`.
* `session_safety`: `OutputIsAccountedFor` (`DropsAreFlagged`, `DrainedResultIsComplete`),
  `ProcessesAreTracked` (with the one named exception), `WaitersEnd` (`DrainWakesWaiter`,
  `CancelledRequestEnds`: it ends, or is writing to the session's input).
* `shell_command`: `ResultIsWhole` (`CompletedIsWhole`), `CommandEnds` (`CancelledCommandEnds`;
  `OnlyDescendantsOutlast`: as long as events find room, only a descendant that holds a stream keeps
  a call past its deadline).
* `tool_activation`: `ProfileIsCurrent` (`IsolatedWhileActive`: no core tool is active under a
  profile, no managed tool unless it is healthy; `HealthyIsCurrent`: no overtaken activation has
  the last word; `PolicyFollowsFile`: the dispatcher serves what the stored configuration selects;
  `StatusMatchesProfile`), `PiIsRestored` (`RestoredSelection`: the user's core
  tools come back in their order; `ClosedStaysRestored`) and `PendingEnds`.
* `provider_request`: `RequestsAreComplete` (`ReplayIsComplete`: every entry of the history is in
  the input or covered by the checkpoint that replaces it), `CheckpointsAreSound` (each holds the
  prefix it replaces; opaque output is used only under the identity that made it, once Pi has
  committed it), `CompactionIsExclusive` (`MarkHasOwner`, `OneCompaction`, `StatusHasOwner`),
  `AccountingIsCurrent` (baselines of the active identity, a boundary on the branch, usage that no
  late report replaces) and `DispatchIsApproved`.
* `session_router`: `RoutingIsCurrent` (`ResolvesByLiveLeases`, `AmbiguityIsBetweenInstances`,
  `DeadEntriesAreDue`), `ServedByOwner` (`ServedByOwnInstance`: a session is served by its own
  instance, through the routes its policy selects; `ClosedIsUnreachable`).
* `conversation`: `StreamIsExact` (`EventsAreBracketed`, `FinishedTextIsExact`),
  `ReplayIsFaithful` (the next input has the provider's own items in their order),
  `CallsAreMatched` (`CallsAreAnsweredOnce`, `OnlyIllFormedCallsBlock`), `InputOnlyGrows` (what the
  provider has cached stays a prefix).
* `settings`: `FilesAreSound` (`TornOnlyByCreation`, `BackupIsPredecessor`), `ViewsAreStored`
  (`ShownAsSavedIsStored`, `ToldIsStored`), `DangerIsConfirmed`, `RefusalsAreVisible`
  (`RefusalsAreExplained`, `RefusedIsVisible`), `CachedSnapshotIsExact`, `DisposedIsFrozen`.

### Why the bounds are enough

The window, the channel and the sequence must each be exhausted within one request: window
2 and channel 2 with 4 events does that, and the proofs below remove the bound for the
safety part. In `connection_safety` there is one id fewer than frames, so the limit is met
with a request running. Two decisions per approval give repeated and contradictory ones;
an operation's decision can be mistaken for another's because image generation has two
approvals. Four calls let a client fail, be replaced, and both have joined calls. One byte
of buffer and two of output give partial, exact and empty room; one poll overlaps with the
drainers, the control frames and the end of the session. Two overlapping activations and a
third after them overtake each other at every await; the second model has a key under either
configuration, and two core tools with another tool between them tell the restored order
from others.

`Bounds` of the later modules is a set of combinations, each generous in one direction:
`provider_request` has one behaviour with two requests one after the other and five entries
(compact, replay, compact again), one with two outside events around one request, and one with
two overlapping requests. Four leases let both instances load and start, and overlap on one
session. In `conversation` long texts meet the kinds that share blocks, every kind meets
several turns, and ids come back within a response and over two later ones. The seven combinations of `settings` separate the files (default, absent, foreign),
the environments (full, poor, a window that is no integer, other provider, none) and the rows a user touches; two tasks at a
time are enough for every overlap the properties name.

Symmetry is used in `runtime_calls`, `provider_request`, `session_router` and `settings`, which
check no liveness. The last three, and `conversation` and `tool_activation`, may stop when their
bounds are used up, and check no deadlock.

### Fairness

Weak fairness stands for the tokio scheduler and for timers that do fire. It is *not*
assumed of users (they may never decide), processes (they may never exit or close a
stream), callers (they need not abort), request tasks that were not cancelled, or the
write to a session's input (the process may never read it), an event that waits for room
(`flow_lost_wakeup` shows that it may wait for ever), sessions, model changes and
saves (nobody has to start an activation). `ApprovalGate` assumes nothing of a running process or
network request (`AtMercy`): only `Interrupted` ends it. `NativeSessions` gives a cancelled request
its branch of each select, and nothing in `write`. `ToolActivation` assumes that a load and a
resolution settle, one way or the other. `FlowControl` assumes that the
client's handlers return. `ShellCommand` has weak fairness for the select as a whole and for the
cancellation of an emission, and strong fairness for the branches of the deadline and of the
cancellation, because `tokio::select!` picks among ready branches at random; its statement about
the deadline has the premise `EventsFindRoom`. The other modules state no liveness: what they wait for is Pi, the user or
the provider.

### Findings

*Lost wake-up* (`flow_lost_wakeup`). `emit` creates `notified()` after it released the
mutex and awaited the send of `paused`; if all acknowledgements of the window are served
in between, nothing will wake it. `docs/bridge-protocol.md` promises that production
"resumes after acknowledgement". `RegisteredEmitterResumes` is the part that does hold.

The passing properties name the following exceptions; without the exception TLC shows a
behaviour that reaches it.

* `OnlyLateResumeIsFatal`: the serve loop sends `resumed` after it woke the emitter. The terminal
  frame can overtake it, and the client then fails the whole connection for a frame of an unknown
  request.
* `AwaitedIsAnswered`: a request task that panics is never answered while the connection lasts.
* `LostOnlyIfDisowned`: `shutdown`, and a call that joined a client which failed at once, forget
  `#connecting`; the process that is being opened is not shut down.
* `DrainedResultIsComplete` speaks of requests that saw the session drained *before* their
  snapshot. `is_drained` is asked again after the snapshot was emitted; a process that ends in
  between is reported as over with no exit code, and its last output is dropped.
* `ProcessesAreTracked`: an exec request that is cancelled while it emits under backpressure
  returns early, and its process is neither terminated nor registered.
* `OnlyDescendantsOutlast`: the deadline is disabled once the shell has exited, and not polled
  while an event waits for room.
* `CancelledOperationEnds`, `CancelledRequestEnds`: the write to a session's input.
* `ServedByOwnInstance`: the routes follow the policy one await later.
* `PolicyFollowsFile`: a refresh that read before a save and replaces after it.
* `RefusalsAreExplained`: `Unexplained`, above.
* `DangerIsConfirmed`: a save with a dangerous policy in flight, the policy turned back in the
  draft, the save ends: `markSaved` shows and keeps the saved one.
* The histories of `ProviderRequest` and `Settings` described above.

Seen while modelling the terminal, and stated by no property: outside the overlay an aborted
approval leaves its selector on the screen, and answering it does nothing; Esc after a failed save, and during a
save, closes without the dialog of `docs/ui-ux.md:16`; a setting that was unsupported when the
overlay opened has a disabled row, so the user cannot turn it off there while every save of the
draft is refused (a reset can); a resolution that fails deletes the cache entry by key, which may
be a newer one after an invalidation; a disposed overlay stays as it is (`DisposedIsFrozen`), but the file
operations of its save go on, where `docs/ui-ux.md:85` speaks of aborting what is in flight.

## Proofs

Each theorem speaks of `Spec`, for every value of the constants that the named assumption of
the module allows, and is `Init => IInv`, `IInv /\ [Next]_vars => IInv'` and `IInv => property`
joined by the last temporal step. Every `IInv` (and `HInv` of `ProviderRequestProofs`) was first checked
by TLC on the instance of the component's run, with finite sets for the unbounded ones.

| Theorem | States | Assumptions on the constants |
|---|---|---|
| `FlowControlProofs!TypeCorrect`, `WindowHolds`, `OnlyLateResumeHolds` | `TypeOK`, `EndToEndWindow`, `OnlyLateResumeIsFatal` | positive window and capacity |
| `FlowControlProofs!NoEventIsMissed` | `InOrderWithoutGaps` | the same |
| `FlowControlProofs!StreamIsImplemented` | `ImplementsEventStream` (safety part of the refinement) | the same |
| `BridgeConnectionProofs!FramesStayAttributed`, `ShutdownQuiescesAlways` | `FramesAreAttributed`, `ShutdownQuiesces` | a positive id limit; the ids of requests and controls differ from those of the handshake, of shutdown and of the cancel frames |
| `ApprovalGateProofs!EffectsAreAuthorizedAlways`, `AbortedIsUntouchedAlways` | `AuthorizedEffects`, `AbortedIsUntouched` | at least one decision per approval |
| `BundledRuntimeProofs!BridgesStayOwned`, `HealthyClientStays` | `BridgesAreOwned`, the action property `HealthyClientIsKept` | finitely many calls |
| `NativeSessionsProofs!OutputIsAccountedForAlways`, `ProcessesStayTracked` | `OutputIsAccountedFor`, `ProcessesAreTracked` | natural limits |
| `NativeSessionsProofs!ResultIsWholeAlways` | `ResultIsWhole` of `ShellCommand` | natural limits |
| `SessionRouterProofs!RoutingStaysCurrent`, `ServedByOwnerAlways` | `RoutingIsCurrent`, `ServedByOwner` | `None` and `Blank` differ from every name |
| `ProviderRequestProofs!CompactionStaysExclusive`, `AccountingStaysCurrent` | `CompactionIsExclusive`, `AccountingIsCurrent` | the bounds are numbers, the initial entries a sequence; no request is called "manual" |
| `ProviderRequestProofs!RequestsStayComplete`, `CheckpointsStaySound` | `RequestsAreComplete`, `CheckpointsAreSound` | the same |
| `ProviderRequestProofs!DispatchStaysApproved`, `TypeCorrect` | the action property `DispatchIsApproved`; `TypeOK` | the same |
| `SettingsProofs!FilesStaySound`, `ViewsStayStored`, `DangerStaysConfirmed` | `FilesAreSound`, `ViewsAreStored`, `DangerIsConfirmed` | configurations and contents as `ConfigRules` and `ConfigurationStore` name them, none of them "torn" or foreign; natural bounds |
| `SettingsProofs!RefusalsStayVisible`, `SnapshotStaysExact`, `RefusalsExplained` | `RefusalsAreVisible`, `CachedSnapshotIsExact`; that what a save refuses is what the rows show, `Unexplained` apart | the same |
| `SettingsProofs!DisposedStaysFrozen` | the action property `DisposedIsFrozen` | the same |

The bounds that keep TLC finite (`MaxWritten`, `MaxLeases`, `MaxSequence`, `MaxDecisions`,
`Shutdowns`, `MaxEvents`) are arbitrary numbers in the theorems, and so are the sets of calls, operations,
polls, instances, sessions and providers.

### Why the invariants are needed

*FlowControl.* A window of *numbers* says nothing about queues, so `IInv` adds `Line`:
acknowledgements in flight, handlers on the chain and events in the channel form, in that
order, one strictly increasing line between `lastAcknowledged` and `lastSent`. From it follows
that no acknowledgement exceeds what was sent, hence no uncorrelated error (`Correlated`).
`TerminalIsLast` says that behind a terminal frame only `resumed` and cancel replies can
follow, which leaves `resumed` as the one frame that can surprise the client. The refinement
needs more than an increasing line: `Gapless` says that the chain continues exactly where the
handlers are, without a hole (`Contiguous`), that what was handled lies between what was
acknowledged and what was sent (`Counted`), that the unhandled events of a pending request are
exactly those from there to `lastSent` (`NothingMissing`), and that a result waits for all of
them (`ResultIsLast`). With it every step of `FlowControl` is a step of `EventStream` or a stutter.

*BridgeConnection.* `FramesAreAttributed` is about the frame the client receives next, and that
was decided several steps ago at the other end. `IInv` therefore follows an id around the
connection. As long as the client is open, an unread frame is the only trace of its id (`Fresh`);
the ids of the frames on their way back, of running tasks and of the shutdown reply that is owed are
awaited (`Expected`), which is what keeps `#route` from its unknown-request branch; nothing follows
the terminal frame of an id (`LastWord`), so that an id may be forgotten when it arrives; a request
gets its cancel id at most once (`CancelledOnce`); and before the client is ready there is nothing
but the handshake (`Handshaking`). After the client has closed all of this may fail, and the two ends
no longer agree; what remains is `ShutdownReplied`: the reply to shutdown is the last frame of a
bridge that has joined everything. The uncorrelated error is in the pipe only when the id limit is
reached (`PipesTyped`).

*ApprovalGate.* An effect is far from the key that allowed it, so `IInv` follows the decision
on its way: what the bridge acts on was sent by the client for that very approval (`Traced`); a
prompt that has not answered has sent nothing, and comes to allow only through a choice of the
user (`Prompted`); an approval, an effect and an outcome each pin down where the operation stands
(`Ordered`); from its last resolution to its effect an operation has the approved target
(`Placed`); and an operation whose decision came after its cancellation does not get past the
commit point (`Stopped`).

*BundledRuntime.* `BridgesAreOwned` compares cardinalities. The proof maps every process
that nobody reaches to a disowned call (`|Loose| <= |disowned|`), and needs that `#client` and
`#connecting` are one slot, that the call which opened a client resumes before the calls that
joined it, and that no more clients are in use than calls opened one (which is why a fresh
client is always there to be chosen).

*NativeSessions, ShellCommand.* Bytes are conserved: what is in the pipes and what was
received is what was written (since a snapshot: at most that). A stream is closed only when it
is empty and has no holder left (`ClosedIsEmpty`), so a drained session stays drained, and its
buffer, once taken, stays empty (`SeenIsDrained`). `KeptToLimit` ties the truncation mark to
the full buffer. For `ProcessesAreTracked`, an exit code exists only after the exit, and nothing
runs before the exec request has spawned it (`ProcessFollowsExec`).

*SessionRouter.* `Table` describes the buckets, the registry and its callbacks together: a
live binding is entered, an entry belongs to an unreleased binding of that session and is
watched or, after collection, due, and callbacks are due for collected bindings only; hence
neither release, nor pruning, nor a late finalizer takes a live entry away. `Ownership` says
that an unreleased binding is the current lease of its owner, `RoutesFollowPolicy` that outside the
gap of a refresh the routes of an instance are those of its policy. That the lookup finds the lease of
the caller, and nothing else, follows from both and from the cardinality of the live leases.

*ProviderRequest.* Approval, exclusive compaction and accounting need three facts about a record (`Record`). `Current`:
one that is open and live belongs to the current session, because `invalidateAll` closes all others
in the step that counts the session; that is what makes `assertApproved` speak of this session.
`Proposed`: an output is in a proposal only between the hook and Pi's commit, which is why the status
is never left without an owner. `Accounted`: the accounting of a request that carries the current
generation is of the active identity, because reading the accounting for another identity starts a
generation; so a late report is either of the active identity or dropped. `Marked` is the invariant of
the coordinator: as long as nobody cleared the mark for another, it says exactly which compaction
runs. `Baselines` says that there is at most one baseline. The boundary needs that the index which
the scan selects is one of those it tested; that a bounded set of numbers has a largest member is
proved from the well-foundedness of the naturals.

What is replayed needs a second invariant, `HInv`, proved on top of `IInv`. `History`: the ids of the
branch rise and never exceed the count, so that each names one entry, and what an entry holds was
compacted under its own identity and committed. `HoldsPrefixes`: a checkpoint that covers an entry
before it stands for the messages up to that entry. `Whole`: the replay of a request, and what was
approved from it, stands for its context or for the branch as its hook read it. `Tied` is what makes a
commit sound: as long as the entry of the token is on the branch, the proposal covers that entry or a
later one, and if it is that entry its output stands for the branch up to it; since Pi commits only on
the leaf of the token, nothing later is left to cover. `Summary` says the same of Pi's own compaction.
All of it survives the moves of the branch (`BranchMoves`), which appends, or cuts what it does not
change. Underneath are the lemmas about the operators: `FlattenConcat` (flattening a concatenation),
`StandingConcat` and `ProjectConcat` (what payloads and projected entries stand for), `RemoteStands`
(a validated output stands for its input), `ScanFinds` and `CheckpointReplays` (the checkpoint that is
selected, followed by its suffix, stands for the whole branch). The inductions over a sequence are over
a *set* of lengths (`UpTo`), from the well-foundedness of the naturals.

*Settings and ConfigurationStore.* Each task is followed through its file operations. `TaskFact` is
what the operation and the step of a task say whatever the others do: what it has read, what it is
about to write, whose consent it carries. `SoloTask` is what can be said besides while operations do
not overlap: the file and the backup are what this task found or wrote. `FilesAreSound` and
`ViewsAreStored` need the second, `DangerIsConfirmed` only the first. The proofs are organised by what
a step touches rather than by action: a step of the overlay (`UiStep`), its end (`CloseStep`), the
beginning of an operation (`BeginStep`), a file operation (`TaskStep`, `FilesStep`) and the end of one,
which returns to the overlay (`EndFrame`, `EndOverlay`). `RefusalsExplained` is about `ConfigRules`
alone; `RefusalsAreVisible` follows from it because the context of the open overlay is the one its
rows were built with. Its only hard part is the context window: a limit that the save refuses
reaches the window, which the rows show, or lies under a window that is no safe integer.

### What is only model-checked

Liveness under fairness (`EmitterProgress`, `DrainingEnds`, `CancelledOperationEnds`,
`WaitersEnd`, `CommandEnds`, `PendingEnds`, `ResumesAfterAcknowledgement`) is out of the prover's reach.
The properties of `Conversation` compare what folds over whole streams and transcripts compute, each
with an accumulator of several fields: an induction over data for each of them, for which there are no
lemmas. The same goes for `ProfileIsCurrent` and `PiIsRestored` of `ToolActivation`,
which depend on the elements that `SelectSeq` keeps and on their order: the prover knows nothing about
`SelectSeq`, whose definition is recursive. These stay with TLC.

The attempt to prove `ReplayIsComplete` showed that it does not hold as it was first stated: when the
user goes back between a hook's reading of the branch and its reading of the leaf, a checkpoint may
hold more than the branch, and a *third* request replays it. The run now has a third request, and the
property the exception (`rewound`) that `CheckpointsHoldTheirPrefix` has.

## Not modelled, and why

* Remote compaction inside the bridge (retries, backoff, the fallback to SSE, the fitter): one
  task without shared state; `ProviderRequest` sees its outcomes as external. It is in the plan.
* The frame codec, request construction, model metadata, tool surface, context estimator
  and output bounds: sequential conversions without state.
* Executable selection, environment and diagnostics: validation and single file writes.
* Layout and the tool renderer of the terminal user interface, and the texts of the prompts.
* Figures of usage and cost, headers and the wording of errors in the stream adapter.
* Vendored Codex sources; `codex-utils-pty` is modelled from its use, as external. Scripts that
  synchronise and package them are build tools.
* A `spawn_blocking` patch that outlives the drain deadline: listed under hazards.
* The composition root as one sequence: its handlers are spread over the modules of the parts
  they call.
* A registry of providers that Pi might share between instances: `SessionRouter` keeps routes per
  instance; with a shared one, one instance's unregistration would remove another's route.

## Plan

What remains, in this order:

1. The parts of the tool profile that do not depend on sequences (`HealthyIsCurrent`,
   `ClosedStaysRestored`, `StatusMatchesProfile`), then `SelectSeq` in the way of `FlattenConcat`.
2. `RemoteCompaction`: attempts, backoff, fallback, cancellation.
