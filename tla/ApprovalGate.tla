---------------------------- MODULE ApprovalGate ----------------------------
(***************************************************************************)
(* The way of a native tool operation from its request to its side effect: *)
(* the filesystem scope is assessed, the user is asked (or not, under the  *)
(* "never" policy), the target is resolved again, cancellation is checked  *)
(* a last time, and only then does the operation take effect.              *)
(*                                                                         *)
(* The request task, the serve loop that delivers decisions and            *)
(* cancellations, the file system and the client all take steps between    *)
(* two awaits of the operation.  Frames about different operations         *)
(* commute, so each operation has an inbox of its own.  On the client side *)
(* the prompt is an overlay of the terminal, a selector of another user    *)
(* interface, nothing (headless), or a host that decides by itself.        *)
(***************************************************************************)
EXTENDS Integers, Sequences

CONSTANTS
    Operations,   \* tools.execute requests
    Kinds,        \* the kinds of operation that occur, a subset of AllKinds
    MaxDecisions  \* bound: decision frames sent for one approval

AllKinds == {"patch", "image", "process", "stdin", "network", "imageGeneration"}

ASSUME GateAssumption ==
    /\ Kinds \subseteq AllKinds
    /\ MaxDecisions \in Nat \ {0}

VARIABLES
    kind, policy, access,  \* the parameters of the requests
    target,     \* what the requested path resolves to at this moment
    approved,   \* what it resolved to when its scope was assessed
    step,       \* where the request task stands
    round,      \* which approval of the operation: image generation has two
    cancelled,  \* its CancellationToken
    approvals,  \* keys of the approvals map
    answers,    \* decisions handed to the oneshot receivers
    taken,      \* what the select of await_approval yielded
    effects,    \* side effects that have begun, each with the target it hit
    outcome,    \* the terminal status to report, or reported
    prompts,    \* approval requests the client has received
    mode,       \* the user interface the request's approvals meet
    dialog,     \* per approval, its prompt on the client
    aborted,    \* the caller's signal is aborted
    inbox,      \* frames about an operation the serve loop has not read
    sent,       \* decisions the client sent for an approval
    late        \* approvals whose decision was delivered after the cancellation

taskVars == <<approved, step, round, approvals, taken, effects, outcome, prompts>>
\* what no step of a request task changes
serveVars == <<kind, policy, access, mode, target, cancelled, answers, dialog, aborted, inbox,
               sent, late>>
vars == <<taskVars, serveVars>>

Modes == {"tui", "select", "headless", "host"}
Places == {"workspace", "external"}
Advertised == {"allow_once", "decline", "cancel"}
Approvals == Operations \X {1, 2}
Id(o) == <<o, round[o]>>

\* Image generation that refers to images asks for the files, then for the
\* network; without them it only asks for the network and is of kind "network".
Rounds(o) == IF kind[o] = "imageGeneration" THEN 2 ELSE 1
\* Operations that resolve a path, and those that resolve it again after approval.
Scoped(o) == kind[o] \in {"patch", "image", "process", "imageGeneration"}
Revalidated(o) == kind[o] = "patch" \/ (kind[o] \in {"image", "imageGeneration"} /\ round[o] = 1)

-----------------------------------------------------------------------------
(* The request task.                                                       *)

End(o, status) ==
    /\ outcome' = [outcome EXCEPT ![o] = status]
    /\ step' = [step EXCEPT ![o] = "report"]

GoTo(o, where) == step' = [step EXCEPT ![o] = where] /\ UNCHANGED outcome

\* assess_filesystem_scope.
OutOfScope(o) ==
    target[o] = "external" /\ access[o] = "workspace" /\ policy[o] = "never"

\* Validate the parameters, resolve the path, assess its scope.
Assess(o) ==
    /\ step[o] = "assess"
    /\ approved' = [approved EXCEPT ![o] = target[o]]
    /\ \/ ~(Scoped(o) /\ OutOfScope(o)) /\ GoTo(o, "authorize")
       \/ End(o, "error")
    /\ UNCHANGED <<round, approvals, taken, effects, prompts, serveVars>>

AfterApproval(o) == IF kind[o] = "patch" THEN "revalidate" ELSE "commit"

Authorize(o) ==
    /\ step[o] = "authorize"
    /\ IF cancelled[o] THEN End(o, "aborted")
       ELSE GoTo(o, IF policy[o] = "never" THEN AfterApproval(o) ELSE "insert")
    /\ UNCHANGED <<approved, round, approvals, taken, effects, prompts, serveVars>>

\* The sender enters the map before the approval request is sent.
InsertSender(o) ==
    /\ step[o] = "insert"
    /\ approvals' = approvals \cup {Id(o)}
    /\ GoTo(o, "announce")
    /\ UNCHANGED <<approved, round, taken, effects, prompts, serveVars>>

SendApprovalRequest(o) ==
    /\ step[o] = "announce"
    /\ prompts' = prompts \cup {Id(o)}
    /\ GoTo(o, "awaiting")
    /\ UNCHANGED <<approved, round, approvals, taken, effects, serveVars>>

AwaitDecision_Uncancellable(o) ==
    /\ step[o] = "awaiting"
    /\ answers[Id(o)] # "none" /\ taken' = [taken EXCEPT ![o] = answers[Id(o)]]
    /\ GoTo(o, "cleanup")
    /\ UNCHANGED <<approved, round, approvals, effects, prompts, serveVars>>

\* The select: either branch when both are ready.
AwaitDecision(o) ==
    /\ step[o] = "awaiting"
    /\ \/ answers[Id(o)] # "none" /\ taken' = [taken EXCEPT ![o] = answers[Id(o)]]
       \/ cancelled[o] /\ taken' = [taken EXCEPT ![o] = "none"]
    /\ GoTo(o, "cleanup")
    /\ UNCHANGED <<approved, round, approvals, effects, prompts, serveVars>>

Forgotten_NotRemoved(o) == approvals
\* approvals.lock().await.remove(&approval_id), whichever branch was taken.
Forgotten(o) == approvals \ {Id(o)}

Granted(decision) == decision = "allow_once"

ConsumeDecision(o) ==
    /\ step[o] = "cleanup"
    /\ approvals' = Forgotten(o)
    /\ IF Granted(taken[o]) THEN GoTo(o, AfterApproval(o))
       ELSE End(o, IF taken[o] = "decline" THEN "error" ELSE "aborted")
    /\ UNCHANGED <<approved, round, taken, effects, prompts, serveVars>>

SameTarget_Unchecked(o) == TRUE
\* The target resolved again equals the one that was approved.
SameTarget(o) == target[o] = approved[o]

\* Patches and images resolve their target again after the approval.
Revalidate(o) ==
    /\ step[o] = "revalidate"
    /\ \/ SameTarget(o) /\ GoTo(o, IF kind[o] = "patch" THEN "commit" ELSE "perform")
       \/ End(o, "error")
    /\ UNCHANGED <<approved, round, approvals, taken, effects, prompts, serveVars>>

Begin(o) ==
    effects' = effects \cup {[id |-> Id(o), place |-> IF Revalidated(o) THEN target[o] ELSE approved[o]]}

StillWanted_Unchecked(o) == TRUE
\* ensure_not_cancelled before the side effect.
StillWanted(o) == ~cancelled[o]

\* The commit point.  A patch is handed to spawn_blocking in the same step; the
\* other operations have awaits between the check and the effect.
Commit(o) ==
    /\ step[o] = "commit"
    /\ \/ /\ StillWanted(o) /\ kind[o] = "patch"
          /\ Begin(o)
          /\ GoTo(o, "performing")
       \/ /\ StillWanted(o) /\ kind[o] # "patch"
          /\ GoTo(o, IF Revalidated(o) THEN "revalidate" ELSE "perform")
          /\ UNCHANGED effects
       \/ /\ ~StillWanted(o)
          /\ End(o, "aborted")
          /\ UNCHANGED effects
    /\ UNCHANGED <<approved, round, approvals, taken, prompts, serveVars>>

\* The file is opened, the process spawned, the input written, the request sent,
\* or that fails.
Perform(o) ==
    /\ step[o] = "perform"
    /\ \/ Begin(o) /\ GoTo(o, "performing")
       \/ UNCHANGED effects /\ End(o, "error")
    /\ UNCHANGED <<approved, round, approvals, taken, prompts, serveVars>>

MoreApprovals_OffByOne(o) == round[o] <= Rounds(o)
MoreApprovals(o) == round[o] < Rounds(o)

\* The effect is complete, or failed.  Image generation then asks for the network,
\* unless an image could not be used or there is no connection.
Performed(o) ==
    /\ step[o] = "performing"
    /\ \/ End(o, "error") /\ UNCHANGED round
       \/ ~MoreApprovals(o) /\ End(o, "completed") /\ UNCHANGED round
       \/ /\ MoreApprovals(o)
          /\ round' = [round EXCEPT ![o] = @ + 1]
          /\ GoTo(o, "authorize")
    /\ UNCHANGED <<approved, approvals, taken, effects, prompts, serveVars>>

Interruptible_Always(o) == TRUE
Interruptible_NotNetwork(o) == kind[o] \in {"process", "stdin", "imageGeneration"} /\ round[o] = 1
\* Which operations notice a cancellation while their effect is under way: the
\* wait for a process or a session, the network request, and the loop over
\* referenced images.  A patch and a single image run to their actual outcome.
Interruptible(o) == kind[o] \in {"process", "stdin", "network", "imageGeneration"}

Interrupted(o) ==
    /\ step[o] = "performing"
    /\ cancelled[o]
    /\ Interruptible(o)
    /\ End(o, "aborted")
    /\ UNCHANGED <<approved, round, approvals, taken, effects, prompts, serveVars>>

Report(o) ==
    /\ step[o] = "report"
    /\ GoTo(o, "done")
    /\ UNCHANGED <<approved, round, approvals, taken, effects, prompts, serveVars>>

Task(o) ==
    \/ Assess(o) \/ Authorize(o) \/ InsertSender(o) \/ SendApprovalRequest(o) \/ AwaitDecision(o)
    \/ ConsumeDecision(o) \/ Revalidate(o) \/ Commit(o) \/ Perform(o) \/ Performed(o)
    \/ Interrupted(o) \/ Report(o)

-----------------------------------------------------------------------------
(* The serve loop, the client and the file system.                         *)

\* cancel_request: the token of an active request is cancelled.
ServeCancel(o) ==
    /\ inbox[o] # <<>> /\ Head(inbox[o]).type = "cancel"
    /\ inbox' = [inbox EXCEPT ![o] = Tail(@)]
    /\ cancelled' = [cancelled EXCEPT ![o] = @ \/ step[o] # "done"]
    /\ UNCHANGED <<kind, policy, access, mode, target, taskVars, answers, dialog, aborted, sent, late>>

Recipient_AnyWaiting(id) == IF approvals = {} THEN {} ELSE {CHOOSE other \in approvals : TRUE}
\* The sender registered under this id, if it is still there.
Recipient(id) == approvals \cap {id}

\* resolve_approval: an unadvertised decision is an error, an unknown id is
\* answered as expired, and a sender is removed as it is used.
ServeDecision(o) ==
    /\ inbox[o] # <<>> /\ Head(inbox[o]).type = "decision"
    /\ inbox' = [inbox EXCEPT ![o] = Tail(@)]
    /\ LET frame == Head(inbox[o])
           found == IF frame.decision \in Advertised THEN Recipient(frame.id) ELSE {}
       IN /\ approvals' = approvals \ found
          /\ answers' = [id \in Approvals |-> IF id \in found THEN frame.decision ELSE answers[id]]
          /\ late' = late \cup {id \in found : cancelled[id[1]]}
    /\ UNCHANGED <<kind, policy, access, mode, target, approved, step, round, taken, effects,
                   outcome, prompts, cancelled, dialog, aborted, sent>>

SendDecision(id, decision) ==
    /\ sent' = [sent EXCEPT ![id] = Append(@, decision)]
    /\ inbox' = [inbox EXCEPT ![id[1]] = Append(@, [type |-> "decision", id |-> id, decision |-> decision])]
    /\ UNCHANGED <<kind, policy, access, mode, target, taskVars, cancelled, answers, aborted, late>>

\* A prompt: its state ("orphan" is a selector whose request was aborted), the
\* option in focus, the decision, and whether the user moved to another option
\* or picked one by its label.
Dialog(state, focus, choice, moved) ==
    [state |-> state, focus |-> focus, choice |-> choice, moved |-> moved]
NoDialog == Dialog("none", 1, "none", FALSE)
Becomes(id, d) ==
    /\ dialog' = [dialog EXCEPT ![id] = d]
    /\ UNCHANGED <<kind, policy, access, mode, target, taskVars, cancelled, answers, aborted, inbox,
                   sent, late>>
Decided(d, choice) == [d EXCEPT !.state = "decided", !.choice = choice]
Closed(d) == [d EXCEPT !.state = "closed"]

Options_AllowFirst == <<"allow_once", "decline", "cancel">>
\* Safe order: decline, cancel, then allow; the first has the focus.
Options == <<"decline", "cancel", "allow_once">>

\* An approval request arrives: nothing is shown of a request that is aborted,
\* and without a user interface it is declined.
OpenDialog(id) ==
    /\ id \in prompts /\ dialog[id] = NoDialog
    /\ mode[id[1]] # "host"
    /\ Becomes(id, CASE aborted[id[1]] -> Closed(NoDialog)
                     [] ~aborted[id[1]] /\ mode[id[1]] = "headless" -> Decided(NoDialog, "decline")
                     [] OTHER -> [NoDialog EXCEPT !.state = "open"])

InOverlay(id) == mode[id[1]] = "tui" /\ dialog[id].state = "open"

\* moveFocus stays within the options.
MoveFocus(id) ==
    /\ InOverlay(id)
    /\ \E focus \in {dialog[id].focus - 1, dialog[id].focus + 1} \cap DOMAIN Options :
          Becomes(id, [dialog[id] EXCEPT !.focus = focus, !.moved = TRUE])

PressReturn(id) == InOverlay(id) /\ Becomes(id, Decided(dialog[id], Options[dialog[id].focus]))
PressEscape(id) == InOverlay(id) /\ Becomes(id, Decided(dialog[id], "cancel"))

\* The selector yields a label, or nothing when it is dismissed.
SelectOption(id) ==
    /\ mode[id[1]] = "select" /\ dialog[id].state = "open"
    /\ \/ \E i \in DOMAIN Options : Becomes(id, Decided([dialog[id] EXCEPT !.moved = TRUE], Options[i]))
       \/ Becomes(id, Decided(dialog[id], "cancel"))

\* An answer in a selector that outlived its request goes nowhere.
AnswerOrphan(id) == dialog[id].state = "orphan" /\ Becomes(id, Closed(dialog[id]))

\* #handleApprovalRequest goes on: one decision, and none once the signal is aborted.
HandleApprovalRequest(id) ==
    /\ dialog[id].state = "decided"
    /\ ~aborted[id[1]]
    /\ SendDecision(id, dialog[id].choice)
    /\ dialog' = [dialog EXCEPT ![id] = Closed(@)]

\* decideApproval is public: a host may decide by itself, late, again, or with a
\* decision that was not offered.
DecideByHost(id) ==
    /\ id \in prompts /\ mode[id[1]] = "host"
    /\ Len(sent[id]) < MaxDecisions
    /\ \E decision \in Advertised \cup {"allow_session"} : SendDecision(id, decision)
    /\ UNCHANGED dialog

Dismissed_KeepsOpen(d, m) == d
\* The listeners of the signal dispose of the overlay and drop a decision that is
\* not sent yet; a selector cannot be taken from the screen.
Dismissed(d, m) ==
    CASE d.state = "open" /\ m = "select" -> [d EXCEPT !.state = "orphan"]
      [] d.state = "decided" \/ (d.state = "open" /\ m = "tui") -> Closed(d)
      [] OTHER -> d

AbortRequest(o) ==
    /\ ~aborted[o]
    /\ aborted' = [aborted EXCEPT ![o] = TRUE]
    /\ inbox' = [inbox EXCEPT ![o] = Append(@, [type |-> "cancel"])]
    /\ dialog' = [id \in Approvals |-> IF id[1] = o THEN Dismissed(dialog[id], mode[o]) ELSE dialog[id]]
    /\ UNCHANGED <<kind, policy, access, mode, target, taskVars, cancelled, answers, sent, late>>

\* The operation has resolved its target for the last time.  What happens
\* between that and the system call is a race the code cannot exclude
\* (docs/adr/0021 names it), and the model does not let it happen.
LastResolved(o) ==
    step[o] \in {"perform", "performing", "report", "done"} \/ (kind[o] = "patch" /\ step[o] = "commit")

\* While the user thinks, the requested path may come to resolve elsewhere.
TargetMoves(o) ==
    /\ ~LastResolved(o)
    /\ target' = [target EXCEPT ![o] = CHOOSE place \in Places : place # @]
    /\ UNCHANGED <<kind, policy, access, mode, taskVars, cancelled, answers, dialog, aborted, inbox,
                   sent, late>>

-----------------------------------------------------------------------------

Init ==
    /\ kind \in [Operations -> Kinds]
    /\ policy \in [Operations -> {"never", "on-request"}]
    /\ access \in [Operations -> {"workspace", "unrestricted"}]
    /\ target \in [Operations -> Places]
    /\ approved = [o \in Operations |-> "workspace"]
    /\ step = [o \in Operations |-> "assess"]
    /\ round = [o \in Operations |-> 1]
    /\ cancelled = [o \in Operations |-> FALSE]
    /\ approvals = {} /\ effects = {} /\ prompts = {} /\ late = {}
    /\ answers = [id \in Approvals |-> "none"]
    /\ taken = [o \in Operations |-> "none"]
    /\ outcome = [o \in Operations |-> "none"]
    /\ aborted = [o \in Operations |-> FALSE]
    /\ inbox = [o \in Operations |-> <<>>]
    /\ sent = [id \in Approvals |-> <<>>]
    /\ mode \in [Operations -> Modes]
    /\ dialog = [id \in Approvals |-> NoDialog]

Finished ==
    /\ \A o \in Operations : step[o] = "done"
    /\ UNCHANGED vars

Next ==
    \/ \E o \in Operations :
          Task(o) \/ ServeCancel(o) \/ ServeDecision(o) \/ AbortRequest(o) \/ TargetMoves(o)
    \/ \E id \in Approvals :
          OpenDialog(id) \/ MoveFocus(id) \/ PressReturn(id) \/ PressEscape(id) \/ SelectOption(id)
          \/ AnswerOrphan(id) \/ HandleApprovalRequest(id) \/ DecideByHost(id)
    \/ Finished

Spec == Init /\ [][Next]_vars

\* The write to the input of a session: its process may never read it.
WritesInput(o) == kind[o] = "stdin" /\ step[o] = "perform"

\* The operation waits for a process or for the network, which may never end or
\* answer.  Referenced images are local files, as those of the image kind.
AtMercy(o) ==
    /\ step[o] = "performing"
    /\ kind[o] \in {"process", "stdin", "network"} \/ (kind[o] = "imageGeneration" /\ round[o] = 2)

\* Fairness: a request task that can take a step of its own does, the blocking
\* patch and image jobs return, a cancellation that is watched is noticed, and
\* the serve loop reads.  Nothing is assumed of processes, networks and users.
Fairness ==
    \A o \in Operations :
        /\ WF_vars(~WritesInput(o) /\ ~AtMercy(o) /\ Task(o))
        /\ WF_vars(Interrupted(o))
        /\ WF_vars(ServeCancel(o) \/ ServeDecision(o))

FairSpec == Spec /\ Fairness

-----------------------------------------------------------------------------
(* Properties.                                                             *)

StepState == {"assess", "authorize", "insert", "announce", "awaiting", "cleanup", "revalidate",
              "commit", "perform", "performing", "report", "done"}

\* Every variable keeps its type, and an operation asks at most as often as its
\* kind does.
TypeOK ==
    /\ kind \in [Operations -> Kinds]
    /\ target \in [Operations -> Places] /\ approved \in [Operations -> Places]
    /\ step \in [Operations -> StepState]
    /\ \A o \in Operations : round[o] \in 1..Rounds(o)
    /\ cancelled \in [Operations -> BOOLEAN] /\ aborted \in [Operations -> BOOLEAN]
    /\ approvals \subseteq Approvals /\ prompts \subseteq Approvals /\ late \subseteq Approvals
    /\ answers \in [Approvals -> Advertised \cup {"none"}]
    /\ taken \in [Operations -> Advertised \cup {"none"}]
    /\ effects \subseteq [id : Approvals, place : Places]
    /\ outcome \in [Operations -> {"none", "completed", "error", "aborted"}]
    /\ \A id \in Approvals : Len(sent[id]) <= MaxDecisions
    /\ mode \in [Operations -> Modes]
    /\ dialog \in [Approvals -> [state : {"none", "open", "orphan", "decided", "closed"},
                                 focus : 1..3, choice : Advertised \cup {"none"}, moved : BOOLEAN]]

\* Under on-request no operation takes effect unless the user allowed that very
\* operation (and, for image generation, that very access): not by an answer to
\* another prompt, a repeated or late one, or the end of the wait.
EffectsAreAuthorized ==
    \A e \in effects :
        \/ policy[e.id[1]] = "never"
        \/ \E i \in DOMAIN sent[e.id] : sent[e.id][i] = "allow_once"

\* A prompt answers once, and allows only what the user allowed on purpose: not
\* without a user interface, not by a key that was pressed before he moved to the
\* option, not by closing the prompt ("allow is never preselected").
AllowIsDeliberate ==
    \A id \in Approvals : mode[id[1]] # "host" =>
        /\ Len(sent[id]) <= 1
        /\ \A i \in DOMAIN sent[id] : sent[id][i] = "allow_once" =>
              mode[id[1]] # "headless" /\ dialog[id].moved

\* "Cancellation is checked before side effects" (docs/security.md): a decision
\* that reaches the bridge after the cancellation never leads to an effect,
\* although the select of await_approval may still pick it.
LateDecisionHasNoEffect ==
    \A e \in effects : e.id \notin late

\* A patch reported as aborted has not touched the file system, then or later:
\* run_request does not race the dispatch against the cancellation, because that
\* "could report `aborted` while a blocking apply_patch mutation continues".
AbortedPatchIsUntouched ==
    \A o \in Operations :
        kind[o] = "patch" /\ outcome[o] = "aborted" => \A e \in effects : e.id[1] # o

\* The abort of a request ends its prompt: nothing is shown of it any more (a
\* selector apart, whose answer goes nowhere), and nothing of it is still to send.
AbortClosesPrompt ==
    \A id \in Approvals : aborted[id[1]] => dialog[id].state \in {"none", "orphan", "closed"}

\* A patch, an image or a command affects the target that was shown to the user,
\* and without a prompt and unrestricted access only one inside the workspace,
\* although the path may have come to resolve elsewhere while the user decided.
EffectHitsApprovedTarget ==
    \A e \in effects :
        LET o == e.id[1] IN
        Scoped(o) /\ e.id[2] = 1 =>
            /\ e.place = approved[o]
            /\ policy[o] = "never" /\ access[o] = "workspace" => e.place = "workspace"

\* The approvals map holds exactly the senders of operations that wait: a
\* cancelled, declined or finished operation leaves no entry behind.
ApprovalsBelongToWaiting ==
    \A id \in approvals :
        id = Id(id[1]) /\ step[id[1]] \in {"announce", "awaiting", "cleanup"}

\* A cancelled operation ends although the user does not answer, the process does
\* not exit and the network does not reply; only the write to the input of a
\* session that does not read is not interrupted (write_stdin does not watch the
\* cancellation there).
CancelledOperationEnds ==
    \A o \in Operations : cancelled[o] ~> (step[o] = "done" \/ WritesInput(o))

\* Every side effect was authorised: the state is typed, what was done had been
\* granted for the very operation and the very target, deliberately where a user
\* was asked, and no approval outlives the operation that waits for it.
AuthorizedEffects ==
    /\ TypeOK /\ EffectsAreAuthorized /\ AllowIsDeliberate
    /\ ApprovalsBelongToWaiting /\ EffectHitsApprovedTarget

\* What is reported as aborted was not done: no decision that arrives late has
\* an effect, an aborted patch has touched no file, and an aborted prompt is over.
AbortedIsUntouched == LateDecisionHasNoEffect /\ AbortedPatchIsUntouched /\ AbortClosesPrompt
=============================================================================
