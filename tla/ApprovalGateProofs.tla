------------------------- MODULE ApprovalGateProofs -------------------------
(***************************************************************************)
(* Proofs about the approval gate, for every set of operations of every    *)
(* kind and any number of decisions: no side effect without the user's own *)
(* yes to that very approval and target, and none after a decision that    *)
(* came too late.                                                          *)
(*                                                                         *)
(* An effect is far from the key that allowed it.  The invariant follows   *)
(* the decision on its way: sent by the client, in the inbox, answered,    *)
(* taken by the select, and past the gate.                                 *)
(***************************************************************************)
EXTENDS ApprovalGate, TLAPS

-----------------------------------------------------------------------------
(* The inductive invariant.                                                *)

Decisions == Advertised \cup {"allow_session", "none"}
Frames == [type : {"cancel"}] \cup [type : {"decision"}, id : Approvals, decision : Decisions]

\* The types TypeOK leaves out: parameters and what the client has sent.
Typed ==
    /\ TypeOK
    /\ policy \in [Operations -> {"never", "on-request"}]
    /\ access \in [Operations -> {"workspace", "unrestricted"}]
    /\ round \in [Operations -> {1, 2}]
    /\ sent \in [Approvals -> Seq(Decisions)]
    /\ inbox \in [Operations -> Seq(Frames)]

\* The decision is among those that were sent.
Has(decisions, decision) == \E i \in DOMAIN decisions : decisions[i] = decision

PastGate == {"revalidate", "commit", "perform", "performing"}

\* Whatever the bridge acts on is a decision the client sent for that approval.
Traced ==
    /\ \A o \in Operations : \A i \in DOMAIN inbox[o] :
          inbox[o][i].type = "decision" => Has(sent[inbox[o][i].id], inbox[o][i].decision)
    /\ \A id \in Approvals : answers[id] # "none" => Has(sent[id], answers[id])
    /\ \A o \in Operations : step[o] = "cleanup" /\ taken[o] # "none" => Has(sent[Id(o)], taken[o])
    /\ \A o \in Operations :
          step[o] \in PastGate => policy[o] = "never" \/ Has(sent[Id(o)], "allow_once")
    /\ \A e \in effects : policy[e.id[1]] = "never" \/ Has(sent[e.id], "allow_once")

\* Where an operation stands when it has an approval, an effect or an outcome.
Ordered ==
    /\ \A id \in approvals :
          id[2] = round[id[1]] /\ step[id[1]] \in {"announce", "awaiting", "cleanup"}
    /\ \A e \in effects :
          /\ e.id[2] <= round[e.id[1]] /\ step[e.id[1]] # "assess"
          /\ e.id[2] = round[e.id[1]] => step[e.id[1]] \in {"performing", "report", "done"}
    /\ \A o \in Operations : outcome[o] # "none" => step[o] \in {"report", "done"}

\* From its last resolution to its effect an operation has the approved target.
Placed ==
    /\ \A o \in Operations :
          (step[o] = "commit" /\ kind[o] = "patch") \/ (step[o] = "perform" /\ Revalidated(o)) =>
             SameTarget(o)
    /\ \A o \in Operations :
          Scoped(o) /\ policy[o] = "never" /\ access[o] = "workspace"
             /\ step[o] \notin {"assess", "report", "done"} => approved[o] = "workspace"
    /\ EffectHitsApprovedTarget

\* An operation that got its decision too late does not come past the commit point.
Stopped ==
    /\ \A id \in late :
          /\ id[2] = round[id[1]] /\ cancelled[id[1]]
          /\ step[id[1]] \in {"announce", "awaiting", "cleanup", "revalidate", "commit", "report", "done"}
          /\ step[id[1]] = "revalidate" => kind[id[1]] = "patch"
    /\ LateDecisionHasNoEffect
    /\ AbortedPatchIsUntouched

\* A prompt that has not answered has sent nothing, and it comes to allow only
\* through a choice of the user.
Prompted ==
    /\ \A id \in Approvals : mode[id[1]] # "host" =>
          /\ dialog[id].state # "closed" => sent[id] = <<>>
          /\ dialog[id].state = "open" =>
                mode[id[1]] \in {"tui", "select"} /\ (dialog[id].focus # 1 => dialog[id].moved)
          /\ dialog[id].state = "decided" /\ dialog[id].choice = "allow_once" =>
                mode[id[1]] # "headless" /\ dialog[id].moved
    /\ \A id \in Approvals : mode[id[1]] = "host" => dialog[id].state = "none"
    /\ AllowIsDeliberate
    /\ AbortClosesPrompt

IInv == Typed /\ Traced /\ Ordered /\ Placed /\ Stopped /\ Prompted

-----------------------------------------------------------------------------
(* The steps of a request task.                                            *)

\* A request task changes nothing of the client.
LEMMA TaskKeepsPrompts == Prompted /\ UNCHANGED serveVars => Prompted'
  BY DEF Prompted, AllowIsDeliberate, AbortClosesPrompt, serveVars

\* The name of an approval is its operation and its round.
LEMMA ApprovalNames ==
    \A id \in Approvals : id[1] \in Operations /\ id[2] \in {1, 2} /\ id = <<id[1], id[2]>>
  BY DEF Approvals

LEMMA IdNames ==
    ASSUME Typed, NEW o \in Operations
    PROVE  Id(o) \in Approvals /\ Id(o)[1] = o /\ Id(o)[2] = round[o]
  BY DEF Typed, Id, Approvals

\* Approvals and effects speak of operations.
LEMMA NamesInUse ==
    ASSUME Typed
    PROVE  /\ \A id \in approvals \cup late : id \in Approvals /\ id[1] \in Operations /\ id[2] \in {1, 2}
           /\ \A e \in effects : e.id \in Approvals /\ e.id[1] \in Operations /\ e.id[2] \in {1, 2}
  BY ApprovalNames DEF Typed, TypeOK

\* An approval that is open, or was answered too late, is the current one.
LEMMA CurrentNames ==
    ASSUME IInv
    PROVE  \A id \in approvals \cup late : id = Id(id[1])
  BY NamesInUse, ApprovalNames DEF IInv, Ordered, Stopped, Id

\* An operation that has neither begun its effect nor ended moves on, without an
\* effect: what must hold of the place it comes to.
LEMMA Advance ==
    ASSUME IInv, NEW o \in Operations, NEW where \in StepState \ {"assess", "report", "done"},
           step[o] \notin {"assess", "performing", "report", "done"},
           step' = [step EXCEPT ![o] = where],
           UNCHANGED <<approved, round, effects, outcome, serveVars>>,
           approvals' \subseteq approvals \cup {Id(o)},
           Id(o) \in approvals' => where \in {"announce", "awaiting", "cleanup"},
           prompts' \subseteq Approvals,
           taken' \in [Operations -> Advertised \cup {"none"}],
           \A p \in Operations : p # o => taken'[p] = taken[p],
           where = "cleanup" /\ taken'[o] # "none" => Has(sent[Id(o)], taken'[o]),
           where \in PastGate => policy[o] = "never" \/ Has(sent[Id(o)], "allow_once"),
           where = "commit" /\ kind[o] = "patch" => SameTarget(o),
           where = "perform" /\ Revalidated(o) => SameTarget(o),
           Id(o) \in late => /\ where \in {"announce", "awaiting", "cleanup", "revalidate", "commit"}
                             /\ where = "revalidate" => kind[o] = "patch"
    PROVE  IInv'
  <1>1. Typed'
    <2>1. approvals' \subseteq Approvals
      BY IdNames DEF IInv, Typed, TypeOK
    <2> QED
      BY <2>1 DEF IInv, Typed, TypeOK, Rounds, serveVars
  <1>2. Traced'
    <2>1. Traced /\ step \in [Operations -> StepState] /\ UNCHANGED serveVars
      BY DEF IInv, Typed, TypeOK, serveVars
    <2>2. /\ step'[o] = where /\ \A p \in Operations : p # o => step'[p] = step[p]
          /\ \A p \in Operations : Id(p)' = Id(p)
      BY <2>1 DEF Id
    <2>3. /\ \A p \in Operations :
                step'[p] = "cleanup" /\ taken'[p] # "none" => Has(sent[Id(p)], taken'[p])
          /\ \A p \in Operations :
                step'[p] \in PastGate => policy[p] = "never" \/ Has(sent[Id(p)], "allow_once")
      BY <2>1, <2>2 DEF Traced
    <2> QED
      BY <2>1, <2>2, <2>3 DEF Traced, serveVars
  <1>3. Ordered'
    <2>1. ASSUME NEW id \in approvals'
          PROVE  id[2] = round[id[1]] /\ step'[id[1]] \in {"announce", "awaiting", "cleanup"}
      <3>1. CASE id = Id(o)
        BY <3>1, IdNames DEF IInv, Typed, TypeOK
      <3>2. CASE id # Id(o)
        <4>1. id \in approvals /\ id \in Approvals /\ id[1] # o
          BY <3>2, NamesInUse, CurrentNames DEF IInv
        <4> QED
          BY <4>1 DEF IInv, Typed, TypeOK, Ordered
      <3> QED
        BY <3>1, <3>2
    <2>2. ASSUME NEW e \in effects
          PROVE  /\ e.id[2] <= round[e.id[1]] /\ step'[e.id[1]] # "assess"
                 /\ e.id[2] = round[e.id[1]] => step'[e.id[1]] \in {"performing", "report", "done"}
      BY NamesInUse DEF IInv, Typed, TypeOK, Ordered
    <2>3. \A p \in Operations : outcome[p] # "none" => step'[p] \in {"report", "done"}
      BY DEF IInv, Typed, TypeOK, Ordered
    <2> QED
      BY <2>1, <2>2, <2>3 DEF Ordered
  <1>4. Placed'
    BY DEF IInv, Typed, TypeOK, Placed, SameTarget, Scoped, Revalidated, EffectHitsApprovedTarget, serveVars
  <1>5. Stopped'
    <2>1. ASSUME NEW id \in late
          PROVE  /\ id[2] = round[id[1]] /\ cancelled[id[1]]
                 /\ step'[id[1]] \in {"announce", "awaiting", "cleanup", "revalidate", "commit", "report", "done"}
                 /\ step'[id[1]] = "revalidate" => kind[id[1]] = "patch"
      <3>1. id[1] = o => id = Id(o)
        BY CurrentNames
      <3> QED
        BY <3>1, NamesInUse DEF IInv, Typed, TypeOK, Stopped
    <2> QED
      BY <2>1 DEF IInv, Stopped, LateDecisionHasNoEffect, AbortedPatchIsUntouched, serveVars
  <1> QED
    BY <1>1, <1>2, <1>3, <1>4, <1>5, TaskKeepsPrompts DEF IInv

\* An operation ends with an outcome; a patch that has begun does not abort.
LEMMA Ending ==
    ASSUME IInv, NEW o \in Operations, NEW status \in {"completed", "error", "aborted"},
           step[o] \notin {"report", "done"},
           step' = [step EXCEPT ![o] = "report"],
           outcome' = [outcome EXCEPT ![o] = status],
           UNCHANGED <<round, effects, prompts, taken, serveVars>>,
           UNCHANGED approved \/ (step[o] = "assess" /\ approved' \in [Operations -> Places]
                                  /\ \A p \in Operations : p # o => approved'[p] = approved[p]),
           approvals' \subseteq approvals, Id(o) \notin approvals',
           status = "aborted" /\ kind[o] = "patch" => step[o] # "performing"
    PROVE  IInv'
  <1>1. Typed'
    BY DEF IInv, Typed, TypeOK, Rounds, StepState, serveVars
  <1>2. Traced'
    BY DEF IInv, Typed, TypeOK, Traced, PastGate, Id, serveVars
  <1>3. Ordered'
    <2>1. ASSUME NEW id \in approvals'
          PROVE  id[2] = round[id[1]] /\ step'[id[1]] \in {"announce", "awaiting", "cleanup"}
      <3>1. id \in approvals /\ id[1] # o
        BY CurrentNames
      <3> QED
        BY <3>1, NamesInUse DEF IInv, Typed, TypeOK, Ordered
    <2>2. ASSUME NEW e \in effects
          PROVE  /\ e.id[2] <= round[e.id[1]] /\ step'[e.id[1]] # "assess"
                 /\ e.id[2] = round[e.id[1]] => step'[e.id[1]] \in {"performing", "report", "done"}
      BY NamesInUse DEF IInv, Typed, TypeOK, Ordered
    <2>3. \A p \in Operations : outcome'[p] # "none" => step'[p] \in {"report", "done"}
      BY DEF IInv, Typed, TypeOK, Ordered
    <2> QED
      BY <2>1, <2>2, <2>3 DEF Ordered
  <1>4. Placed'
    BY DEF IInv, Typed, TypeOK, Ordered, Placed, SameTarget, Scoped, Revalidated, EffectHitsApprovedTarget, Approvals, serveVars
  <1>5. Stopped'
    <2>1. ASSUME NEW id \in late
          PROVE  /\ id[2] = round[id[1]] /\ cancelled[id[1]]
                 /\ step'[id[1]] \in {"announce", "awaiting", "cleanup", "revalidate", "commit", "report", "done"}
                 /\ step'[id[1]] = "revalidate" => kind[id[1]] = "patch"
      BY NamesInUse DEF IInv, Typed, TypeOK, Stopped
    <2>2. ASSUME NEW p \in Operations, kind[p] = "patch", outcome'[p] = "aborted"
          PROVE  \A e \in effects : e.id[1] # p
      <3>1. CASE p # o
        BY <2>2, <3>1 DEF IInv, Typed, TypeOK, Stopped, AbortedPatchIsUntouched
      <3>2. CASE p = o
        <4>1. round[o] = 1
          <5>1. Rounds(o) = 1
            BY <2>2, <3>2 DEF Rounds
          <5>2. round[o] \in 1..Rounds(o)
            BY DEF IInv, Typed, TypeOK
          <5> QED
            BY <5>1, <5>2
        <4>2. step[o] \notin {"performing", "report", "done"}
          BY <2>2, <3>2 DEF IInv, Typed, TypeOK
        <4> QED
          BY <3>2, <4>1, <4>2, NamesInUse DEF IInv, Ordered
      <3> QED
        BY <3>1, <3>2
    <2> QED
      BY <2>1, <2>2 DEF IInv, Stopped, LateDecisionHasNoEffect, AbortedPatchIsUntouched, serveVars
  <1> QED
    BY <1>1, <1>2, <1>3, <1>4, <1>5, TaskKeepsPrompts DEF IInv

\* An operation past the gate, with its target in place, takes effect.
LEMMA Beginning ==
    ASSUME IInv, NEW o \in Operations,
           \/ step[o] = "commit" /\ kind[o] = "patch" /\ ~cancelled[o]
           \/ step[o] = "perform",
           step' = [step EXCEPT ![o] = "performing"],
           Begin(o),
           UNCHANGED <<approved, round, approvals, taken, outcome, prompts, serveVars>>
    PROVE  IInv'
  <1> DEFINE e == [id |-> Id(o), place |-> IF Revalidated(o) THEN target[o] ELSE approved[o]]
  <1>1. effects' = effects \cup {e} /\ e \in [id : Approvals, place : Places]
    BY IdNames DEF IInv, Typed, TypeOK, Begin
  <1>2. e.id = <<o, round[o]>> /\ e.id[1] = o /\ e.id[2] = round[o]
    BY DEF Id
  <1>3. Scoped(o) /\ round[o] = 1 => e.place = approved[o]
    BY DEF IInv, Placed, SameTarget, Revalidated
  <1> HIDE DEF e
  <1>4. Typed'
    BY <1>1 DEF IInv, Typed, TypeOK, Rounds, StepState, serveVars
  <1>5. Traced'
    <2>1. Traced /\ step \in [Operations -> StepState] /\ UNCHANGED <<taken, serveVars>>
      BY DEF IInv, Typed, TypeOK, StepState
    <2>2. /\ step'[o] = "performing" /\ \A p \in Operations : p # o => step'[p] = step[p]
          /\ \A p \in Operations : Id(p)' = Id(p)
      BY <2>1 DEF Id
    <2>3. policy[o] = "never" \/ Has(sent[Id(o)], "allow_once")
      BY <2>1 DEF Traced, PastGate
    <2>4. \A d \in effects' : policy[d.id[1]] = "never" \/ Has(sent[d.id], "allow_once")
      BY <1>1, <1>2, <2>1, <2>3 DEF Traced, Id
    <2>5. \A p \in Operations :
              step'[p] \in PastGate => policy[p] = "never" \/ Has(sent[Id(p)], "allow_once")
      BY <2>1, <2>2, <2>3 DEF Traced
    <2> QED
      BY <2>1, <2>2, <2>4, <2>5 DEF Traced, serveVars
  <1>6. Ordered'
    BY <1>1, <1>2, NamesInUse, ApprovalNames DEF IInv, Typed, TypeOK, Ordered, Id, serveVars
  <1>7. Placed'
    <2>1. \A p \in Operations :
             (step'[p] = "commit" /\ kind[p] = "patch") \/ (step'[p] = "perform" /\ Revalidated(p)) =>
                SameTarget(p)
      BY DEF IInv, Typed, TypeOK, Placed
    <2>2. \A p \in Operations :
             Scoped(p) /\ policy[p] = "never" /\ access[p] = "workspace"
                /\ step'[p] \notin {"assess", "report", "done"} => approved[p] = "workspace"
      BY DEF IInv, Typed, TypeOK, Placed
    <2>3. EffectHitsApprovedTarget'
      <3>1. ASSUME NEW d \in effects', Scoped(d.id[1]), d.id[2] = 1
            PROVE  /\ d.place = approved[d.id[1]]
                   /\ policy[d.id[1]] = "never" /\ access[d.id[1]] = "workspace" => d.place = "workspace"
        <4>1. CASE d \in effects
          BY <3>1, <4>1 DEF IInv, Placed, EffectHitsApprovedTarget
        <4>2. CASE d = e
          BY <1>2, <1>3, <3>1, <4>2 DEF IInv, Placed
        <4> QED
          BY <1>1, <4>1, <4>2
      <3> QED
        BY <3>1 DEF EffectHitsApprovedTarget, Scoped, serveVars
    <2> QED
      BY <2>1, <2>2, <2>3 DEF Placed, SameTarget, Scoped, Revalidated, serveVars
  <1>8. Stopped'
    <2>1. ASSUME NEW id \in late
          PROVE  /\ id[1] # o /\ id[2] = round[id[1]] /\ cancelled[id[1]]
                 /\ step'[id[1]] \in {"announce", "awaiting", "cleanup", "revalidate", "commit", "report", "done"}
                 /\ step'[id[1]] = "revalidate" => kind[id[1]] = "patch"
      <3>1. id[1] \in Operations
        BY <2>1, NamesInUse DEF IInv
      <3>2. /\ id[2] = round[id[1]] /\ cancelled[id[1]]
            /\ step[id[1]] \in {"announce", "awaiting", "cleanup", "revalidate", "commit", "report", "done"}
            /\ step[id[1]] = "revalidate" => kind[id[1]] = "patch"
        BY <2>1 DEF IInv, Stopped
      <3>3. id[1] # o
        BY <3>2
      <3>4. step'[id[1]] = step[id[1]]
        BY <3>1, <3>3 DEF IInv, Typed, TypeOK
      <3> QED
        BY <3>2, <3>3, <3>4
    <2>2. LateDecisionHasNoEffect'
      BY <1>1, <1>2, <2>1 DEF IInv, Stopped, LateDecisionHasNoEffect, serveVars
    <2>3. outcome[o] = "none"
      BY DEF IInv, Typed, Ordered
    <2>4. AbortedPatchIsUntouched'
      BY <1>1, <1>2, <2>3 DEF IInv, Stopped, AbortedPatchIsUntouched, serveVars
    <2> QED
      BY <2>1, <2>2, <2>4 DEF Stopped, serveVars
  <1> QED
    BY <1>4, <1>5, <1>6, <1>7, <1>8, TaskKeepsPrompts DEF IInv

LEMMA AssessStep ==
    ASSUME IInv, NEW o \in Operations, Assess(o)
    PROVE  IInv'
  <1>1. /\ step[o] = "assess" /\ approved' = [approved EXCEPT ![o] = target[o]]
        /\ UNCHANGED <<round, approvals, taken, effects, prompts, serveVars>>
    BY DEF Assess
  <1>2. Id(o) \notin approvals
    BY <1>1, IdNames DEF IInv, Ordered
  <1>3. CASE End(o, "error")
    BY <1>1, <1>2, <1>3, Ending DEF End, IInv, Typed, TypeOK
  <1>4. CASE ~(Scoped(o) /\ OutOfScope(o)) /\ GoTo(o, "authorize")
    <2>1. step' = [step EXCEPT ![o] = "authorize"] /\ UNCHANGED outcome
      BY <1>4 DEF GoTo
    <2>2. Typed'
      BY <1>1, <2>1 DEF IInv, Typed, TypeOK, Rounds, StepState, serveVars
    <2>3. Traced'
      BY <1>1, <2>1 DEF IInv, Typed, TypeOK, Traced, PastGate, Id, serveVars
    <2>4. Ordered'
      BY <1>1, <2>1, NamesInUse DEF IInv, Typed, TypeOK, Ordered, serveVars
    <2>5. Placed'
      <3>1. Scoped(o) /\ policy[o] = "never" /\ access[o] = "workspace" => approved'[o] = "workspace"
        BY <1>1, <1>4 DEF IInv, Typed, TypeOK, OutOfScope, Places
      <3>2. \A e \in effects : e.id[1] # o
        BY <1>1 DEF IInv, Ordered
      <3> QED
        BY <1>1, <2>1, <3>1, <3>2, NamesInUse
        DEF IInv, Typed, TypeOK, Placed, SameTarget, Scoped, Revalidated, EffectHitsApprovedTarget, serveVars
    <2>6. Stopped'
      BY <1>1, <2>1, NamesInUse
      DEF IInv, Typed, TypeOK, Stopped, LateDecisionHasNoEffect, AbortedPatchIsUntouched, serveVars
    <2> QED
      BY <1>1, <2>2, <2>3, <2>4, <2>5, <2>6, TaskKeepsPrompts DEF IInv
  <1> QED
    BY <1>3, <1>4 DEF Assess

\* An approval answered too late is not that of an operation before its prompt or
\* past its commit point.
LEMMA LateSteps ==
    ASSUME IInv, NEW o \in Operations, Id(o) \in late
    PROVE  /\ cancelled[o]
           /\ step[o] \in {"announce", "awaiting", "cleanup", "revalidate", "commit", "report", "done"}
           /\ step[o] = "revalidate" => kind[o] = "patch"
  BY IdNames DEF IInv, Stopped

LEMMA OpenSteps ==
    ASSUME IInv, NEW o \in Operations, Id(o) \in approvals
    PROVE  step[o] \in {"announce", "awaiting", "cleanup"}
  BY IdNames DEF IInv, Ordered

LEMMA AuthorizeStep ==
    ASSUME IInv, NEW o \in Operations, Authorize(o)
    PROVE  IInv'
  <1>1. /\ step[o] = "authorize"
        /\ UNCHANGED <<approved, round, approvals, taken, effects, prompts, serveVars>>
    BY DEF Authorize
  <1>2. Id(o) \notin approvals /\ Id(o) \notin late
    BY <1>1, LateSteps, OpenSteps
  <1>3. CASE End(o, "aborted")
    BY <1>1, <1>2, <1>3, Ending DEF End
  <1>4. CASE policy[o] = "never" /\ GoTo(o, AfterApproval(o))
    <2>1. PICK where \in {"revalidate", "commit"} :
             GoTo(o, where) /\ (where = "commit" => kind[o] # "patch")
      BY <1>4 DEF AfterApproval
    <2> QED
      BY <1>1, <1>2, <1>4, <2>1, Advance DEF GoTo, IInv, Typed, TypeOK, StepState
  <1>5. CASE GoTo(o, "insert")
    BY <1>1, <1>2, <1>5, Advance DEF GoTo, IInv, Typed, TypeOK, StepState, PastGate
  <1> QED
    BY <1>3, <1>4, <1>5 DEF Authorize

LEMMA InsertSenderStep ==
    ASSUME IInv, NEW o \in Operations, InsertSender(o)
    PROVE  IInv'
  <1>1. Id(o) \notin late
    BY LateSteps DEF InsertSender
  <1> QED
    BY <1>1, Advance DEF InsertSender, GoTo, IInv, Typed, TypeOK, StepState, PastGate

LEMMA SendApprovalRequestStep ==
    ASSUME IInv, NEW o \in Operations, SendApprovalRequest(o)
    PROVE  IInv'
  <1>1. prompts' \subseteq Approvals
    BY IdNames DEF SendApprovalRequest, IInv, Typed, TypeOK
  <1> QED
    BY <1>1, Advance DEF SendApprovalRequest, GoTo, IInv, Typed, TypeOK, StepState, PastGate

LEMMA AwaitDecisionStep ==
    ASSUME IInv, NEW o \in Operations, AwaitDecision(o)
    PROVE  IInv'
  <1>1. PICK decision \in Advertised \cup {"none"} :
           /\ taken' = [taken EXCEPT ![o] = decision]
           /\ decision # "none" => Has(sent[Id(o)], decision)
    BY IdNames DEF AwaitDecision, IInv, Typed, TypeOK, Traced
  <1>2. /\ taken' \in [Operations -> Advertised \cup {"none"}] /\ taken'[o] = decision
        /\ \A p \in Operations : p # o => taken'[p] = taken[p]
    BY <1>1 DEF IInv, Typed, TypeOK
  <1>3. /\ step[o] = "awaiting" /\ step' = [step EXCEPT ![o] = "cleanup"]
        /\ UNCHANGED <<approved, round, approvals, effects, outcome, prompts, serveVars>>
    BY DEF AwaitDecision, GoTo
  <1>4. "cleanup" \in StepState /\ "cleanup" \notin PastGate /\ prompts' \subseteq Approvals
    BY <1>3 DEF StepState, PastGate, IInv, Typed, TypeOK
  <1> QED
    BY <1>1, <1>2, <1>3, <1>4, Advance

LEMMA ConsumeDecisionStep ==
    ASSUME IInv, NEW o \in Operations, ConsumeDecision(o)
    PROVE  IInv'
  <1>1. /\ step[o] = "cleanup" /\ approvals' = approvals \ {Id(o)}
        /\ UNCHANGED <<approved, round, taken, effects, prompts, serveVars>>
    BY DEF ConsumeDecision, Forgotten
  <1>2. CASE Granted(taken[o])
    <2>1. Has(sent[Id(o)], "allow_once")
      BY <1>1, <1>2 DEF Granted, IInv, Traced
    <2>2. PICK where \in {"revalidate", "commit"} :
             GoTo(o, where) /\ (where = "commit" <=> kind[o] # "patch")
      BY <1>2 DEF ConsumeDecision, AfterApproval
    <2> QED
      BY <1>1, <2>1, <2>2, Advance DEF GoTo, IInv, Typed, TypeOK, StepState
  <1>3. CASE ~Granted(taken[o])
    <2>1. PICK status \in {"error", "aborted"} : End(o, status)
      BY <1>3 DEF ConsumeDecision
    <2> QED
      BY <1>1, <2>1, Ending DEF End
  <1> QED
    BY <1>2, <1>3

LEMMA RevalidateStep ==
    ASSUME IInv, NEW o \in Operations, Revalidate(o)
    PROVE  IInv'
  <1>1. /\ step[o] = "revalidate"
        /\ UNCHANGED <<approved, round, approvals, taken, effects, prompts, serveVars>>
    BY DEF Revalidate
  <1>2. Id(o) \notin approvals
    BY <1>1, OpenSteps
  <1>3. policy[o] = "never" \/ Has(sent[Id(o)], "allow_once")
    BY <1>1 DEF IInv, Traced, PastGate
  <1>4. CASE SameTarget(o) /\ GoTo(o, IF kind[o] = "patch" THEN "commit" ELSE "perform")
    <2>1. PICK where \in {"commit", "perform"} :
             GoTo(o, where) /\ (where = "commit" <=> kind[o] = "patch")
      BY <1>4
    <2>2. Id(o) \in late => kind[o] = "patch"
      BY <1>1, LateSteps
    <2> QED
      BY <1>1, <1>2, <1>3, <1>4, <2>1, <2>2, Advance DEF GoTo, IInv, Typed, TypeOK, StepState
  <1>5. CASE End(o, "error")
    BY <1>1, <1>2, <1>5, Ending DEF End
  <1> QED
    BY <1>4, <1>5 DEF Revalidate

LEMMA CommitStep ==
    ASSUME IInv, NEW o \in Operations, Commit(o)
    PROVE  IInv'
  <1>1. /\ step[o] = "commit"
        /\ UNCHANGED <<approved, round, approvals, taken, prompts, serveVars>>
    BY DEF Commit
  <1>2. Id(o) \notin approvals
    BY <1>1, OpenSteps
  <1>3. policy[o] = "never" \/ Has(sent[Id(o)], "allow_once")
    BY <1>1 DEF IInv, Traced, PastGate
  <1>4. CASE StillWanted(o) /\ kind[o] = "patch" /\ Begin(o) /\ GoTo(o, "performing")
    BY <1>1, <1>4, Beginning DEF GoTo, StillWanted
  <1>5. CASE /\ StillWanted(o) /\ kind[o] # "patch" /\ UNCHANGED effects
             /\ GoTo(o, IF Revalidated(o) THEN "revalidate" ELSE "perform")
    <2>1. PICK where \in {"revalidate", "perform"} :
             GoTo(o, where) /\ (where = "revalidate" <=> Revalidated(o))
      BY <1>5
    <2>2. Id(o) \notin late
      BY <1>5, LateSteps DEF StillWanted
    <2> QED
      BY <1>1, <1>2, <1>3, <1>5, <2>1, <2>2, Advance DEF GoTo, IInv, Typed, TypeOK, StepState
  <1>6. CASE ~StillWanted(o) /\ End(o, "aborted") /\ UNCHANGED effects
    BY <1>1, <1>2, <1>6, Ending DEF End
  <1> QED
    BY <1>4, <1>5, <1>6 DEF Commit

LEMMA PerformStep ==
    ASSUME IInv, NEW o \in Operations, Perform(o)
    PROVE  IInv'
  <1>1. /\ step[o] = "perform"
        /\ UNCHANGED <<approved, round, approvals, taken, prompts, serveVars>>
    BY DEF Perform
  <1>2. Id(o) \notin approvals
    BY <1>1, OpenSteps
  <1>3. CASE Begin(o) /\ GoTo(o, "performing")
    BY <1>1, <1>3, Beginning DEF GoTo
  <1>4. CASE UNCHANGED effects /\ End(o, "error")
    BY <1>1, <1>2, <1>4, Ending DEF End
  <1> QED
    BY <1>3, <1>4 DEF Perform

\* Image generation goes back for its second approval.
LEMMA PerformedStep ==
    ASSUME IInv, NEW o \in Operations, Performed(o)
    PROVE  IInv'
  <1>1. /\ step[o] = "performing"
        /\ UNCHANGED <<approved, approvals, taken, effects, prompts, serveVars>>
    BY DEF Performed
  <1>2. \A id \in approvals \cup late : id[1] # o
    BY <1>1, CurrentNames, LateSteps, OpenSteps
  <1>3. Id(o) \notin approvals
    BY <1>2, IdNames DEF IInv
  <1>4. ASSUME NEW status \in {"completed", "error"}, End(o, status), UNCHANGED round
        PROVE  IInv'
    BY <1>1, <1>3, <1>4, Ending DEF End
  <1>5. ASSUME MoreApprovals(o), GoTo(o, "authorize"), round' = [round EXCEPT ![o] = @ + 1]
        PROVE  IInv'
    <2>1. /\ step' = [step EXCEPT ![o] = "authorize"] /\ UNCHANGED outcome
          /\ round' = [round EXCEPT ![o] = @ + 1]
      BY <1>5 DEF GoTo
    <2>2. round[o] = 1 /\ Rounds(o) = 2
      BY <1>5 DEF IInv, Typed, MoreApprovals, Rounds
    <2>3. round'[o] = 2 /\ \A p \in Operations : p # o => round'[p] = round[p] /\ step'[p] = step[p]
      BY <2>1, <2>2 DEF IInv, Typed, TypeOK
    <2>4. Typed'
      BY <1>1, <2>1, <2>2 DEF IInv, Typed, TypeOK, Rounds, StepState, serveVars
    <2>5. Traced'
      BY <1>1, <2>1, <2>3 DEF IInv, Typed, TypeOK, Traced, PastGate, Id, serveVars
    <2>6. Ordered'
      BY <1>1, <1>2, <2>1, <2>2, <2>3, NamesInUse DEF IInv, Typed, TypeOK, Ordered, serveVars
    <2>7. Placed'
      BY <1>1, <2>1, <2>3, NamesInUse
      DEF IInv, Typed, TypeOK, Placed, SameTarget, Scoped, Revalidated, EffectHitsApprovedTarget, serveVars
    <2>8. Stopped'
      BY <1>1, <1>2, <2>1, <2>3, NamesInUse
      DEF IInv, Typed, TypeOK, Stopped, LateDecisionHasNoEffect, AbortedPatchIsUntouched, serveVars
    <2> QED
      BY <1>1, <2>4, <2>5, <2>6, <2>7, <2>8, TaskKeepsPrompts DEF IInv
  <1> QED
    BY <1>4, <1>5 DEF Performed

LEMMA InterruptedStep ==
    ASSUME IInv, NEW o \in Operations, Interrupted(o)
    PROVE  IInv'
  <1>1. Id(o) \notin approvals
    BY OpenSteps DEF Interrupted
  <1> QED
    BY <1>1, Ending DEF Interrupted, Interruptible, End

LEMMA ReportStep ==
    ASSUME IInv, NEW o \in Operations, Report(o)
    PROVE  IInv'
  <1>1. /\ step[o] = "report" /\ step' = [step EXCEPT ![o] = "done"]
        /\ UNCHANGED <<approved, round, approvals, taken, effects, outcome, prompts, serveVars>>
    BY DEF Report, GoTo
  <1>2. Typed'
    BY <1>1 DEF IInv, Typed, TypeOK, Rounds, StepState, serveVars
  <1>3. Traced'
    BY <1>1 DEF IInv, Typed, TypeOK, Traced, PastGate, Id, serveVars
  <1>4. Ordered'
    BY <1>1, NamesInUse DEF IInv, Typed, TypeOK, Ordered, serveVars
  <1>5. Placed'
    BY <1>1 DEF IInv, Typed, TypeOK, Placed, SameTarget, Scoped, Revalidated, EffectHitsApprovedTarget, serveVars
  <1>6. Stopped'
    BY <1>1, NamesInUse
    DEF IInv, Typed, TypeOK, Stopped, LateDecisionHasNoEffect, AbortedPatchIsUntouched, serveVars
  <1> QED
    BY <1>1, <1>2, <1>3, <1>4, <1>5, <1>6, TaskKeepsPrompts DEF IInv

LEMMA TaskStep ==
    ASSUME IInv, NEW o \in Operations, Task(o)
    PROVE  IInv'
  BY AssessStep, AuthorizeStep, InsertSenderStep, SendApprovalRequestStep, AwaitDecisionStep,
     ConsumeDecisionStep, RevalidateStep, CommitStep, PerformStep, PerformedStep, InterruptedStep,
     ReportStep DEF Task

-----------------------------------------------------------------------------
(* The prompt on the client.                                               *)

Prompts == [state : {"none", "open", "orphan", "decided", "closed"},
            focus : 1..3, choice : Advertised \cup {"none"}, moved : BOOLEAN]

\* One prompt changes, and what must hold of it then.
LEMMA DialogChanges ==
    ASSUME IInv, NEW id \in Approvals, NEW d \in Prompts, Becomes(id, d),
           mode[id[1]] # "host",
           d.state # "closed" => sent[id] = <<>>,
           d.state = "open" =>
              mode[id[1]] \in {"tui", "select"} /\ (d.focus # 1 => d.moved),
           d.state = "decided" /\ d.choice = "allow_once" => mode[id[1]] # "headless" /\ d.moved,
           dialog[id].moved => d.moved,
           aborted[id[1]] => d.state \in {"none", "orphan", "closed"}
    PROVE  IInv'
  <1> USE DEF Becomes, taskVars
  <1>1. dialog' \in [Approvals -> Prompts] /\ dialog'[id] = d
        /\ \A other \in Approvals : other # id => dialog'[other] = dialog[other]
    BY DEF IInv, Typed, TypeOK, Prompts
  <1>2. Typed'
    BY <1>1 DEF IInv, Typed, TypeOK, Rounds, Prompts
  <1>3. Traced' /\ Ordered'
    BY DEF IInv, Traced, Ordered, Id
  <1>4. Placed' /\ Stopped'
    BY DEF IInv, Placed, Stopped, SameTarget, Scoped, Revalidated, EffectHitsApprovedTarget,
           LateDecisionHasNoEffect, AbortedPatchIsUntouched
  <1>5. Prompted'
    BY <1>1 DEF IInv, Prompted, AllowIsDeliberate, AbortClosesPrompt
  <1> QED
    BY <1>2, <1>3, <1>4, <1>5 DEF IInv

LEMMA PromptType ==
    ASSUME IInv, NEW id \in Approvals
    PROVE  dialog[id] \in Prompts /\ NoDialog \in Prompts
  BY DEF IInv, Typed, TypeOK, Prompts, NoDialog, Dialog

LEMMA OptionTypes == DOMAIN Options = 1..3 /\ \A i \in 1..3 : Options[i] \in Advertised
  BY DEF Options, Advertised

LEMMA OpenDialogStep ==
    ASSUME IInv, NEW id \in Approvals, OpenDialog(id)
    PROVE  IInv'
  <1>1. /\ dialog[id] = NoDialog /\ mode[id[1]] \in {"tui", "select", "headless"}
        /\ NoDialog.state = "none" /\ NoDialog.focus = 1 /\ NoDialog.moved = FALSE
    BY ApprovalNames DEF OpenDialog, IInv, Typed, TypeOK, Modes, NoDialog, Dialog
  <1>2. sent[id] = <<>>
    BY <1>1 DEF IInv, Prompted
  <1>3. CASE aborted[id[1]]
    <2> DEFINE d == Closed(NoDialog)
    <2>1. Becomes(id, d)
      BY <1>3 DEF OpenDialog
    <2>2. d \in Prompts /\ d.state = "closed"
      BY PromptType DEF Closed, Prompts
    <2> HIDE DEF d
    <2> QED
      BY <1>1, <2>1, <2>2, DialogChanges
  <1>4. CASE ~aborted[id[1]] /\ mode[id[1]] = "headless"
    <2> DEFINE d == Decided(NoDialog, "decline")
    <2>1. Becomes(id, d)
      BY <1>4 DEF OpenDialog
    <2>2. d \in Prompts /\ d.state = "decided" /\ d.choice = "decline"
      BY PromptType DEF Decided, Prompts, Advertised
    <2> HIDE DEF d
    <2> QED
      BY <1>1, <1>2, <1>4, <2>1, <2>2, DialogChanges
  <1>5. CASE ~aborted[id[1]] /\ mode[id[1]] # "headless"
    <2> DEFINE d == [NoDialog EXCEPT !.state = "open"]
    <2>1. Becomes(id, d)
      BY <1>5 DEF OpenDialog
    <2>2. d \in Prompts /\ d.state = "open" /\ d.focus = 1
      BY <1>1, PromptType DEF Prompts
    <2> HIDE DEF d
    <2> QED
      BY <1>1, <1>2, <1>5, <2>1, <2>2, DialogChanges
  <1> QED
    BY <1>3, <1>4, <1>5

\* What is known of a prompt that is on the screen.
LEMMA OpenPrompt ==
    ASSUME IInv, NEW id \in Approvals, dialog[id].state = "open"
    PROVE  /\ mode[id[1]] \in {"tui", "select"} /\ ~aborted[id[1]] /\ sent[id] = <<>>
           /\ dialog[id].focus # 1 => dialog[id].moved
  BY ApprovalNames DEF IInv, Typed, TypeOK, Prompted, AbortClosesPrompt, Modes

LEMMA MoveFocusStep ==
    ASSUME IInv, NEW id \in Approvals, MoveFocus(id)
    PROVE  IInv'
  <1>1. PICK focus \in DOMAIN Options : Becomes(id, [dialog[id] EXCEPT !.focus = focus, !.moved = TRUE])
    BY DEF MoveFocus
  <1> DEFINE d == [dialog[id] EXCEPT !.focus = focus, !.moved = TRUE]
  <1>2. dialog[id].state = "open"
    BY DEF MoveFocus, InOverlay
  <1>3. d \in Prompts /\ d.state = "open" /\ d.moved
    BY <1>2, PromptType, OptionTypes DEF Prompts
  <1> HIDE DEF d
  <1> QED
    BY <1>1, <1>2, <1>3, OpenPrompt, DialogChanges DEF d

\* A decision of the user: allow only from a prompt where he chose it.
LEMMA Deciding ==
    ASSUME IInv, NEW id \in Approvals, dialog[id].state = "open", NEW choice \in Advertised,
           NEW moved \in BOOLEAN, dialog[id].moved => moved, choice = "allow_once" => moved,
           Becomes(id, Decided([dialog[id] EXCEPT !.moved = moved], choice))
    PROVE  IInv'
  <1> DEFINE d == Decided([dialog[id] EXCEPT !.moved = moved], choice)
  <1>1. d \in Prompts /\ d.state = "decided" /\ d.choice = choice /\ d.moved = moved
    BY PromptType DEF Decided, Prompts
  <1>2. Becomes(id, d)
    OBVIOUS
  <1> HIDE DEF d
  <1> QED
    BY <1>1, <1>2, OpenPrompt, DialogChanges

LEMMA SameMoved ==
    ASSUME IInv, NEW id \in Approvals
    PROVE  dialog[id].moved \in BOOLEAN /\ [dialog[id] EXCEPT !.moved = dialog[id].moved] = dialog[id]
  BY PromptType DEF Prompts

LEMMA PressReturnStep ==
    ASSUME IInv, NEW id \in Approvals, PressReturn(id)
    PROVE  IInv'
  <1>1. dialog[id].state = "open" /\ Becomes(id, Decided(dialog[id], Options[dialog[id].focus]))
    BY DEF PressReturn, InOverlay
  <1>2. Options[dialog[id].focus] \in Advertised
    BY PromptType, OptionTypes DEF Prompts
  <1>3. Options[dialog[id].focus] = "allow_once" => dialog[id].focus # 1
    BY DEF Options
  <1> DEFINE choice == Options[dialog[id].focus]
             moved == dialog[id].moved
  <1>4. /\ choice \in Advertised /\ moved \in BOOLEAN /\ (choice = "allow_once" => moved)
        /\ Becomes(id, Decided([dialog[id] EXCEPT !.moved = moved], choice))
    BY <1>1, <1>2, <1>3, OpenPrompt, SameMoved
  <1> HIDE DEF choice, moved
  <1> QED
    BY <1>1, <1>4, Deciding DEF moved

LEMMA PressEscapeStep ==
    ASSUME IInv, NEW id \in Approvals, PressEscape(id)
    PROVE  IInv'
  BY SameMoved, Deciding DEF PressEscape, InOverlay, Advertised

LEMMA SelectOptionStep ==
    ASSUME IInv, NEW id \in Approvals, SelectOption(id)
    PROVE  IInv'
  <1>1. dialog[id].state = "open"
    BY DEF SelectOption
  <1>2. CASE Becomes(id, Decided(dialog[id], "cancel"))
    BY <1>1, <1>2, SameMoved, Deciding DEF Advertised
  <1>3. CASE \E i \in DOMAIN Options :
                Becomes(id, Decided([dialog[id] EXCEPT !.moved = TRUE], Options[i]))
    BY <1>1, <1>3, OptionTypes, Deciding
  <1> QED
    BY <1>2, <1>3 DEF SelectOption

LEMMA AnswerOrphanStep ==
    ASSUME IInv, NEW id \in Approvals, AnswerOrphan(id)
    PROVE  IInv'
  <1> DEFINE d == Closed(dialog[id])
  <1>1. d \in Prompts /\ d.state = "closed" /\ d.moved = dialog[id].moved
    BY PromptType DEF Closed, Prompts
  <1>2. Becomes(id, d) /\ mode[id[1]] # "host"
    BY DEF AnswerOrphan, IInv, Prompted
  <1> HIDE DEF d
  <1> QED
    BY <1>1, <1>2, DialogChanges

-----------------------------------------------------------------------------
(* Decisions and cancellations on their way.                               *)

\* What was sent stays sent.
LEMMA SentGrows ==
    ASSUME NEW decisions \in Seq(Decisions), NEW decision \in Decisions
    PROVE  /\ Append(decisions, decision) \in Seq(Decisions)
           /\ Has(Append(decisions, decision), decision)
           /\ \A d : Has(decisions, d) => Has(Append(decisions, decision), d)
           /\ \A d : Has(Append(decisions, decision), d) => d = decision \/ Has(decisions, d)
  <1>1. /\ DOMAIN decisions = 1..Len(decisions) /\ Len(decisions) \in Nat
        /\ DOMAIN Append(decisions, decision) = 1..(Len(decisions) + 1)
        /\ \A i \in 1..Len(decisions) : Append(decisions, decision)[i] = decisions[i]
        /\ Append(decisions, decision)[Len(decisions) + 1] = decision
    OBVIOUS
  <1> QED
    BY <1>1 DEF Has

LEMMA InboxGrows ==
    ASSUME IInv, NEW o \in Operations, NEW f \in Frames,
           inbox' = [inbox EXCEPT ![o] = Append(@, f)]
    PROVE  /\ inbox' \in [Operations -> Seq(Frames)]
           /\ \A p \in Operations : \A i \in DOMAIN inbox'[p] :
                 inbox'[p][i] = f \/ (i \in DOMAIN inbox[p] /\ inbox'[p][i] = inbox[p][i])
  <1>1. inbox \in [Operations -> Seq(Frames)]
    BY DEF IInv, Typed
  <1>2. inbox'[o] = Append(inbox[o], f) /\ \A p \in Operations : p # o => inbox'[p] = inbox[p]
    BY <1>1
  <1>3. \A i \in DOMAIN Append(inbox[o], f) :
           Append(inbox[o], f)[i] = f \/ (i \in DOMAIN inbox[o] /\ Append(inbox[o], f)[i] = inbox[o][i])
    BY <1>1
  <1> QED
    BY <1>1, <1>2, <1>3

LEMMA InboxShrinks ==
    ASSUME IInv, NEW o \in Operations, inbox[o] # <<>>, inbox' = [inbox EXCEPT ![o] = Tail(@)]
    PROVE  /\ inbox' \in [Operations -> Seq(Frames)]
           /\ 1 \in DOMAIN inbox[o] /\ Head(inbox[o]) = inbox[o][1] /\ Head(inbox[o]) \in Frames
           /\ \A p \in Operations : \A i \in DOMAIN inbox'[p] :
                 \E j \in DOMAIN inbox[p] : inbox'[p][i] = inbox[p][j]
  <1>1. inbox \in [Operations -> Seq(Frames)]
    BY DEF IInv, Typed
  <1>2. inbox'[o] = Tail(inbox[o]) /\ \A p \in Operations : p # o => inbox'[p] = inbox[p]
    BY <1>1
  <1>3. /\ Tail(inbox[o]) \in Seq(Frames) /\ 1 \in DOMAIN inbox[o]
        /\ Head(inbox[o]) = inbox[o][1] /\ Head(inbox[o]) \in Frames
        /\ \A i \in DOMAIN Tail(inbox[o]) : i + 1 \in DOMAIN inbox[o] /\ Tail(inbox[o])[i] = inbox[o][i + 1]
    BY <1>1
  <1> QED
    BY <1>1, <1>2, <1>3

\* What is left in the inbox was sent.
LEMMA ReadingKeepsTrace ==
    ASSUME IInv, NEW o \in Operations, inbox[o] # <<>>, inbox' = [inbox EXCEPT ![o] = Tail(@)]
    PROVE  \A p \in Operations : \A i \in DOMAIN inbox'[p] :
              inbox'[p][i].type = "decision" => Has(sent[inbox'[p][i].id], inbox'[p][i].decision)
  <1> SUFFICES ASSUME NEW p \in Operations, NEW i \in DOMAIN inbox'[p], inbox'[p][i].type = "decision"
               PROVE  Has(sent[inbox'[p][i].id], inbox'[p][i].decision)
    OBVIOUS
  <1>1. PICK j \in DOMAIN inbox[p] : inbox'[p][i] = inbox[p][j]
    BY InboxShrinks
  <1> QED
    BY <1>1 DEF IInv, Traced

LEMMA ServeCancelStep ==
    ASSUME IInv, NEW o \in Operations, ServeCancel(o)
    PROVE  IInv'
  <1> USE DEF ServeCancel, taskVars
  <1>1. \A p \in Operations : cancelled[p] => cancelled'[p]
    BY DEF IInv, Typed, TypeOK
  <1>2. Typed'
    BY InboxShrinks DEF IInv, Typed, TypeOK, Rounds
  <1>3. Traced'
    <2>1. inbox[o] # <<>> /\ inbox' = [inbox EXCEPT ![o] = Tail(@)]
      OBVIOUS
    <2> QED
      BY <2>1, ReadingKeepsTrace DEF IInv, Traced, Id
  <1>4. Ordered' /\ Placed'
    BY DEF IInv, Ordered, Placed, SameTarget, Scoped, Revalidated, EffectHitsApprovedTarget
  <1>5. Stopped'
    BY <1>1, NamesInUse DEF IInv, Stopped, LateDecisionHasNoEffect, AbortedPatchIsUntouched
  <1>6. Prompted'
    BY DEF IInv, Prompted, AllowIsDeliberate, AbortClosesPrompt
  <1> QED
    BY <1>2, <1>3, <1>4, <1>5, <1>6 DEF IInv

\* The sender the decision reaches is that of the approval it was sent for.
LEMMA ServeDecisionStep ==
    ASSUME IInv, NEW o \in Operations, ServeDecision(o)
    PROVE  IInv'
  <1> DEFINE frame == Head(inbox[o])
             found == IF frame.decision \in Advertised THEN Recipient(frame.id) ELSE {}
  <1>1. /\ inbox[o] # <<>> /\ frame.type = "decision" /\ inbox' = [inbox EXCEPT ![o] = Tail(@)]
        /\ approvals' = approvals \ found
        /\ answers' = [id \in Approvals |-> IF id \in found THEN frame.decision ELSE answers[id]]
        /\ late' = late \cup {id \in found : cancelled[id[1]]}
        /\ UNCHANGED <<kind, policy, access, mode, target, approved, step, round, taken, effects,
                       outcome, prompts, cancelled, dialog, aborted, sent>>
    BY DEF ServeDecision
  <1>2. frame.id \in Approvals /\ Has(sent[frame.id], frame.decision)
    <2>1. frame \in Frames /\ 1 \in DOMAIN inbox[o] /\ frame = inbox[o][1]
      BY <1>1, InboxShrinks
    <2>2. frame.id \in Approvals
      BY <1>1, <2>1 DEF Frames
    <2> QED
      BY <1>1, <2>1, <2>2 DEF IInv, Traced
  <1>3. /\ found \subseteq approvals /\ found \subseteq {frame.id}
        /\ found # {} => frame.decision \in Advertised
    BY DEF Recipient
  <1> HIDE DEF frame, found
  <1>4. Typed'
    <2>1. late' \subseteq Approvals /\ answers' \in [Approvals -> Advertised \cup {"none"}]
      BY <1>1, <1>3 DEF IInv, Typed, TypeOK
    <2> QED
      BY <1>1, <2>1, InboxShrinks DEF IInv, Typed, TypeOK, Rounds
  <1>5. Traced'
    <2>1. \A id \in Approvals : answers'[id] # "none" => Has(sent[id], answers'[id])
      BY <1>1, <1>2, <1>3 DEF IInv, Traced
    <2>2. \A p \in Operations : \A i \in DOMAIN inbox'[p] :
             inbox'[p][i].type = "decision" => Has(sent[inbox'[p][i].id], inbox'[p][i].decision)
      BY <1>1, ReadingKeepsTrace
    <2> QED
      BY <1>1, <2>1, <2>2 DEF IInv, Traced, Id
  <1>6. Ordered' /\ Placed'
    BY <1>1 DEF IInv, Ordered, Placed, SameTarget, Scoped, Revalidated, EffectHitsApprovedTarget
  <1>7. Stopped'
    <2>1. \A id \in found :
             /\ id[2] = round[id[1]] /\ step[id[1]] \in {"announce", "awaiting", "cleanup"}
             /\ \A e \in effects : e.id # id
      BY <1>3 DEF IInv, Ordered
    <2> QED
      BY <1>1, <2>1 DEF IInv, Stopped, LateDecisionHasNoEffect, AbortedPatchIsUntouched
  <1>8. Prompted'
    BY <1>1 DEF IInv, Prompted, AllowIsDeliberate, AbortClosesPrompt
  <1> QED
    BY <1>4, <1>5, <1>6, <1>7, <1>8 DEF IInv

\* The client sends a decision.
LEMMA Sending ==
    ASSUME IInv, NEW id \in Approvals, NEW decision \in Decisions, SendDecision(id, decision),
           Len(sent[id]) < MaxDecisions,
           dialog' \in [Approvals -> Prompts]
    PROVE  /\ Typed' /\ Traced' /\ Ordered' /\ Placed' /\ Stopped'
           /\ sent'[id] = Append(sent[id], decision)
           /\ \A other \in Approvals : other # id => sent'[other] = sent[other]
  <1> DEFINE f == [type |-> "decision", id |-> id, decision |-> decision]
  <1>1. /\ sent' = [sent EXCEPT ![id] = Append(@, decision)]
        /\ inbox' = [inbox EXCEPT ![id[1]] = Append(@, f)]
        /\ UNCHANGED <<kind, policy, access, mode, target, taskVars, cancelled, answers, aborted, late>>
    BY DEF SendDecision
  <1>2. f \in Frames /\ f.type = "decision" /\ f.id = id /\ f.decision = decision /\ id[1] \in Operations
    BY ApprovalNames DEF Frames
  <1> HIDE DEF f
  <1>3. /\ sent'[id] = Append(sent[id], decision)
        /\ \A other \in Approvals : other # id => sent'[other] = sent[other]
    BY <1>1 DEF IInv, Typed
  <1>4. \A other \in Approvals : sent[other] \in Seq(Decisions)
    BY DEF IInv, Typed
  <1>5. Typed'
    <2>1. sent' \in [Approvals -> Seq(Decisions)]
      BY <1>1, <1>4, SentGrows DEF IInv, Typed
    <2>2. \A other \in Approvals : Len(sent'[other]) <= MaxDecisions
      <3>1. Len(sent[id]) \in Nat /\ Len(sent'[id]) = Len(sent[id]) + 1
        BY <1>3, <1>4
      <3>2. \A other \in Approvals : Len(sent[other]) <= MaxDecisions
        BY DEF IInv, Typed, TypeOK
      <3> QED
        BY <1>3, <3>1, <3>2, GateAssumption
    <2> QED
      BY <1>1, <1>2, <2>1, <2>2, InboxGrows DEF IInv, Typed, TypeOK, Rounds, Prompts, taskVars
  <1>6. /\ Has(sent'[id], decision)
        /\ \A other \in Approvals, d \in Decisions : Has(sent[other], d) => Has(sent'[other], d)
    <2>1. Has(sent'[id], decision) /\ \A d : Has(sent[id], d) => Has(sent'[id], d)
      BY <1>3, <1>4, SentGrows
    <2> QED
      BY <1>3, <2>1
  <1>7. Traced'
    <2>1. ASSUME NEW p \in Operations, NEW i \in DOMAIN inbox'[p], inbox'[p][i].type = "decision"
          PROVE  Has(sent'[inbox'[p][i].id], inbox'[p][i].decision)
      <3>1. CASE inbox'[p][i] = f
        BY <1>2, <1>6, <3>1
      <3>2. CASE i \in DOMAIN inbox[p] /\ inbox'[p][i] = inbox[p][i]
        <4>1. inbox[p][i] \in Frames
          BY <3>2 DEF IInv, Typed
        <4>2. inbox[p][i].id \in Approvals /\ inbox[p][i].decision \in Decisions
          BY <2>1, <3>2, <4>1 DEF Frames
        <4> QED
          BY <1>6, <2>1, <3>2, <4>2 DEF IInv, Traced
      <3> QED
        BY <1>1, <1>2, <3>1, <3>2, InboxGrows
    <2>2. \A other \in Approvals : answers[other] # "none" => Has(sent'[other], answers[other])
      BY <1>6 DEF IInv, Typed, TypeOK, Traced, Decisions
    <2>3. \A p \in Operations : step[p] = "cleanup" /\ taken[p] # "none" => Has(sent'[Id(p)], taken[p])
      BY <1>6, IdNames DEF IInv, Typed, TypeOK, Traced, Decisions
    <2>4. \A p \in Operations :
             step[p] \in PastGate => policy[p] = "never" \/ Has(sent'[Id(p)], "allow_once")
      BY <1>6, IdNames DEF IInv, Traced, Decisions, Advertised
    <2>5. \A e \in effects : policy[e.id[1]] = "never" \/ Has(sent'[e.id], "allow_once")
      BY <1>6, NamesInUse DEF IInv, Traced, Decisions, Advertised
    <2> QED
      BY <1>1, <2>1, <2>2, <2>3, <2>4, <2>5 DEF Traced, Id, taskVars
  <1>8. Ordered' /\ Placed' /\ Stopped'
    <2>1. Ordered' /\ Placed'
      BY <1>1 DEF IInv, Ordered, Placed, SameTarget, Scoped, Revalidated, EffectHitsApprovedTarget, taskVars
    <2>2. Stopped'
      BY <1>1 DEF IInv, Stopped, LateDecisionHasNoEffect, AbortedPatchIsUntouched, taskVars
    <2> QED
      BY <2>1, <2>2
  <1> QED
    BY <1>3, <1>5, <1>7, <1>8

LEMMA HandleApprovalRequestStep ==
    ASSUME IInv, NEW id \in Approvals, HandleApprovalRequest(id)
    PROVE  IInv'
  <1> DEFINE choice == dialog[id].choice
  <1>1. /\ dialog[id].state = "decided" /\ ~aborted[id[1]] /\ SendDecision(id, choice)
        /\ dialog' = [dialog EXCEPT ![id] = Closed(@)]
        /\ UNCHANGED <<mode, aborted>>
    BY DEF HandleApprovalRequest, SendDecision
  <1>2. choice \in Decisions /\ mode[id[1]] # "host" /\ sent[id] = <<>>
        /\ (choice = "allow_once" => mode[id[1]] # "headless" /\ dialog[id].moved)
    BY <1>1, PromptType DEF IInv, Prompted, Prompts, Decisions
  <1>3. /\ dialog' \in [Approvals -> Prompts]
        /\ dialog'[id].state = "closed" /\ dialog'[id].moved = dialog[id].moved
        /\ \A other \in Approvals : other # id => dialog'[other] = dialog[other]
    <2>1. Closed(dialog[id]) \in Prompts /\ Closed(dialog[id]).state = "closed"
          /\ Closed(dialog[id]).moved = dialog[id].moved
      BY PromptType DEF Closed, Prompts
    <2> QED
      BY <1>1, <2>1, PromptType DEF IInv, Typed, TypeOK, Prompts
  <1>4. Len(sent[id]) < MaxDecisions
    BY <1>2, GateAssumption
  <1> HIDE DEF choice
  <1>5. /\ Typed' /\ Traced' /\ Ordered' /\ Placed' /\ Stopped'
        /\ sent'[id] = <<choice>>
        /\ \A other \in Approvals : other # id => sent'[other] = sent[other]
    BY <1>1, <1>2, <1>3, <1>4, Sending
  <1>6. Prompted'
    <2>1. Len(sent'[id]) = 1 /\ \A i \in DOMAIN sent'[id] : sent'[id][i] = choice
      BY <1>5
    <2>2. AllowIsDeliberate'
      <3>1. ASSUME NEW other \in Approvals, other # id, mode[other[1]] # "host",
                   NEW i \in DOMAIN sent[other], sent[other][i] = "allow_once"
            PROVE  mode[other[1]] # "headless" /\ dialog[other].moved
        BY <3>1 DEF IInv, Prompted, AllowIsDeliberate
      <3>2. ASSUME NEW i \in DOMAIN sent'[id], sent'[id][i] = "allow_once"
            PROVE  mode[id[1]] # "headless" /\ dialog'[id].moved
        BY <1>2, <1>3, <2>1, <3>2
      <3>3. \A other \in Approvals : mode[other[1]] # "host" => Len(sent'[other]) <= 1
        <4>1. \A other \in Approvals : mode[other[1]] # "host" => Len(sent[other]) <= 1
          BY DEF IInv, Prompted, AllowIsDeliberate
        <4>2. Len(sent'[id]) <= 1
          BY <2>1
        <4> QED
          BY <1>5, <4>1, <4>2
      <3>4. ASSUME NEW other \in Approvals, mode[other[1]] # "host",
                   NEW i \in DOMAIN sent'[other], sent'[other][i] = "allow_once"
            PROVE  mode[other[1]] # "headless" /\ dialog'[other].moved
        <4>1. CASE other = id
          BY <3>2, <3>4, <4>1
        <4>2. CASE other # id
          BY <1>3, <1>5, <3>1, <3>4, <4>2
        <4> QED
          BY <4>1, <4>2
      <3> QED
        BY <1>1, <3>3, <3>4 DEF AllowIsDeliberate
    <2>3. AbortClosesPrompt'
      BY <1>1, <1>3 DEF IInv, Prompted, AbortClosesPrompt
    <2> QED
      BY <1>1, <1>2, <1>3, <1>5, <2>2, <2>3 DEF IInv, Prompted
  <1> QED
    BY <1>5, <1>6 DEF IInv

LEMMA DecideByHostStep ==
    ASSUME IInv, NEW id \in Approvals, DecideByHost(id)
    PROVE  IInv'
  <1>1. PICK decision \in Advertised \cup {"allow_session"} : SendDecision(id, decision)
    BY DEF DecideByHost
  <1>2. /\ mode[id[1]] = "host" /\ Len(sent[id]) < MaxDecisions /\ UNCHANGED <<dialog, mode, aborted>>
        /\ dialog' \in [Approvals -> Prompts] /\ decision \in Decisions
    BY <1>1 DEF DecideByHost, SendDecision, IInv, Typed, TypeOK, Prompts, Decisions
  <1>3. /\ Typed' /\ Traced' /\ Ordered' /\ Placed' /\ Stopped'
        /\ \A other \in Approvals : other # id => sent'[other] = sent[other]
    BY <1>1, <1>2, Sending
  <1>4. Prompted'
    BY <1>2, <1>3 DEF IInv, Prompted, AllowIsDeliberate, AbortClosesPrompt
  <1> QED
    BY <1>3, <1>4 DEF IInv

LEMMA AbortRequestStep ==
    ASSUME IInv, NEW o \in Operations, AbortRequest(o)
    PROVE  IInv'
  <1> DEFINE f == [type |-> "cancel"]
  <1>1. /\ aborted' = [aborted EXCEPT ![o] = TRUE]
        /\ inbox' = [inbox EXCEPT ![o] = Append(@, f)]
        /\ UNCHANGED <<kind, policy, access, mode, target, taskVars, cancelled, answers, sent, late>>
    BY DEF AbortRequest
  <1>2. f \in Frames /\ f.type = "cancel"
    BY DEF Frames
  <1>3. ASSUME NEW id \in Approvals
        PROVE  /\ dialog'[id] \in Prompts /\ dialog'[id].moved = dialog[id].moved
               /\ dialog'[id] = dialog[id] \/ (dialog'[id].state \in {"closed", "orphan"} /\ dialog[id].state \in {"open", "decided"})
               /\ id[1] = o => dialog'[id].state \in {"none", "orphan", "closed"}
               /\ dialog'[id].state = "orphan" => dialog[id].state \in {"orphan", "open"}
    <2>1. CASE id[1] # o
      <3>1. dialog'[id] = dialog[id]
        BY <2>1 DEF AbortRequest
      <3> QED
        BY <2>1, <3>1, PromptType
    <2>2. CASE id[1] = o /\ dialog[id].state = "open"
      <3>1. mode[o] \in {"tui", "select"}
        BY <2>2, OpenPrompt
      <3>2. dialog'[id] \in {[dialog[id] EXCEPT !.state = "orphan"], Closed(dialog[id])}
        BY <2>2, <3>1 DEF AbortRequest, Dismissed
      <3> QED
        BY <2>2, <3>2, PromptType DEF Closed, Prompts
    <2>3. CASE id[1] = o /\ dialog[id].state = "decided"
      <3>1. dialog'[id] = Closed(dialog[id])
        BY <2>3 DEF AbortRequest, Dismissed
      <3> QED
        BY <2>3, <3>1, PromptType DEF Closed, Prompts
    <2>4. CASE id[1] = o /\ dialog[id].state \notin {"open", "decided"}
      <3>1. dialog'[id] = dialog[id]
        BY <2>4 DEF AbortRequest, Dismissed
      <3> QED
        BY <2>4, <3>1, PromptType DEF Prompts
    <2> QED
      BY <2>1, <2>2, <2>3, <2>4
  <1>4. dialog' \in [Approvals -> Prompts]
    BY <1>3 DEF AbortRequest
  <1> HIDE DEF f
  <1>5. Typed'
    BY <1>1, <1>2, <1>4, InboxGrows DEF IInv, Typed, TypeOK, Rounds, Prompts, taskVars
  <1>6. Traced'
    <2>1. \A p \in Operations : \A i \in DOMAIN inbox'[p] :
             inbox'[p][i].type = "decision" => Has(sent[inbox'[p][i].id], inbox'[p][i].decision)
      BY <1>1, <1>2, InboxGrows DEF IInv, Traced
    <2> QED
      BY <1>1, <2>1 DEF IInv, Traced, Id, taskVars
  <1>7. Ordered' /\ Placed' /\ Stopped'
    <2>1. Ordered' /\ Placed'
      BY <1>1 DEF IInv, Ordered, Placed, SameTarget, Scoped, Revalidated, EffectHitsApprovedTarget, taskVars
    <2>2. Stopped'
      BY <1>1 DEF IInv, Stopped, LateDecisionHasNoEffect, AbortedPatchIsUntouched, taskVars
    <2> QED
      BY <2>1, <2>2
  <1>8. Prompted'
    <2>1. \A id \in Approvals : aborted'[id[1]] => id[1] = o \/ aborted[id[1]]
      BY <1>1, ApprovalNames DEF IInv, Typed, TypeOK
    <2>2. AbortClosesPrompt'
      BY <1>3, <2>1 DEF IInv, Prompted, AbortClosesPrompt
    <2>3. AllowIsDeliberate'
      BY <1>1, <1>3 DEF IInv, Prompted, AllowIsDeliberate
    <2> QED
      BY <1>1, <1>3, <2>2, <2>3 DEF IInv, Prompted
  <1> QED
    BY <1>5, <1>6, <1>7, <1>8 DEF IInv

LEMMA TargetMovesStep ==
    ASSUME IInv, NEW o \in Operations, TargetMoves(o)
    PROVE  IInv'
  <1> USE DEF taskVars
  <1>1. /\ ~LastResolved(o)
        /\ target' \in [Operations -> Places]
        /\ \A p \in Operations : p # o => target'[p] = target[p]
        /\ UNCHANGED <<kind, policy, access, mode, taskVars, cancelled, answers, dialog, aborted,
                       inbox, sent, late>>
    <2>1. (CHOOSE place \in Places : place # target[o]) \in Places
      BY DEF Places
    <2> QED
      BY <2>1 DEF TargetMoves, IInv, Typed, TypeOK
  <1>2. Typed'
    BY <1>1 DEF IInv, Typed, TypeOK, Rounds
  <1>3. Traced' /\ Ordered'
    BY <1>1 DEF IInv, Traced, Ordered, Id
  <1>4. Placed'
    BY <1>1 DEF IInv, Placed, LastResolved, SameTarget, Scoped, Revalidated, EffectHitsApprovedTarget
  <1>5. Stopped' /\ Prompted'
    BY <1>1 DEF IInv, Stopped, LateDecisionHasNoEffect, AbortedPatchIsUntouched, Prompted,
                AllowIsDeliberate, AbortClosesPrompt
  <1> QED
    BY <1>2, <1>3, <1>4, <1>5 DEF IInv

-----------------------------------------------------------------------------
(* The theorems.                                                           *)

LEMMA InitIInv == Init => IInv
  <1> SUFFICES ASSUME Init PROVE IInv
    OBVIOUS
  <1> USE DEF Init
  <1>1. NoDialog.state = "none" /\ NoDialog.focus = 1 /\ NoDialog.moved = FALSE
    BY DEF NoDialog, Dialog
  <1>2. Typed
    <2>1. <<>> \in Seq(Decisions) /\ <<>> \in Seq(Frames) /\ Len(<<>>) = 0 /\ 0 <= MaxDecisions
      BY GateAssumption
    <2>2. NoDialog \in Prompts
      BY DEF NoDialog, Dialog, Prompts
    <2>3. \A o \in Operations : round[o] \in 1..Rounds(o)
      <3> HIDE DEF Init
      <3> SUFFICES ASSUME NEW o \in Operations PROVE round[o] \in 1..Rounds(o)
        OBVIOUS
      <3>1. round[o] = 1
        BY DEF Init
      <3>2. Rounds(o) = 1 \/ Rounds(o) = 2
        BY DEF Rounds
      <3>3. 1 \in 1..1 /\ 1 \in 1..2
        OBVIOUS
      <3> QED
        BY <3>1, <3>2, <3>3
    <2> QED
      BY <2>1, <2>2, <2>3 DEF Typed, TypeOK, StepState, Places, Prompts
  <1>3. Traced /\ Ordered
    BY DEF Traced, Ordered, PastGate
  <1>4. Placed /\ Stopped
    BY DEF Placed, Stopped, EffectHitsApprovedTarget, LateDecisionHasNoEffect, AbortedPatchIsUntouched
  <1>5. Prompted
    BY <1>1 DEF Prompted, AllowIsDeliberate, AbortClosesPrompt
  <1> QED
    BY <1>2, <1>3, <1>4, <1>5 DEF IInv

LEMMA StutterStep == IInv /\ UNCHANGED vars => IInv'
  <1> SUFFICES ASSUME IInv, UNCHANGED vars PROVE IInv'
    OBVIOUS
  <1> USE DEF vars, taskVars, serveVars
  <1>1. Typed' /\ Traced' /\ Ordered'
    BY DEF IInv, Typed, TypeOK, Rounds, Traced, Ordered, Id
  <1>2. Placed' /\ Stopped'
    BY DEF IInv, Placed, Stopped, SameTarget, Scoped, Revalidated, EffectHitsApprovedTarget,
           LateDecisionHasNoEffect, AbortedPatchIsUntouched
  <1>3. Prompted'
    BY DEF IInv, Prompted, AllowIsDeliberate, AbortClosesPrompt
  <1> QED
    BY <1>1, <1>2, <1>3 DEF IInv

LEMMA NextIInv == IInv /\ [Next]_vars => IInv'
  <1> SUFFICES ASSUME IInv, [Next]_vars PROVE IInv'
    OBVIOUS
  <1>1. ASSUME NEW o \in Operations,
               Task(o) \/ ServeCancel(o) \/ ServeDecision(o) \/ AbortRequest(o) \/ TargetMoves(o)
        PROVE  IInv'
    BY <1>1, TaskStep, ServeCancelStep, ServeDecisionStep, AbortRequestStep, TargetMovesStep
  <1>2. ASSUME NEW id \in Approvals,
               \/ OpenDialog(id) \/ MoveFocus(id) \/ PressReturn(id) \/ PressEscape(id)
               \/ SelectOption(id) \/ AnswerOrphan(id) \/ HandleApprovalRequest(id) \/ DecideByHost(id)
        PROVE  IInv'
    BY <1>2, OpenDialogStep, MoveFocusStep, PressReturnStep, PressEscapeStep, SelectOptionStep,
       AnswerOrphanStep, HandleApprovalRequestStep, DecideByHostStep
  <1>3. CASE Finished \/ UNCHANGED vars
    BY <1>3, StutterStep DEF Finished
  <1> QED
    BY <1>1, <1>2, <1>3 DEF Next

\* The inductive invariant holds of every set of operations.
THEOREM IInvHolds == Spec => []IInv
  BY InitIInv, NextIInv, PTL DEF Spec

\* No native tool operation takes effect under on-request unless the client sent
\* allow_once for that very approval, deliberately where a user was asked, and it
\* hits the target that was assessed; no approval outlives its operation.
THEOREM EffectsAreAuthorizedAlways == Spec => []AuthorizedEffects
  <1>1. IInv => AuthorizedEffects
    <2> SUFFICES ASSUME IInv PROVE AuthorizedEffects
      OBVIOUS
    <2>1. EffectsAreAuthorized
      BY DEF IInv, Traced, Has, EffectsAreAuthorized
    <2>2. ApprovalsBelongToWaiting
      BY CurrentNames DEF IInv, Ordered, ApprovalsBelongToWaiting
    <2> QED
      BY <2>1, <2>2 DEF IInv, Typed, Placed, Prompted, AuthorizedEffects
  <1> QED
    BY <1>1, IInvHolds, PTL

\* A decision that is delivered after the cancellation never leads to an effect, a
\* patch that is reported as aborted has touched nothing, and an aborted prompt
\* has nothing left to send, for every number of operations and decisions.
THEOREM AbortedIsUntouchedAlways == Spec => []AbortedIsUntouched
  <1>1. IInv => AbortedIsUntouched
    BY DEF IInv, Stopped, Prompted, AbortedIsUntouched
  <1> QED
    BY <1>1, IInvHolds, PTL
=============================================================================
