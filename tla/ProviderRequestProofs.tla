------------------------ MODULE ProviderRequestProofs ------------------------
(***************************************************************************)
(* Proofs about provider requests, for every number of requests in flight, *)
(* every model and credential, and every bound.                            *)
(*                                                                         *)
(* Four arguments run side by side.  A record that is open and live        *)
(* belongs to the session that is current, so what assertApproved lets     *)
(* through was approved there.  The mark of the coordinator says exactly   *)
(* which compaction runs, as long as nobody cleared it for another.  An    *)
(* accounting of the current generation is of the active identity, so a    *)
(* report that is kept at all is kept under that identity.  And of every   *)
(* checkpoint, replay and proposal it is known for which messages it       *)
(* stands: a checkpoint for the branch up to the entry it covers, a replay *)
(* for the context, a proposal for the branch up to the leaf of its token. *)
(***************************************************************************)
EXTENDS ProviderRequest, TLAPS, FiniteSetTheorems, SequenceTheorems, WellFoundedInduction

-----------------------------------------------------------------------------
(* The inductive invariant.                                                *)

Phases == {"free", "preparing", "hooking", "scanned", "estimating", "compacting", "answered",
           "dispatched"}
Fields == {"pc", "generation", "model", "identity", "epoch", "input", "payload", "approved",
           "closed", "aborted", "failed", "token", "replay", "pending", "read", "accounting",
           "proposal"}

\* A record is a record, and its parts have their types.
Formed(r) ==
    /\ DOMAIN req[r] = Fields
    /\ DOMAIN req[r].proposal = {"covered", "by", "output"}
    /\ req[r].pc \in Phases
    /\ req[r].generation \in 0..guard.next
    /\ req[r].model \in Models \cup {None}
    /\ req[r].closed \in BOOLEAN /\ req[r].aborted \in BOOLEAN /\ req[r].failed \in BOOLEAN

\* A record that is open and live belongs to the session that is current.
Current(r) ==
    /\ req[r].pc \in {"hooking", "scanned", "estimating", "compacting", "answered"}
    /\ ~req[r].closed /\ ~guard.disposed
    => req[r].epoch = epoch

\* A proposal has an output only between the hook and Pi's commit.
Proposed(r) == req[r].proposal.output # <<>> => req[r].pc = "answered"

\* An accounting of the current generation is of the active identity.
Accounted(r) ==
    /\ req[r].pc \in {"scanned", "estimating", "compacting"} => req[r].identity # NoIdentity
    /\ req[r].accounting # NoAccounting =>
         /\ req[r].identity # NoIdentity
         /\ req[r].accounting.generation \in 0..store.generation
         /\ req[r].accounting.generation = store.generation => req[r].identity = store.active

Record(r) == Formed(r) /\ Current(r) /\ Proposed(r) /\ Accounted(r)

Records == DOMAIN req = Slots /\ \A r \in Slots : Record(r)

\* What belongs to no request has its type.
Session ==
    /\ DOMAIN guard = {"next", "disposed"}
    /\ guard.next \in 0..bound.requests /\ guard.disposed \in BOOLEAN
    /\ DOMAIN manual = {"pc", "overlay", "branch", "kept", "aborted", "identity", "input",
                        "proposal"}
    /\ manual.pc \in {"idle", "resolving", "executing", "returning", "settling"}
    /\ manual.overlay \in BOOLEAN
    /\ DOMAIN store = {"generation", "active", "baselines"} /\ store.generation \in Nat
    /\ mark \in {"idle", "pending", "requested", "executing"}
    /\ status \in BOOLEAN /\ disowned \in BOOLEAN
    /\ restoring \in Nat
    /\ entries \in Nat /\ boundary \in 0..entries
    /\ bound \in Bounds /\ model \in Models

\* The branch is a sequence of entries that were appended.
Grown ==
    /\ \E S : branch \in Seq(S)
    /\ \A i \in DOMAIN branch : branch[i].id \in 1..entries

\* The mark says which compaction runs, unless it was cleared for another.
Marked ==
    \/ disowned
    \/ mark \in {"idle", "requested"} /\ Running = {}
    \/ mark = "pending" /\ \E r \in Slots : Running = {r}
    \/ mark = "executing" /\ Running = {"manual"}

Compaction == Marked /\ MarkHasOwner /\ StatusHasOwner

\* There is at most one baseline, and it is of an identity.
Baselines ==
    /\ BaselinesAreOfActiveIdentity
    /\ \A b \in store.baselines : b.by # NoIdentity /\ b.request \in Nat
    /\ \A b, c \in store.baselines : b = c

IInv ==
    Records /\ Session /\ Grown /\ Compaction /\ Baselines /\ BoundaryIsOnBranch

-----------------------------------------------------------------------------
(* The latest checkpoint.                                                  *)

\* A bounded set of numbers has a largest member, and Max is it.
LEMMA MaxIsMember ==
    ASSUME NEW n \in Nat, NEW S \in SUBSET (1..n), S # {}
    PROVE  Max(S) \in S
  <1> DEFINE T == {n - i : i \in S}
  <1>1. T \subseteq Nat /\ T # {}
    <2>1. \A i \in S : n - i \in Nat
      OBVIOUS
    <2> QED
      BY <2>1
  <1> DEFINE R == OpToRel(<, Nat)
  <1> HIDE DEF T, R
  <1>2. PICK x \in T : \A y \in T : ~(<<y, x>> \in R)
    <2>1. IsWellFoundedOn(R, Nat)
      BY NatLessThanWellFounded DEF R
    <2> QED
      BY <1>1, <2>1, WFMin
  <1>3. \A y \in T : ~(y < x)
    <2> TAKE y \in T
    <2>1. x \in Nat /\ y \in Nat
      BY <1>1
    <2> QED
      BY <1>2, <2>1 DEF R, OpToRel
  <1>4. PICK i \in S : x = n - i
    BY DEF T
  <1>5. \A j \in S : i >= j
    <2> TAKE j \in S
    <2>1. ~(n - j < n - i)
      BY <1>3, <1>4 DEF T
    <2>2. i \in Nat /\ j \in Nat
      OBVIOUS
    <2> QED
      BY <2>1, <2>2
  <1> QED
    BY <1>5 DEF Max

\* What the scan selects is a checkpoint of the branch it was given, or nothing.
LEMMA ScanSelects ==
    ASSUME Grown, NEW identity, NEW before, entries \in Nat
    PROVE  LET id == EntryIdAt(ScanRemoteCompactionCheckpoints(branch, identity, before))
           IN  /\ id \in {0} \cup {e.id : e \in {x \in ToSet(branch) : x.kind = "checkpoint"}}
               /\ id \in 0..entries
  <1> DEFINE I == {i \in 1..Len(branch) :
                     /\ ParseRemoteCompactionCheckpoint(branch[i])
                     /\ SameIdentity(branch[i], identity)
                     /\ IndexOf(branch, branch[i].covered)
                          \in 1..(IndexOf(branch, branch[i].id) - 1) \cap 1..(before - 1)}
             at == ScanRemoteCompactionCheckpoints(branch, identity, before)
  <1>1. at = IF I # {} THEN Max(I) ELSE 0
    BY Zenon DEF ScanRemoteCompactionCheckpoints, SelectLastInSeq
  <1>2. PICK S : branch \in Seq(S)
    BY DEF Grown
  <1>3. Len(branch) \in Nat /\ DOMAIN branch = 1..Len(branch)
    BY <1>2
  <1>4. CASE I = {}
    <2>1. at = 0
      <3> HIDE DEF I, at
      <3> QED
        BY <1>1, <1>4
    <2>2. EntryIdAt(at) = 0
      <3> HIDE DEF at
      <3> QED
        BY <2>1 DEF EntryIdAt
    <2> HIDE DEF at, I
    <2>3. EntryIdAt(at) \in 0..entries
      BY <2>2
    <2> QED
      BY <2>2, <2>3 DEF at
  <1>5. CASE I # {}
    <2>1. at \in I
      <3>1. I \in SUBSET (1..Len(branch))
        OBVIOUS
      <3> HIDE DEF I, at
      <3> QED
        BY <1>1, <1>3, <1>5, <3>1, MaxIsMember
    <2>2. at \in DOMAIN branch /\ branch[at].kind = "checkpoint" /\ at # 0
      BY <1>3, <2>1 DEF ParseRemoteCompactionCheckpoint
    <2> HIDE DEF at, I
    <2>3. EntryIdAt(at) = branch[at].id
      BY <2>2 DEF EntryIdAt
    <2>4. branch[at] \in ToSet(branch)
      BY <2>2 DEF ToSet
    <2>5. branch[at].id \in 1..entries
      BY <2>2 DEF Grown
    <2> QED
      BY <2>2, <2>3, <2>4, <2>5 DEF at
  <1> QED
    BY <1>4, <1>5

-----------------------------------------------------------------------------
(* What a step of one request leaves alone.                                *)

OnlyOf(r) == DOMAIN req' = Slots /\ \A s \in Slots \ {r} : req'[s] = req[s]

\* The accounting moves on, or keeps the identity that was active.
StoreKept ==
    /\ store'.generation \in Nat
    /\ \/ store'.generation > store.generation
       \/ /\ store'.generation = store.generation
          /\ store'.active = store.active \/ store.active = NoIdentity

\* What the records of the others depend on.
Around ==
    /\ guard'.next \in Nat /\ guard.next <= guard'.next
    /\ guard'.disposed = guard.disposed /\ epoch' = epoch
    /\ StoreKept

LEMMA Numbers ==
    ASSUME Session
    PROVE  /\ guard.next \in Nat /\ bound.requests \in Nat /\ store.generation \in Nat
           /\ entries \in Nat /\ bound.entries \in Nat /\ bound.events \in Nat
  BY RequestAssumption DEF Session

LEMMA AroundStays ==
    ASSUME Session, UNCHANGED <<guard, epoch, store>>
    PROVE  Around
  BY Numbers DEF Around, StoreKept

LEMMA RecordStays ==
    ASSUME IInv, NEW s \in Slots, req'[s] = req[s], Around
    PROVE  Record(s)'
  <1>1. Record(s)
    BY DEF IInv, Records
  <1>2. Formed(s)'
    <2>1. req[s].generation \in 0..guard'.next
      BY <1>1, Numbers DEF Around, Record, Formed, IInv
    <2> QED
      BY <1>1, <2>1 DEF Record, Formed
  <1>3. Current(s)' /\ Proposed(s)'
    BY <1>1 DEF Around, Record, Current, Proposed
  <1>4. Accounted(s)'
    BY <1>1, Numbers DEF Around, StoreKept, Record, Accounted, IInv
  <1> QED
    BY <1>2, <1>3, <1>4 DEF Record

LEMMA RecordsStay ==
    ASSUME IInv, NEW r \in Slots, OnlyOf(r), Around, Record(r)'
    PROVE  Records'
  <1>1. ASSUME NEW s \in Slots, s # r PROVE Record(s)'
    BY <1>1, RecordStays DEF OnlyOf
  <1> QED
    BY <1>1 DEF OnlyOf, Records

LEMMA AllRecordsStay ==
    ASSUME IInv, UNCHANGED req, Around
    PROVE  Records'
  <1>1. ASSUME NEW s \in Slots PROVE Record(s)'
    BY <1>1, RecordStays
  <1> QED
    BY <1>1 DEF IInv, Records

-----------------------------------------------------------------------------
(* The ways to end a hook.                                                 *)

LEMMA HookFailsStep ==
    ASSUME IInv, NEW r \in Slots, req' = HookFails(r), UNCHANGED <<guard, epoch, store>>,
           req[r].pc \in {"hooking", "scanned", "estimating", "compacting"}
    PROVE  /\ OnlyOf(r) /\ Record(r)'
           /\ req'[r].pc = "answered" /\ req'[r].proposal.output = <<>>
  <1>1. Record(r) /\ DOMAIN req = Slots /\ Session
    BY DEF IInv, Records
  <1>2. AssertLive(r) \in BOOLEAN
    BY DEF AssertLive
  <1>3. OnlyOf(r)
    BY <1>1 DEF HookFails, OnlyOf
  <1> DEFINE x == req'[r]
  <1>4. /\ DOMAIN x = Fields /\ x.pc = "answered" /\ x.failed = (req[r].failed \/ AssertLive(r))
        /\ x.generation = req[r].generation /\ x.epoch = req[r].epoch /\ x.closed = req[r].closed
        /\ x.aborted = req[r].aborted /\ x.model = None /\ x.accounting = NoAccounting
        /\ x.proposal = NoProposal
    BY <1>1 DEF HookFails, Free, Fields
  <1>5. DOMAIN x.proposal = {"covered", "by", "output"} /\ x.proposal.output = <<>>
    BY <1>4 DEF NoProposal
  <1> HIDE DEF x
  <1>6. Formed(r)'
    BY <1>1, <1>2, <1>4, <1>5 DEF x, Formed, Record, Phases
  <1>7. Current(r)' /\ Proposed(r)' /\ Accounted(r)'
    BY <1>1, <1>4, <1>5 DEF x, Record, Current, Proposed, Accounted
  <1> QED
    BY <1>3, <1>4, <1>5, <1>6, <1>7 DEF x, Record

LEMMA ApproveStep ==
    ASSUME IInv, NEW r \in Slots, NEW payload, req' = Approve(r, payload),
           UNCHANGED <<guard, epoch, store>>, req[r].pc \in {"hooking", "scanned", "estimating"}
    PROVE  /\ OnlyOf(r) /\ Record(r)'
           /\ req'[r].pc = "answered" /\ req'[r].proposal.output = <<>>
  <1>1. Record(r) /\ DOMAIN req = Slots /\ Session
    BY DEF IInv, Records
  <1>2. OnlyOf(r)
    BY <1>1 DEF Approve, OnlyOf
  <1> DEFINE x == req'[r]
  <1>3. /\ DOMAIN x = Fields /\ x.pc = "answered" /\ x.failed = req[r].failed
        /\ x.generation = req[r].generation /\ x.epoch = req[r].epoch /\ x.closed = req[r].closed
        /\ x.aborted = req[r].aborted /\ x.model = req[r].model
        /\ x.accounting = req[r].accounting /\ x.proposal = req[r].proposal
        /\ x.identity = req[r].identity
    BY <1>1 DEF Approve, Record, Formed, Fields
  <1> HIDE DEF x
  <1>4. Formed(r)'
    BY <1>1, <1>3 DEF x, Formed, Record, Phases
  <1>5. Current(r)' /\ Proposed(r)' /\ Accounted(r)'
    BY <1>1, <1>3 DEF x, Record, Current, Proposed, Accounted
  <1> QED
    BY <1>1, <1>2, <1>3, <1>4, <1>5 DEF x, Record, Proposed

-----------------------------------------------------------------------------
(* What the rest of the invariant depends on.                              *)

\* As far as compaction goes, the step does not change the record.
SameRole(r) ==
    /\ req'[r].pc = "compacting" <=> req[r].pc = "compacting"
    /\ req[r].proposal.output # <<>> => req'[r].proposal.output # <<>>

LEMMA CompactionStays ==
    ASSUME IInv, NEW r \in Slots, OnlyOf(r), SameRole(r), UNCHANGED <<mark, status, disowned, manual>>
    PROVE  Compaction'
  <1>1. Compacting' = Compacting
    BY DEF Compacting, OnlyOf, SameRole
  <1>2. Running' = Running
    BY <1>1 DEF Running
  <1>3. Marked' /\ MarkHasOwner'
    BY <1>1, <1>2 DEF IInv, Compaction, Marked, MarkHasOwner
  <1>4. StatusHasOwner'
    BY DEF IInv, Compaction, StatusHasOwner, OnlyOf, SameRole
  <1> QED
    BY <1>3, <1>4 DEF Compaction

\* The boundary is kept, or is that of a scan of the branch.
Bounded ==
    \/ UNCHANGED <<boundary, restoring>>
    \/ \E identity, before :
         boundary' = EntryIdAt(ScanRemoteCompactionCheckpoints(branch, identity, before))
    \/ boundary' = 0

LEMMA BranchStays ==
    ASSUME IInv, UNCHANGED <<branch, entries>>, Bounded
    PROVE  Grown' /\ BoundaryIsOnBranch' /\ boundary' \in 0..entries'
  <1>1. Grown'
    BY DEF IInv, Grown
  <1>2. entries \in Nat /\ boundary \in 0..entries
    BY DEF IInv, Session
  <1>3. CASE UNCHANGED <<boundary, restoring>>
    BY <1>1, <1>2, <1>3 DEF IInv, BoundaryIsOnBranch
  <1>4. ASSUME NEW identity, NEW before,
               boundary' = EntryIdAt(ScanRemoteCompactionCheckpoints(branch, identity, before))
        PROVE  BoundaryIsOnBranch' /\ boundary' \in 0..entries'
    BY <1>2, <1>4, ScanSelects DEF IInv, BoundaryIsOnBranch
  <1>5. CASE boundary' = 0
    BY <1>1, <1>2, <1>5 DEF BoundaryIsOnBranch
  <1> QED
    BY <1>1, <1>3, <1>4, <1>5, <1>2 DEF Bounded

\* A step of one request that leaves compaction, the store and the branch alone.
LEMMA QuietStep ==
    ASSUME IInv, NEW r \in Slots, OnlyOf(r), Record(r)', SameRole(r), Bounded,
           UNCHANGED <<guard, manual, store, mark, status, disowned, branch, entries, restoring,
                       epoch, model, bound>>
    PROVE  IInv'
  <1>1. Records'
    BY RecordsStay, AroundStays DEF IInv
  <1>2. Compaction'
    BY CompactionStays
  <1>3. Grown' /\ BoundaryIsOnBranch' /\ boundary' \in 0..entries'
    BY BranchStays
  <1>4. Session'
    BY <1>3 DEF IInv, Session
  <1>5. Baselines'
    BY DEF IInv, Baselines, BaselinesAreOfActiveIdentity
  <1> QED
    BY <1>1, <1>2, <1>3, <1>4, <1>5 DEF IInv

-----------------------------------------------------------------------------
(* The steps of a request outside compaction.                              *)

LEMMA FreeIsRecord ==
    ASSUME Session, NEW r \in Slots, req'[r] = Free, UNCHANGED <<guard, epoch, store>>
    PROVE  Record(r)' /\ req'[r].pc = "free" /\ req'[r].proposal.output = <<>>
  <1>1. /\ DOMAIN Free = Fields /\ Free.pc = "free" /\ Free.generation = 0 /\ Free.model = None
        /\ Free.closed = FALSE /\ Free.aborted = FALSE /\ Free.failed = FALSE
        /\ Free.accounting = NoAccounting /\ Free.proposal = NoProposal
    BY DEF Free, Fields
  <1>2. DOMAIN NoProposal = {"covered", "by", "output"} /\ NoProposal.output = <<>>
    BY DEF NoProposal
  <1>3. Formed(r)'
    <2>1. 0 \in 0..guard'.next
      BY Numbers
    <2> QED
      BY <1>1, <1>2, <2>1 DEF Formed, Phases
  <1>4. Current(r)' /\ Proposed(r)' /\ Accounted(r)'
    BY <1>1, <1>2 DEF Current, Proposed, Accounted
  <1> QED
    BY <1>1, <1>2, <1>3, <1>4 DEF Record

LEMMA StartStep ==
    ASSUME IInv, NEW r \in Slots, Start(r)
    PROVE  IInv'
  <1>1. Record(r) /\ DOMAIN req = Slots /\ Session
    BY DEF IInv, Records
  <1>2. req[r].pc = "free" /\ UNCHANGED <<guard, manual, compactionVars, branchVars, sessionVars>>
    BY DEF Start
  <1> DEFINE i == ProviderCompactionIdentity(model, CreateProviderConnection(auth))
             b == BuildCodexRequest(branch)
             x == [Free EXCEPT !.pc = "preparing", !.model = model, !.epoch = epoch,
                               !.identity = i, !.input = b]
  <1>3. req' = [req EXCEPT ![r] = x]
    BY DEF Start
  <1> HIDE DEF i, b
  <1>4. /\ DOMAIN x = Fields /\ x.pc = "preparing" /\ x.generation = 0 /\ x.model = model
        /\ x.closed = FALSE /\ x.aborted = FALSE /\ x.failed = FALSE
        /\ x.accounting = NoAccounting /\ x.proposal = NoProposal
    BY DEF Free, Fields
  <1> HIDE DEF x
  <1>5. OnlyOf(r) /\ req'[r] = x
    BY <1>1, <1>3 DEF OnlyOf
  <1>6. DOMAIN NoProposal = {"covered", "by", "output"} /\ NoProposal.output = <<>>
    BY DEF NoProposal
  <1>7. Formed(r)'
    <2>1. 0 \in 0..guard'.next
      BY <1>1, <1>2, Numbers
    <2> QED
      BY <1>1, <1>4, <1>5, <1>6, <2>1 DEF Formed, Phases, Session
  <1>8. Current(r)' /\ Proposed(r)' /\ Accounted(r)'
    BY <1>4, <1>5, <1>6 DEF Current, Proposed, Accounted
  <1>9. SameRole(r)
    BY <1>1, <1>2, <1>4, <1>5 DEF SameRole, Record, Proposed
  <1> QED
    BY <1>2, <1>5, <1>7, <1>8, <1>9, QuietStep
       DEF Record, Bounded, compactionVars, branchVars, sessionVars

LEMMA OpenStep ==
    ASSUME IInv, NEW r \in Slots, Open(r)
    PROVE  IInv'
  <1>1. Record(r) /\ DOMAIN req = Slots /\ Session
    BY DEF IInv, Records
  <1>2. /\ req[r].pc = "preparing" /\ guard.next < bound.requests
        /\ guard' = [guard EXCEPT !.next = @ + 1]
        /\ UNCHANGED <<manual, compactionVars, branchVars, sessionVars>>
    BY DEF Open
  <1>3. PICK token \in {0, Leaf(branch)} :
          req' = [req EXCEPT ![r].pc = "hooking", ![r].generation = guard.next + 1,
                             ![r].payload = req[r].input, ![r].epoch = epoch, ![r].token = token]
    BY DEF Open
  <1> DEFINE x == req'[r]
  <1>4. /\ OnlyOf(r) /\ DOMAIN x = Fields /\ x.pc = "hooking" /\ x.generation = guard.next + 1
        /\ x.model = req[r].model /\ x.closed = req[r].closed /\ x.aborted = req[r].aborted
        /\ x.failed = req[r].failed /\ x.epoch = epoch /\ x.accounting = req[r].accounting
        /\ x.proposal = req[r].proposal /\ x.identity = req[r].identity
    BY <1>1, <1>3 DEF OnlyOf, Record, Formed, Fields
  <1> HIDE DEF x
  <1>5. /\ DOMAIN guard' = {"next", "disposed"} /\ guard'.next = guard.next + 1
        /\ guard'.disposed = guard.disposed
    BY <1>1, <1>2 DEF Session
  <1>6. guard'.next \in 0..bound.requests /\ guard.next \in Nat /\ guard'.next \in Nat
    BY <1>1, <1>2, <1>5, Numbers
  <1>7. Formed(r)'
    <2>1. x.generation \in 0..guard'.next
      BY <1>4, <1>5, <1>6
    <2> QED
      BY <1>1, <1>4, <2>1 DEF x, Formed, Record, Phases
  <1>8. Current(r)' /\ Proposed(r)' /\ Accounted(r)'
    BY <1>1, <1>2, <1>4 DEF x, Current, Proposed, Accounted, Record, compactionVars, sessionVars
  <1>9. SameRole(r)
    BY <1>1, <1>2, <1>4 DEF x, SameRole, Record, Proposed
  <1>10. Around
    BY <1>1, <1>2, <1>5, <1>6, Numbers DEF Around, StoreKept, compactionVars, sessionVars
  <1>11. Records'
    BY <1>4, <1>7, <1>8, <1>10, RecordsStay DEF Record
  <1>12. Compaction'
    BY <1>2, <1>4, <1>9, CompactionStays DEF compactionVars
  <1>13. Session'
    BY <1>1, <1>2, <1>5, <1>6 DEF Session, compactionVars, branchVars, sessionVars
  <1>14. Grown' /\ BoundaryIsOnBranch' /\ Baselines'
    BY <1>2 DEF IInv, Grown, BoundaryIsOnBranch, Baselines, BaselinesAreOfActiveIdentity,
                compactionVars, branchVars, sessionVars
  <1> QED
    BY <1>11, <1>12, <1>13, <1>14 DEF IInv

LEMMA ScanStep ==
    ASSUME IInv, NEW r \in Slots, Scan(r)
    PROVE  IInv'
  <1>1. Record(r) /\ DOMAIN req = Slots /\ Session
    BY DEF IInv, Records
  <1> DEFINE replay == IF Selected(r) = 0 THEN req[r].input
                       ELSE CheckpointPayload(branch, Selected(r), Len(branch) + 1)
             pending == IF Selected(r) = 0 THEN req[r].input # <<>>
                        ELSE CheckpointSuffix(branch, Selected(r), Len(branch) + 1) # <<>>
             read == Standing(ProjectCanonicalEntries(branch))
             x == req'[r]
  <1>2. /\ req[r].pc = "hooking" /\ req[r].identity # NoIdentity
        /\ boundary' = EntryIdAt(Selected(r))
        /\ UNCHANGED <<guard, manual, compactionVars, branch, committed, entries, sessionVars, rewound>>
    BY DEF Scan
  <1>3. req' = [req EXCEPT ![r].pc = "scanned", ![r].replay = replay, ![r].pending = pending,
                           ![r].read = read]
    BY DEF Scan
  <1> HIDE DEF replay, pending, read
  <1>4. /\ OnlyOf(r) /\ DOMAIN x = Fields /\ x.pc = "scanned" /\ x.generation = req[r].generation
        /\ x.model = req[r].model /\ x.closed = req[r].closed /\ x.aborted = req[r].aborted
        /\ x.failed = req[r].failed /\ x.epoch = req[r].epoch
        /\ x.accounting = req[r].accounting
        /\ x.proposal = req[r].proposal /\ x.identity = req[r].identity
    BY <1>1, <1>3 DEF OnlyOf, Record, Formed, Fields
  <1> HIDE DEF x
  <1>5. Formed(r)'
    BY <1>1, <1>2, <1>4 DEF x, Formed, Record, Phases
  <1>6. Current(r)' /\ Proposed(r)' /\ Accounted(r)'
    BY <1>1, <1>2, <1>4 DEF x, Current, Proposed, Accounted, Record, compactionVars, sessionVars
  <1>7. SameRole(r)
    BY <1>1, <1>2, <1>4 DEF x, SameRole, Record, Proposed
  <1>8. Bounded
    BY <1>2 DEF Bounded, Selected
  <1> QED
    BY <1>2, <1>4, <1>5, <1>6, <1>7, <1>8, QuietStep DEF Record, compactionVars, sessionVars

LEMMA ApproveSummaryStep ==
    ASSUME IInv, NEW r \in Slots, ApproveSummary(r)
    PROVE  IInv'
  <1>1. Record(r)
    BY DEF IInv, Records
  <1>2. /\ req[r].pc = "hooking" /\ req' = Approve(r, req[r].input)
        /\ boundary' = EntryIdAt(Selected(r))
        /\ UNCHANGED <<guard, manual, store, mark, status, disowned, branch, entries, restoring,
                       epoch, model, bound>>
    BY DEF ApproveSummary, compactionVars, sessionVars
  <1>3. OnlyOf(r) /\ Record(r)' /\ req'[r].pc = "answered"
    BY <1>2, ApproveStep
  <1>4. SameRole(r)
    BY <1>1, <1>2, <1>3 DEF SameRole, Record, Proposed
  <1>5. Bounded
    BY <1>2 DEF Bounded, Selected
  <1> QED
    BY <1>2, <1>3, <1>4, <1>5, QuietStep

LEMMA EstimatedStep ==
    ASSUME IInv, NEW r \in Slots, Estimated(r) \/ ContextWindowError(r)
    PROVE  IInv'
  <1>1. Record(r)
    BY DEF IInv, Records
  <1>2. /\ req[r].pc = "estimating"
        /\ req' = HookFails(r) \/ req' = Approve(r, req[r].replay)
        /\ UNCHANGED <<guard, manual, store, mark, status, disowned, branch, entries, restoring,
                       boundary, epoch, model, bound>>
    BY DEF Estimated, ContextWindowError, compactionVars, branchVars, sessionVars
  <1>3. OnlyOf(r) /\ Record(r)' /\ req'[r].pc = "answered"
    BY <1>2, ApproveStep, HookFailsStep
  <1>4. SameRole(r)
    BY <1>1, <1>2, <1>3 DEF SameRole, Record, Proposed
  <1> QED
    BY <1>2, <1>3, <1>4, QuietStep DEF Bounded

LEMMA HookErrorStep ==
    ASSUME IInv, NEW r \in Slots, HookError(r)
    PROVE  IInv'
  <1>1. Record(r)
    BY DEF IInv, Records
  <1>2. /\ req[r].pc \in {"hooking", "scanned", "estimating"} /\ req' = HookFails(r)
        /\ UNCHANGED boundary \/ boundary' = EntryIdAt(Selected(r))
        /\ UNCHANGED <<guard, manual, store, mark, status, disowned, branch, entries, restoring,
                       epoch, model, bound>>
    BY DEF HookError, compactionVars, sessionVars
  <1>3. OnlyOf(r) /\ Record(r)' /\ req'[r].pc = "answered"
    BY <1>2, HookFailsStep
  <1>4. SameRole(r)
    BY <1>1, <1>2, <1>3 DEF SameRole, Record, Proposed
  <1>5. Bounded
    BY <1>2 DEF Bounded, Selected
  <1> QED
    BY <1>2, <1>3, <1>4, <1>5, QuietStep

LEMMA DispatchStep ==
    ASSUME IInv, NEW r \in Slots, Replace(r) \/ Dispatch(r) \/ Abort(r)
    PROVE  IInv'
  <1>1. Record(r) /\ DOMAIN req = Slots
    BY DEF IInv, Records
  <1> DEFINE x == req'[r]
  <1>2. UNCHANGED <<guard, manual, store, mark, status, disowned, branch, entries, restoring,
                    boundary, epoch, model, bound>>
    BY DEF Replace, Dispatch, Abort, compactionVars, branchVars, sessionVars
  <1>3. /\ OnlyOf(r) /\ DOMAIN x = Fields /\ x.generation = req[r].generation
        /\ x.pc = req[r].pc \/ (x.pc = "dispatched" /\ req[r].pc = "answered" /\ req[r].proposal = NoProposal)
        /\ x.model = req[r].model /\ x.closed = req[r].closed /\ x.aborted \in BOOLEAN
        /\ x.failed = req[r].failed /\ x.epoch = req[r].epoch
        /\ x.accounting = req[r].accounting
        /\ x.proposal = req[r].proposal /\ x.identity = req[r].identity
    <2>1. CASE Replace(r)
      BY <1>1, <2>1 DEF Replace, OnlyOf, Record, Formed, Fields
    <2>2. CASE Dispatch(r)
      BY <1>1, <2>2 DEF Dispatch, OnlyOf, Record, Formed, Fields
    <2>3. CASE Abort(r)
      BY <1>1, <2>3 DEF Abort, OnlyOf, Record, Formed, Fields
    <2> QED
      BY <2>1, <2>2, <2>3
  <1> HIDE DEF x
  <1>4. NoProposal.output = <<>>
    BY DEF NoProposal
  <1>5. Formed(r)'
    BY <1>1, <1>2, <1>3 DEF x, Formed, Record, Phases
  <1>6. Current(r)' /\ Proposed(r)' /\ Accounted(r)'
    BY <1>1, <1>2, <1>3, <1>4 DEF x, Current, Proposed, Accounted, Record
  <1>7. SameRole(r)
    BY <1>3 DEF x, SameRole
  <1> QED
    BY <1>2, <1>3, <1>5, <1>6, <1>7, QuietStep DEF Record, Bounded

LEMMA FailStep ==
    ASSUME IInv, NEW r \in Slots, Fail(r)
    PROVE  IInv'
  <1>1. Record(r) /\ DOMAIN req = Slots /\ Session
    BY DEF IInv, Records
  <1>2. /\ req[r].pc \in {"preparing", "dispatched"} \/ req[r].proposal = NoProposal
        /\ req[r].pc # "compacting" /\ req' = [req EXCEPT ![r] = Free]
        /\ UNCHANGED <<guard, manual, store, mark, status, disowned, branch, entries, restoring,
                       boundary, epoch, model, bound>>
    BY DEF Fail, Rejected, compactionVars, branchVars, sessionVars
  <1>3. OnlyOf(r) /\ req'[r] = Free
    BY <1>1, <1>2 DEF OnlyOf
  <1>4. Record(r)' /\ req'[r].pc = "free"
    BY <1>1, <1>2, <1>3, FreeIsRecord
  <1>5. NoProposal.output = <<>>
    BY DEF NoProposal
  <1>6. SameRole(r)
    BY <1>1, <1>2, <1>4, <1>5 DEF SameRole, Record, Proposed
  <1> QED
    BY <1>2, <1>3, <1>4, <1>6, QuietStep DEF Bounded

-----------------------------------------------------------------------------
(* The accounting.                                                         *)

LEMMA Invalidated ==
    ASSUME NEW s, DOMAIN s = {"generation", "active", "baselines"}, s.generation \in Nat,
           NEW t, t = InvalidateContextAccounting(s)
    PROVE  /\ DOMAIN t = {"generation", "active", "baselines"}
           /\ t.generation = s.generation + 1 /\ t.active = s.active /\ t.baselines = {}
  BY DEF InvalidateContextAccounting

\* contextAccounting starts a new generation, or nothing contradicts the identity.
LEMMA AccountingRead ==
    ASSUME NEW s, DOMAIN s = {"generation", "active", "baselines"}, s.generation \in Nat,
           NEW identity, NEW t, t = ContextAccounting(s, identity)
    PROVE  /\ DOMAIN t = {"generation", "active", "baselines"} /\ t.active = identity
           /\ \/ t.generation = s.generation + 1 /\ t.baselines = {}
              \/ /\ t.generation = s.generation /\ t.baselines = s.baselines
                 /\ s.active \in {NoIdentity, identity}
  <1>1. CASE s.active \notin {NoIdentity, identity}
    <2> DEFINE u == InvalidateContextAccounting(s)
    <2>1. t = [u EXCEPT !.active = identity]
      BY <1>1 DEF ContextAccounting
    <2> HIDE DEF u
    <2>2. /\ DOMAIN u = {"generation", "active", "baselines"}
          /\ u.generation = s.generation + 1 /\ u.baselines = {}
      BY Invalidated DEF u
    <2> QED
      BY <2>1, <2>2
  <1>2. CASE s.active \in {NoIdentity, identity}
    <2>1. t = [s EXCEPT !.active = identity]
      BY <1>2 DEF ContextAccounting
    <2> QED
      BY <1>2, <2>1
  <1> QED
    BY <1>1, <1>2

\* Baselines that are kept or forgotten stay those of the active identity.
LEMMA BaselinesStay ==
    ASSUME IInv, \/ store'.baselines = {}
                 \/ /\ store'.generation = store.generation /\ store'.baselines = store.baselines
                    /\ store'.active = store.active \/ store.active = NoIdentity
    PROVE  Baselines'
  BY DEF IInv, Baselines, BaselinesAreOfActiveIdentity

LEMMA AccountStep ==
    ASSUME IInv, NEW r \in Slots, Account(r)
    PROVE  IInv'
  <1>1. Record(r) /\ DOMAIN req = Slots /\ Session
    BY DEF IInv, Records
  <1>2. /\ req[r].pc = "scanned" /\ store' = ContextAccounting(store, req[r].identity)
        /\ req' = [req EXCEPT ![r].pc = "estimating",
                     ![r].accounting = [generation |-> store'.generation, input |-> req[r].replay]]
        /\ UNCHANGED <<guard, manual, mark, status, disowned, branch, entries, restoring,
                       boundary, epoch, model, bound>>
    BY DEF Account, branchVars, sessionVars
  <1>3. /\ DOMAIN store' = {"generation", "active", "baselines"} /\ store'.active = req[r].identity
        /\ \/ store'.generation = store.generation + 1 /\ store'.baselines = {}
           \/ /\ store'.generation = store.generation /\ store'.baselines = store.baselines
              /\ store.active \in {NoIdentity, req[r].identity}
    BY <1>1, <1>2, AccountingRead DEF Session
  <1>4. store.generation \in Nat /\ store'.generation \in Nat
    BY <1>1, <1>3, Numbers
  <1> DEFINE x == req'[r]
             a == [generation |-> store'.generation, input |-> req[r].replay]
  <1>5. a.generation = store'.generation
    OBVIOUS
  <1>6. req' = [req EXCEPT ![r].pc = "estimating", ![r].accounting = a]
    BY <1>2
  <1> HIDE DEF a
  <1>7. /\ OnlyOf(r) /\ DOMAIN x = Fields /\ x.pc = "estimating"
        /\ x.generation = req[r].generation
        /\ x.model = req[r].model /\ x.closed = req[r].closed /\ x.aborted = req[r].aborted
        /\ x.failed = req[r].failed /\ x.epoch = req[r].epoch /\ x.accounting = a
        /\ x.proposal = req[r].proposal /\ x.identity = req[r].identity
    BY <1>1, <1>6 DEF OnlyOf, Record, Formed, Fields
  <1> HIDE DEF x
  <1>8. Formed(r)'
    BY <1>1, <1>2, <1>7 DEF x, Formed, Record, Phases
  <1>9. Current(r)' /\ Proposed(r)'
    BY <1>1, <1>2, <1>7 DEF x, Current, Proposed, Record
  <1>10. Accounted(r)'
    BY <1>1, <1>2, <1>3, <1>4, <1>5, <1>7 DEF x, Accounted, Record
  <1>11. Around
    BY <1>1, <1>2, <1>3, <1>4, Numbers DEF Around, StoreKept
  <1>12. Records'
    BY <1>7, <1>8, <1>9, <1>10, <1>11, RecordsStay DEF Record
  <1>13. SameRole(r)
    BY <1>1, <1>2, <1>7 DEF x, SameRole, Record, Proposed
  <1>14. Compaction'
    BY <1>2, <1>7, <1>13, CompactionStays
  <1>15. Session'
    BY <1>1, <1>2, <1>3, <1>4 DEF Session
  <1>16. Grown' /\ BoundaryIsOnBranch'
    BY <1>2, BranchStays DEF Bounded
  <1>17. Baselines'
    BY <1>3, BaselinesStay
  <1> QED
    BY <1>12, <1>14, <1>15, <1>16, <1>17 DEF IInv

\* A report that is kept is of the active identity and not older than the last.
LEMMA UsageRecorded ==
    ASSUME IInv, NEW r \in Slots, req[r].accounting # NoAccounting,
           store' = RecordContextUsage(store,
                      [generation |-> req[r].accounting.generation,
                       request |-> req[r].generation, by |-> req[r].identity])
    PROVE  /\ DOMAIN store' = {"generation", "active", "baselines"}
           /\ store'.generation = store.generation /\ store'.active = store.active
           /\ Baselines'
           /\ \A b \in store.baselines, c \in store'.baselines : c.request >= b.request
  <1>1. Record(r) /\ Session
    BY DEF IInv, Records
  <1> DEFINE u == [generation |-> req[r].accounting.generation,
                   request |-> req[r].generation, by |-> req[r].identity]
  <1>2. /\ u.generation = req[r].accounting.generation /\ u.request = req[r].generation
        /\ u.by = req[r].identity
    OBVIOUS
  <1>3. store' = RecordContextUsage(store, u)
    OBVIOUS
  <1> HIDE DEF u
  <1>4. u.request \in Nat
    BY <1>1, <1>2, Numbers DEF Record, Formed
  <1>5. CASE store' = store
    <2>1. \A b, c \in store.baselines : c.request >= b.request
      BY DEF IInv, Baselines
    <2> QED
      BY <1>1, <1>5, <2>1 DEF IInv, Session, Baselines, BaselinesAreOfActiveIdentity
  <1>6. CASE store' # store
    <2>1. /\ store.generation = u.generation
          /\ \A b \in store.baselines : ~(b.by = u.by /\ b.request > u.request)
          /\ store' = [store EXCEPT !.baselines = {b \in @ : b.by # u.by} \cup {u}]
      BY <1>3, <1>6 DEF RecordContextUsage
    <2>2. u.by = store.active /\ u.by # NoIdentity
      BY <1>1, <1>2, <2>1 DEF Record, Accounted
    <2>3. \A b \in store.baselines : b.by = u.by /\ b.request \in Nat
      BY <2>2 DEF IInv, Baselines, BaselinesAreOfActiveIdentity
    <2>4. /\ DOMAIN store' = {"generation", "active", "baselines"}
          /\ store'.generation = store.generation /\ store'.active = store.active
          /\ store'.baselines = {b \in store.baselines : b.by # u.by} \cup {u}
      BY <1>1, <2>1 DEF Session
    <2>5. store'.baselines = {u}
      BY <2>3, <2>4
    <2>6. Baselines'
      BY <1>4, <2>1, <2>2, <2>4, <2>5 DEF Baselines, BaselinesAreOfActiveIdentity
    <2> QED
      BY <1>4, <2>1, <2>3, <2>4, <2>5, <2>6
  <1> QED
    BY <1>5, <1>6

LEMMA CompleteStep ==
    ASSUME IInv, NEW r \in Slots, Complete(r)
    PROVE  IInv'
  <1>1. Record(r) /\ DOMAIN req = Slots /\ Session
    BY DEF IInv, Records
  <1>2. /\ req[r].pc = "dispatched" /\ req' = [req EXCEPT ![r] = Free]
        /\ UNCHANGED <<guard, manual, mark, status, disowned, branch, entries, restoring,
                       boundary, epoch, model, bound>>
    BY DEF Complete, branchVars, sessionVars
  <1>3. /\ DOMAIN store' = {"generation", "active", "baselines"}
        /\ store'.generation = store.generation /\ store'.active = store.active
        /\ Baselines'
    <2>1. CASE UNCHANGED store
      BY <1>1, <2>1, BaselinesStay DEF Session
    <2>2. CASE ~UNCHANGED store
      BY <2>2, UsageRecorded DEF Complete
    <2> QED
      BY <2>1, <2>2
  <1>4. OnlyOf(r) /\ req'[r] = Free
    BY <1>1, <1>2 DEF OnlyOf
  <1>5. Around
    BY <1>1, <1>2, <1>3, Numbers DEF Around, StoreKept
  <1>6. Record(r)' /\ req'[r].pc = "free"
    <2>1. /\ DOMAIN Free = Fields /\ Free.pc = "free" /\ Free.generation = 0 /\ Free.model = None
          /\ Free.closed = FALSE /\ Free.aborted = FALSE /\ Free.failed = FALSE
          /\ Free.accounting = NoAccounting /\ Free.proposal = NoProposal
      BY DEF Free, Fields
    <2>2. DOMAIN NoProposal = {"covered", "by", "output"} /\ NoProposal.output = <<>>
      BY DEF NoProposal
    <2>3. 0 \in 0..guard'.next
      BY <1>1, <1>2, Numbers
    <2> QED
      BY <1>4, <2>1, <2>2, <2>3 DEF Record, Formed, Current, Proposed, Accounted, Phases
  <1>7. SameRole(r)
    BY <1>1, <1>2, <1>6 DEF SameRole, Record, Proposed
  <1>8. Records' /\ Compaction'
    BY <1>2, <1>4, <1>5, <1>6, <1>7, RecordsStay, CompactionStays
  <1>9. Session'
    BY <1>1, <1>2, <1>3 DEF Session
  <1>10. Grown' /\ BoundaryIsOnBranch'
    BY <1>2, BranchStays DEF Bounded
  <1> QED
    BY <1>3, <1>8, <1>9, <1>10 DEF IInv

-----------------------------------------------------------------------------
(* Compaction and its commit.                                              *)

\* Nobody begins or ends a compaction.
LEMMA MarkStays ==
    ASSUME IInv, UNCHANGED <<mark, disowned, manual>>, Compacting' = Compacting
    PROVE  Marked' /\ MarkHasOwner'
  <1>1. Running' = Running
    BY DEF Running
  <1> QED
    BY <1>1 DEF IInv, Compaction, Marked, MarkHasOwner

\* The mark is cleared when a compaction ends: either nothing runs now, or
\* whatever does is disowned.
LEMMA MarkCleared ==
    ASSUME IInv, NEW own, ClearMark(own), Running' \subseteq Running \ own
    PROVE  Marked' /\ MarkHasOwner' /\ mark' = "idle" /\ disowned' \in BOOLEAN
  <1>1. mark' = "idle" /\ disowned' = (disowned \/ Running \ own # {})
    BY DEF ClearMark
  <1>2. disowned' \in BOOLEAN
    BY <1>1 DEF IInv, Session
  <1>3. disowned' \/ Running' = {}
    BY <1>1
  <1> QED
    BY <1>1, <1>2, <1>3 DEF Marked, MarkHasOwner

LEMMA BeginCompactionStep ==
    ASSUME IInv, NEW r \in Slots, BeginCompaction(r)
    PROVE  IInv'
  <1>1. Record(r) /\ DOMAIN req = Slots /\ Session
    BY DEF IInv, Records
  <1> DEFINE p == [NoProposal EXCEPT !.covered = Leaf(branch)]
             x == req'[r]
  <1>2. /\ req[r].pc = "estimating" /\ mark = "idle" /\ mark' = "pending" /\ status' = TRUE
        /\ req' = [req EXCEPT ![r].pc = "compacting", ![r].proposal = p]
        /\ UNCHANGED <<guard, manual, store, disowned, branch, entries, restoring,
                       boundary, epoch, model, bound>>
    BY DEF BeginCompaction, ShouldCreateAutomaticCheckpoint, IsBusy, branchVars, sessionVars
  <1>3. DOMAIN p = {"covered", "by", "output"} /\ p.output = <<>>
    BY DEF NoProposal
  <1> HIDE DEF p
  <1>4. /\ OnlyOf(r) /\ DOMAIN x = Fields /\ x.pc = "compacting"
        /\ x.generation = req[r].generation
        /\ x.model = req[r].model /\ x.closed = req[r].closed /\ x.aborted = req[r].aborted
        /\ x.failed = req[r].failed /\ x.epoch = req[r].epoch
        /\ x.accounting = req[r].accounting
        /\ x.proposal = p /\ x.identity = req[r].identity
    BY <1>1, <1>2 DEF OnlyOf, Record, Formed, Fields
  <1> HIDE DEF x
  <1>5. Formed(r)'
    BY <1>1, <1>2, <1>3, <1>4 DEF x, Formed, Record, Phases
  <1>6. Current(r)' /\ Proposed(r)' /\ Accounted(r)'
    BY <1>1, <1>2, <1>3, <1>4 DEF x, Current, Proposed, Accounted, Record
  <1>7. Records'
    BY <1>1, <1>2, <1>4, <1>5, <1>6, RecordsStay, AroundStays DEF Record
  <1>8. Compaction'
    <2>1. Compacting' = Compacting \cup {r}
      BY <1>4 DEF x, Compacting, OnlyOf
    <2>2. Running' = Running \cup {r}
      BY <1>2, <2>1 DEF Running
    <2>3. disowned \/ Running = {}
      BY <1>2 DEF IInv, Compaction, Marked
    <2>4. Marked'
      BY <1>2, <2>2, <2>3 DEF Marked
    <2>5. MarkHasOwner' /\ StatusHasOwner'
      BY <1>2, <1>4, <2>1 DEF x, MarkHasOwner, StatusHasOwner
    <2> QED
      BY <2>4, <2>5 DEF Compaction
  <1>9. Session'
    BY <1>1, <1>2 DEF Session
  <1>10. Grown' /\ BoundaryIsOnBranch'
    BY <1>2, BranchStays DEF Bounded
  <1>11. Baselines'
    BY <1>2, BaselinesStay
  <1> QED
    BY <1>7, <1>8, <1>9, <1>10, <1>11 DEF IInv

LEMMA EndsCompacting ==
    ASSUME IInv, NEW r \in Slots, OnlyOf(r), req'[r].pc # "compacting", ClearMark({r}),
           UNCHANGED manual
    PROVE  Marked' /\ MarkHasOwner' /\ mark' = "idle" /\ disowned' \in BOOLEAN
  <1>1. Compacting' = Compacting \ {r}
    BY DEF Compacting, OnlyOf
  <1>2. Running' \subseteq Running \ {r}
    BY <1>1, RequestAssumption DEF Running
  <1> QED
    BY <1>2, MarkCleared

LEMMA CompactionFailsStep ==
    ASSUME IInv, NEW r \in Slots, CompactionFails(r)
    PROVE  IInv'
  <1>1. Record(r) /\ DOMAIN req = Slots /\ Session
    BY DEF IInv, Records
  <1>2. /\ req[r].pc = "compacting" /\ status' = FALSE /\ req' = HookFails(r) /\ ClearMark({r})
        /\ UNCHANGED <<guard, manual, store, branch, entries, restoring, boundary, epoch, model,
                       bound>>
    BY DEF CompactionFails, branchVars, sessionVars
  <1>3. OnlyOf(r) /\ Record(r)' /\ req'[r].pc = "answered"
    BY <1>2, HookFailsStep
  <1>4. Records'
    BY <1>1, <1>2, <1>3, RecordsStay, AroundStays
  <1>5. Marked' /\ MarkHasOwner' /\ mark' = "idle" /\ disowned' \in BOOLEAN
    BY <1>2, <1>3, EndsCompacting
  <1>6. Compaction'
    BY <1>2, <1>5 DEF Compaction, StatusHasOwner
  <1>7. Session'
    BY <1>1, <1>2, <1>5 DEF Session
  <1>8. Grown' /\ BoundaryIsOnBranch'
    BY <1>2, BranchStays DEF Bounded
  <1>9. Baselines'
    BY <1>2, BaselinesStay
  <1> QED
    BY <1>4, <1>6, <1>7, <1>8, <1>9 DEF IInv

LEMMA CompactedStep ==
    ASSUME IInv, NEW r \in Slots, Compacted(r)
    PROVE  IInv'
  <1>1. Record(r) /\ DOMAIN req = Slots /\ Session
    BY DEF IInv, Records
  <1>2. /\ req[r].pc = "compacting" /\ ClearMark({r})
        /\ UNCHANGED <<guard, manual, status, branch, entries, restoring, boundary, epoch, model,
                       bound>>
    BY DEF Compacted, branchVars, sessionVars
  <1>3. PICK output \in RemoteOutputs(req[r].replay, req[r].identity) :
          /\ ValidateCompactionOutput(output)
          /\ store' = ContextAccounting(InvalidateContextAccounting(store), req[r].identity)
          /\ req' = [Approve(r, output) EXCEPT
                       ![r].accounting = [generation |-> store'.generation, input |-> output],
                       ![r].proposal.by = req[r].identity, ![r].proposal.output = output]
    BY DEF Compacted
  <1>4. output # <<>>
    BY <1>3 DEF ValidateCompactionOutput
  <1>5. /\ DOMAIN store' = {"generation", "active", "baselines"} /\ store'.active = req[r].identity
        /\ store'.generation \in Nat /\ store'.generation > store.generation
        /\ store'.baselines = {}
    <2> DEFINE s == InvalidateContextAccounting(store)
    <2>1. store' = ContextAccounting(s, req[r].identity)
      BY <1>3
    <2>2. /\ DOMAIN s = {"generation", "active", "baselines"} /\ s.generation = store.generation + 1
          /\ s.baselines = {}
      BY <1>1, Invalidated DEF Session
    <2> HIDE DEF s
    <2>3. s.generation \in Nat /\ store.generation \in Nat
      BY <1>1, <2>2, Numbers
    <2> QED
      BY <2>1, <2>2, <2>3, AccountingRead
  <1> DEFINE g == [generation |-> store'.generation, input |-> output]
             i == req[r].identity
             a == Approve(r, output)
             x == req'[r]
  <1>6. g.generation = store'.generation
    OBVIOUS
  <1>7. /\ DOMAIN a = Slots /\ DOMAIN a[r] = Fields /\ a[r].pc = "answered"
        /\ a[r].generation = req[r].generation /\ a[r].model = req[r].model
        /\ a[r].closed = req[r].closed /\ a[r].aborted = req[r].aborted
        /\ a[r].failed = req[r].failed /\ a[r].epoch = req[r].epoch
        /\ a[r].identity = req[r].identity /\ a[r].proposal = req[r].proposal
        /\ \A s \in Slots \ {r} : a[s] = req[s]
    BY <1>1 DEF Approve, Record, Formed, Fields
  <1>8. req' = [a EXCEPT ![r].accounting = g, ![r].proposal.by = i, ![r].proposal.output = output]
    BY <1>3
  <1> HIDE DEF g, i, a
  <1>9. DOMAIN req[r].proposal = {"covered", "by", "output"}
    BY <1>1 DEF Record, Formed
  <1>10. /\ OnlyOf(r) /\ DOMAIN x = Fields /\ x.pc = "answered" /\ x.generation = req[r].generation
         /\ x.model = req[r].model /\ x.closed = req[r].closed /\ x.aborted = req[r].aborted
         /\ x.failed = req[r].failed /\ x.epoch = req[r].epoch /\ x.accounting = g
         /\ x.identity = req[r].identity
         /\ DOMAIN x.proposal = {"covered", "by", "output"} /\ x.proposal.output = output
    BY <1>7, <1>8, <1>9 DEF OnlyOf, Fields
  <1> HIDE DEF x
  <1>11. Formed(r)'
    BY <1>1, <1>2, <1>10 DEF x, Formed, Record, Phases
  <1>12. Current(r)' /\ Proposed(r)'
    BY <1>1, <1>2, <1>10 DEF x, Current, Proposed, Record
  <1>13. Accounted(r)'
    BY <1>1, <1>2, <1>5, <1>6, <1>10 DEF x, Accounted, Record
  <1>14. Around
    BY <1>1, <1>2, <1>5, Numbers DEF Around, StoreKept
  <1>15. Records'
    BY <1>10, <1>11, <1>12, <1>13, <1>14, RecordsStay DEF Record
  <1>16. Marked' /\ MarkHasOwner' /\ mark' = "idle" /\ disowned' \in BOOLEAN
    BY <1>2, <1>10, EndsCompacting DEF x
  <1>17. StatusHasOwner'
    BY <1>4, <1>10 DEF x, StatusHasOwner
  <1>18. Session'
    BY <1>1, <1>2, <1>5, <1>16 DEF Session
  <1>19. Grown' /\ BoundaryIsOnBranch'
    BY <1>2, BranchStays DEF Bounded
  <1>20. Baselines'
    BY <1>5, BaselinesStay
  <1> QED
    BY <1>15, <1>16, <1>17, <1>18, <1>19, <1>20 DEF IInv, Compaction

LEMMA Appended ==
    ASSUME Grown, entries \in Nat, NEW e, e.id = entries + 1,
           branch' = Append(branch, e), entries' = entries + 1
    PROVE  Grown' /\ ToSet(branch') = ToSet(branch) \cup {e}
  <1>1. PICK S : branch \in Seq(S)
    BY DEF Grown
  <1>2. branch \in Seq(S \cup {e})
    BY <1>1
  <1>3. branch' \in Seq(S \cup {e})
    BY <1>2
  <1>4. /\ DOMAIN branch = 1..Len(branch) /\ DOMAIN branch' = 1..(Len(branch) + 1)
        /\ Len(branch) \in Nat
        /\ \A i \in 1..Len(branch) : branch'[i] = branch[i]
        /\ branch'[Len(branch) + 1] = e
    BY <1>2, <1>3
  <1>5. \A i \in DOMAIN branch' : branch'[i].id \in 1..entries'
    <2> TAKE i \in DOMAIN branch'
    <2>1. CASE i = Len(branch) + 1
      BY <1>4, <2>1
    <2>2. CASE i \in 1..Len(branch)
      BY <1>4, <2>2 DEF Grown
    <2> QED
      BY <1>4, <2>1, <2>2
  <1>6. ToSet(branch') = ToSet(branch) \cup {e}
    BY <1>4 DEF ToSet
  <1> QED
    BY <1>3, <1>5, <1>6 DEF Grown

\* A checkpoint is committed: it is on the branch, and the boundary names it.
LEMMA Committed ==
    ASSUME IInv, NEW p, branch' = Append(branch, Checkpoint(entries + 1, p)),
           entries' = entries + 1, boundary' = entries + 1
    PROVE  /\ Grown' /\ BoundaryIsOnBranch'
           /\ entries' \in Nat /\ boundary' \in 0..entries'
  <1> DEFINE e == Checkpoint(entries + 1, p)
  <1>1. e.id = entries + 1 /\ e.kind = "checkpoint"
    BY DEF Checkpoint
  <1>2. entries \in Nat /\ Grown
    BY DEF IInv, Session
  <1> HIDE DEF e
  <1>3. Grown' /\ ToSet(branch') = ToSet(branch) \cup {e}
    BY <1>1, <1>2, Appended DEF e
  <1>4. BoundaryIsOnBranch'
    BY <1>1, <1>3 DEF BoundaryIsOnBranch
  <1> QED
    BY <1>2, <1>3, <1>4

LEMMA CommitStep ==
    ASSUME IInv, NEW r \in Slots, Commit(r)
    PROVE  IInv'
  <1>1. Record(r) /\ DOMAIN req = Slots /\ Session
    BY DEF IInv, Records
  <1>2. /\ req[r].pc = "answered" /\ status' = FALSE
        /\ req' = [req EXCEPT ![r].proposal = NoProposal]
        /\ branch' = Append(branch, Checkpoint(entries + 1, req[r].proposal))
        /\ entries' = entries + 1 /\ boundary' = entries + 1
        /\ UNCHANGED <<guard, manual, store, mark, disowned, restoring, epoch, model, bound>>
    BY DEF Commit, sessionVars
  <1> DEFINE x == req'[r]
  <1>3. /\ OnlyOf(r) /\ DOMAIN x = Fields /\ x.pc = "answered" /\ x.generation = req[r].generation
        /\ x.model = req[r].model /\ x.closed = req[r].closed /\ x.aborted = req[r].aborted
        /\ x.failed = req[r].failed /\ x.epoch = req[r].epoch
        /\ x.accounting = req[r].accounting
        /\ x.proposal = NoProposal /\ x.identity = req[r].identity
    BY <1>1, <1>2 DEF OnlyOf, Record, Formed, Fields
  <1> HIDE DEF x
  <1>4. DOMAIN NoProposal = {"covered", "by", "output"}
    BY DEF NoProposal
  <1>5. Formed(r)'
    BY <1>1, <1>2, <1>3, <1>4 DEF x, Formed, Record, Phases
  <1>6. Current(r)' /\ Proposed(r)' /\ Accounted(r)'
    BY <1>1, <1>2, <1>3 DEF x, Current, Proposed, Accounted, Record
  <1>7. Records'
    BY <1>1, <1>2, <1>3, <1>5, <1>6, RecordsStay, AroundStays DEF Record
  <1>8. Marked' /\ MarkHasOwner'
    <2>1. Compacting' = Compacting
      BY <1>2, <1>3 DEF x, Compacting, OnlyOf
    <2> QED
      BY <1>2, <2>1, MarkStays
  <1>9. StatusHasOwner'
    BY <1>2 DEF StatusHasOwner
  <1>10. Grown' /\ BoundaryIsOnBranch' /\ entries' \in Nat /\ boundary' \in 0..entries'
    BY <1>2, Committed
  <1>11. Session'
    BY <1>1, <1>2, <1>10 DEF Session
  <1>12. Baselines'
    BY <1>2, BaselinesStay
  <1> QED
    BY <1>7, <1>8, <1>9, <1>10, <1>11, <1>12 DEF IInv, Compaction

LEMMA IndeterminateStep ==
    ASSUME IInv, NEW r \in Slots, Indeterminate(r)
    PROVE  IInv'
  <1>1. Record(r) /\ DOMAIN req = Slots /\ Session
    BY DEF IInv, Records
  <1>2. /\ req[r].pc = "answered" /\ status' = FALSE /\ req' = [req EXCEPT ![r] = Free]
        /\ UNCHANGED <<guard, manual, store, mark, disowned, branch, entries, restoring,
                       boundary, epoch, model, bound>>
    BY DEF Indeterminate, Rejected, branchVars, sessionVars
  <1>3. OnlyOf(r) /\ req'[r] = Free
    BY <1>1, <1>2 DEF OnlyOf
  <1>4. Record(r)' /\ req'[r].pc = "free"
    BY <1>1, <1>2, <1>3, FreeIsRecord
  <1>5. Records'
    BY <1>1, <1>2, <1>3, <1>4, RecordsStay, AroundStays
  <1>6. Marked' /\ MarkHasOwner'
    <2>1. Compacting' = Compacting
      BY <1>2, <1>3, <1>4 DEF Compacting, OnlyOf
    <2> QED
      BY <1>2, <2>1, MarkStays
  <1>7. StatusHasOwner'
    BY <1>2 DEF StatusHasOwner
  <1>8. Session'
    BY <1>1, <1>2 DEF Session
  <1>9. Grown' /\ BoundaryIsOnBranch'
    BY <1>2, BranchStays DEF Bounded
  <1>10. Baselines'
    BY <1>2, BaselinesStay
  <1> QED
    BY <1>5, <1>6, <1>7, <1>8, <1>9, <1>10 DEF IInv, Compaction

-----------------------------------------------------------------------------
(* Manual compaction.                                                      *)

ManualFields == {"pc", "overlay", "branch", "kept", "aborted", "identity", "input", "proposal"}

LEMMA IdleIsManual == DOMAIN Idle = ManualFields /\ Idle.pc = "idle" /\ Idle.overlay = FALSE
  BY DEF Idle, ManualFields

LEMMA SettlingIsManual ==
    ASSUME NEW overlay \in BOOLEAN, NEW m, m = [Idle EXCEPT !.pc = "settling", !.overlay = overlay]
    PROVE  DOMAIN m = ManualFields /\ m.pc = "settling" /\ m.overlay = overlay
  BY DEF Idle, ManualFields

\* A step of manual compaction that leaves the store and the branch alone.
LEMMA ManualQuiet ==
    ASSUME IInv, UNCHANGED <<guard, req, store, branch, entries, boundary, restoring, epoch, model,
                             bound>>,
           DOMAIN manual' = ManualFields /\ manual'.overlay \in BOOLEAN,
           manual'.pc \in {"idle", "resolving", "executing", "returning", "settling"},
           mark' \in {"idle", "pending", "requested", "executing"}, disowned' \in BOOLEAN,
           status' = status \/ status' = FALSE,
           Marked' /\ MarkHasOwner'
    PROVE  IInv'
  <1>1. Session
    BY DEF IInv
  <1>2. Records'
    BY <1>1, AllRecordsStay, AroundStays
  <1>3. Compaction'
    BY DEF IInv, Compaction, StatusHasOwner
  <1>4. Session'
    BY <1>1 DEF Session, ManualFields
  <1>5. Grown' /\ BoundaryIsOnBranch'
    BY BranchStays DEF Bounded
  <1>6. Baselines'
    BY BaselinesStay
  <1> QED
    BY <1>2, <1>3, <1>4, <1>5, <1>6 DEF IInv

LEMMA ManualClears ==
    ASSUME IInv, UNCHANGED req, manual'.pc # "executing", ClearMark({"manual"})
    PROVE  Marked' /\ MarkHasOwner' /\ mark' = "idle" /\ disowned' \in BOOLEAN
  <1>1. Compacting' = Compacting /\ Compacting \subseteq Slots
    BY DEF Compacting
  <1>2. Running' \subseteq Running \ {"manual"}
    BY <1>1, RequestAssumption DEF Running
  <1> QED
    BY <1>2, MarkCleared

\* Manual compaction moves on without beginning or ending an execution.
LEMMA ManualMoves ==
    ASSUME IInv, UNCHANGED <<req, mark, disowned>>,
           manual'.pc = "executing" <=> manual.pc = "executing",
           mark = "requested" => manual'.pc # "idle" /\ manual'.overlay
    PROVE  Marked' /\ MarkHasOwner'
  <1>1. Compacting' = Compacting
    BY DEF Compacting
  <1>2. Running' = Running
    BY <1>1 DEF Running
  <1> QED
    BY <1>1, <1>2 DEF IInv, Compaction, Marked, MarkHasOwner

LEMMA ManualStartStep ==
    ASSUME IInv, NEW overlay \in BOOLEAN, ManualStart(overlay)
    PROVE  IInv'
  <1>1. Session /\ Compaction
    BY DEF IInv
  <1>2. /\ manual.pc = "idle"
        /\ overlay => mark = "idle"
        /\ mark' = IF overlay THEN "requested" ELSE mark
        /\ UNCHANGED <<guard, req, store, status, disowned, branch, entries, boundary, restoring,
                       epoch, model, bound>>
    BY DEF ManualStart, IsBusy, branchVars
  <1>3. PICK kept \in 1..Len(branch) :
          manual' = [Idle EXCEPT !.pc = "resolving", !.overlay = overlay, !.branch = branch,
                                 !.kept = kept, !.identity = CurrentIdentity]
    BY DEF ManualStart
  <1>4. DOMAIN manual' = ManualFields /\ manual'.pc = "resolving" /\ manual'.overlay = overlay
    BY <1>3 DEF Idle, ManualFields
  <1>5. mark # "requested"
    BY <1>1, <1>2 DEF Compaction, MarkHasOwner
  <1>6. CASE ~overlay
    BY <1>1, <1>2, <1>4, <1>5, <1>6, ManualMoves, ManualQuiet DEF Session
  <1>7. CASE overlay
    <2>1. mark = "idle" /\ mark' = "requested"
      BY <1>2, <1>7
    <2>2. disowned \/ Running = {}
      BY <1>1, <2>1 DEF Compaction, Marked
    <2>3. Compacting' = Compacting
      BY <1>2 DEF Compacting
    <2>4. Running' = Running
      BY <1>2, <1>4, <2>3 DEF Running
    <2>5. Marked' /\ MarkHasOwner'
      BY <1>2, <1>4, <1>7, <2>1, <2>2, <2>4 DEF Marked, MarkHasOwner
    <2> QED
      BY <1>1, <1>2, <1>4, <2>1, <2>5, ManualQuiet DEF Session
  <1> QED
    BY <1>6, <1>7

LEMMA BeginExecutionStep ==
    ASSUME IInv, BeginExecution
    PROVE  IInv'
  <1>1. Session /\ Compaction
    BY DEF IInv
  <1> DEFINE p == [NoProposal EXCEPT !.by = manual.identity,
                                     !.covered = manual.branch[manual.kept - 1].id]
             n == ManualInput
  <1>2. /\ manual.pc = "resolving" /\ mark \notin {"pending", "executing"} /\ mark' = "executing"
        /\ manual' = [manual EXCEPT !.pc = "executing", !.input = n, !.proposal = p]
        /\ UNCHANGED <<guard, req, store, status, disowned, branch, entries, boundary, restoring,
                       epoch, model, bound>>
    BY DEF BeginExecution, branchVars, sessionVars
  <1> HIDE DEF p, n
  <1>3. /\ DOMAIN manual' = ManualFields /\ manual'.pc = "executing"
        /\ manual'.overlay = manual.overlay
    BY <1>1, <1>2 DEF Session, ManualFields
  <1>4. disowned \/ Running = {}
    BY <1>1, <1>2 DEF Compaction, Marked
  <1>5. Compacting' = Compacting
    BY <1>2 DEF Compacting
  <1>6. Running' = Running \cup {"manual"}
    BY <1>2, <1>3, <1>5 DEF Running
  <1>7. Marked' /\ MarkHasOwner'
    BY <1>2, <1>3, <1>4, <1>6 DEF Marked, MarkHasOwner
  <1> QED
    BY <1>1, <1>2, <1>3, <1>7, ManualQuiet DEF Session

LEMMA ManualEndsStep ==
    ASSUME IInv, ManualCancelled \/ ManualFails
    PROVE  IInv'
  <1>1. Session /\ Compaction
    BY DEF IInv
  <1>2. /\ manual.pc \in {"resolving", "executing"}
        /\ manual' = [Idle EXCEPT !.pc = "settling", !.overlay = manual.overlay]
        /\ (manual.pc = "resolving" /\ UNCHANGED <<mark, disowned>>) \/ ClearMark({"manual"})
        /\ UNCHANGED <<guard, req, store, status, branch, entries, boundary, restoring,
                       epoch, model, bound>>
    BY DEF ManualCancelled, ManualFails, branchVars, sessionVars
  <1>3. DOMAIN manual' = ManualFields /\ manual'.pc = "settling" /\ manual'.overlay = manual.overlay
    BY <1>1, <1>2, SettlingIsManual DEF Session
  <1>4. CASE manual.pc = "resolving" /\ UNCHANGED <<mark, disowned>>
    <2>1. Marked' /\ MarkHasOwner'
      BY <1>1, <1>2, <1>3, <1>4, ManualMoves DEF Compaction, MarkHasOwner
    <2> QED
      BY <1>1, <1>2, <1>3, <1>4, <2>1, ManualQuiet DEF Session
  <1>5. CASE ClearMark({"manual"})
    <2>1. Marked' /\ MarkHasOwner' /\ mark' = "idle" /\ disowned' \in BOOLEAN
      BY <1>2, <1>3, <1>5, ManualClears
    <2> QED
      BY <1>1, <1>2, <1>3, <2>1, ManualQuiet DEF Session
  <1> QED
    BY <1>2, <1>4, <1>5

LEMMA ManualAbortStep ==
    ASSUME IInv, ManualAbort
    PROVE  IInv'
  <1>1. Session /\ Compaction
    BY DEF IInv
  <1>2. /\ manual' = [manual EXCEPT !.aborted = TRUE]
        /\ UNCHANGED <<guard, req, store, mark, status, disowned, branch, entries, boundary,
                       restoring, epoch, model, bound>>
    BY DEF ManualAbort, compactionVars, branchVars
  <1>3. /\ DOMAIN manual' = ManualFields /\ manual'.pc = manual.pc
        /\ manual'.overlay = manual.overlay
    BY <1>1, <1>2 DEF Session, ManualFields
  <1>4. Marked' /\ MarkHasOwner'
    BY <1>1, <1>2, <1>3, ManualMoves DEF Compaction, MarkHasOwner
  <1> QED
    BY <1>1, <1>2, <1>3, <1>4, ManualQuiet DEF Session

LEMMA ManualSettleStep ==
    ASSUME IInv, ManualSettle
    PROVE  IInv'
  <1>1. Session /\ Compaction
    BY DEF IInv
  <1>2. /\ manual.pc = "settling" /\ manual' = Idle
        /\ IF manual.overlay THEN ClearMark({"manual"}) ELSE UNCHANGED <<mark, disowned>>
        /\ UNCHANGED <<guard, req, store, status, branch, entries, boundary, restoring,
                       epoch, model, bound>>
    BY DEF ManualSettle, branchVars, sessionVars
  <1>3. DOMAIN manual' = ManualFields /\ manual'.pc = "idle" /\ manual'.overlay = FALSE
    BY <1>2, IdleIsManual
  <1>4. CASE manual.overlay
    <2>1. Marked' /\ MarkHasOwner' /\ mark' = "idle" /\ disowned' \in BOOLEAN
      BY <1>2, <1>3, <1>4, ManualClears
    <2> QED
      BY <1>1, <1>2, <1>3, <2>1, ManualQuiet DEF Session
  <1>5. CASE ~manual.overlay
    <2>1. mark # "requested" /\ UNCHANGED <<mark, disowned>>
      BY <1>1, <1>2, <1>5 DEF Compaction, MarkHasOwner
    <2>2. Marked' /\ MarkHasOwner'
      BY <1>2, <1>3, <2>1, ManualMoves
    <2> QED
      BY <1>1, <1>2, <1>3, <2>1, <2>2, ManualQuiet DEF Session
  <1> QED
    BY <1>4, <1>5

LEMMA ManualCompactedStep ==
    ASSUME IInv, ManualCompacted
    PROVE  IInv'
  <1>1. Session /\ Compaction
    BY DEF IInv
  <1>2. /\ store' = InvalidateContextAccounting(store) /\ ClearMark({"manual"})
        /\ UNCHANGED <<guard, req, status, branch, entries, boundary, restoring,
                       epoch, model, bound>>
    BY DEF ManualCompacted, branchVars, sessionVars
  <1>3. PICK output :
          manual' = [manual EXCEPT !.pc = "returning", !.input = <<>>, !.proposal.output = output]
    BY DEF ManualCompacted
  <1>4. /\ DOMAIN manual' = ManualFields /\ manual'.pc = "returning"
        /\ manual'.overlay = manual.overlay
    BY <1>1, <1>3 DEF Session, ManualFields
  <1>5. Marked' /\ MarkHasOwner' /\ mark' = "idle" /\ disowned' \in BOOLEAN
    BY <1>2, <1>4, ManualClears
  <1>6. /\ DOMAIN store' = {"generation", "active", "baselines"}
        /\ store'.generation = store.generation + 1 /\ store'.baselines = {}
    BY <1>1, <1>2, Invalidated DEF Session
  <1>7. store'.generation \in Nat /\ store'.generation > store.generation
    BY <1>1, <1>6, Numbers
  <1>8. Around
    BY <1>1, <1>2, <1>7, Numbers DEF Around, StoreKept
  <1>9. Records'
    BY <1>2, <1>8, AllRecordsStay
  <1>10. StatusHasOwner'
    BY <1>1, <1>2 DEF Compaction, StatusHasOwner
  <1>11. Session'
    BY <1>1, <1>2, <1>4, <1>5, <1>6, <1>7 DEF Session, ManualFields
  <1>12. Grown' /\ BoundaryIsOnBranch'
    BY <1>2, BranchStays DEF Bounded
  <1>13. Baselines'
    BY <1>6, BaselinesStay
  <1> QED
    BY <1>5, <1>9, <1>10, <1>11, <1>12, <1>13 DEF IInv, Compaction

LEMMA ManualCommitStep ==
    ASSUME IInv, ManualCommit
    PROVE  IInv'
  <1>1. Session /\ Compaction
    BY DEF IInv
  <1>2. /\ manual.pc = "returning" /\ status' = FALSE
        /\ manual' = [Idle EXCEPT !.pc = "settling", !.overlay = manual.overlay]
        /\ UNCHANGED <<guard, req, store, mark, disowned, restoring, epoch, model, bound>>
    BY DEF ManualCommit, sessionVars
  <1>3. DOMAIN manual' = ManualFields /\ manual'.pc = "settling" /\ manual'.overlay = manual.overlay
    BY <1>1, <1>2, SettlingIsManual DEF Session
  <1>4. Marked' /\ MarkHasOwner'
    BY <1>1, <1>2, <1>3, ManualMoves DEF Compaction, MarkHasOwner
  <1>5. Records'
    BY <1>1, <1>2, AllRecordsStay, AroundStays
  <1>6. Grown' /\ BoundaryIsOnBranch' /\ entries' \in Nat /\ boundary' \in 0..entries'
    <2>1. CASE UNCHANGED <<entries, branch, committed, boundary>>
      BY <1>1, <1>2, <2>1, BranchStays DEF Bounded, Session
    <2>2. CASE ~UNCHANGED <<entries, branch, committed, boundary>>
      <3>1. /\ entries' = entries + 1 /\ boundary' = entries + 1
            /\ branch' = Append(branch, Checkpoint(entries + 1, manual.proposal))
        BY <2>2 DEF ManualCommit
      <3> QED
        BY <3>1, Committed
    <2> QED
      BY <2>1, <2>2
  <1>7. StatusHasOwner'
    BY <1>2 DEF StatusHasOwner
  <1>8. Session'
    BY <1>1, <1>2, <1>3, <1>6 DEF Session, ManualFields
  <1>9. Baselines'
    BY <1>2, BaselinesStay
  <1> QED
    BY <1>4, <1>5, <1>6, <1>7, <1>8, <1>9 DEF IInv, Compaction

-----------------------------------------------------------------------------
(* The session.                                                            *)

LEMMA AppendEntryStep ==
    ASSUME IInv, AppendEntry
    PROVE  IInv'
  <1>1. Session
    BY DEF IInv
  <1>2. /\ entries' = entries + 1
        /\ UNCHANGED <<guard, req, manual, store, mark, status, disowned, boundary, restoring,
                       epoch, model, bound>>
    BY DEF AppendEntry, compactionVars, sessionVars
  <1>3. PICK kind \in EntryKinds : branch' = Append(branch, Entry(entries + 1, kind))
    BY DEF AppendEntry
  <1> DEFINE e == Entry(entries + 1, kind)
  <1>4. e.id = entries + 1
    BY DEF Entry
  <1> HIDE DEF e
  <1>5. Grown' /\ ToSet(branch') = ToSet(branch) \cup {e}
    BY <1>1, <1>2, <1>3, <1>4, Appended DEF e, IInv, Session
  <1>6. BoundaryIsOnBranch'
    BY <1>2, <1>5 DEF IInv, BoundaryIsOnBranch
  <1>7. Records'
    BY <1>1, <1>2, AllRecordsStay, AroundStays
  <1>8. Compaction'
    <2>1. Compacting' = Compacting
      BY <1>2 DEF Compacting
    <2> QED
      BY <1>2, <2>1, MarkStays DEF IInv, Compaction, StatusHasOwner
  <1>9. entries' \in Nat /\ boundary' \in 0..entries'
    BY <1>1, <1>2 DEF Session
  <1>10. Session'
    BY <1>1, <1>2, <1>9 DEF Session
  <1>11. Baselines'
    BY <1>2, BaselinesStay
  <1> QED
    BY <1>5, <1>6, <1>7, <1>8, <1>10, <1>11 DEF IInv

\* invalidateAll closes every record that is open, so none belongs to a session.
LEMMA AllInvalidated ==
    ASSUME IInv, req' = InvalidateAll(req), guard'.next = guard.next,
           store'.generation = store.generation + 1
    PROVE  Records' /\ Compacting' = Compacting
  <1>1. DOMAIN req' = Slots
    BY DEF InvalidateAll
  <1>2. ASSUME NEW r \in Slots PROVE Record(r)' /\ req'[r].pc = req[r].pc
    <2>1. Record(r) /\ Session
      BY DEF IInv, Records
    <2> DEFINE x == req'[r]
               c == (req[r].pc \notin {"free", "preparing"} \/ req[r].closed)
    <2>2. x = [req[r] EXCEPT !.closed = c]
      BY DEF InvalidateAll
    <2>3. c \in BOOLEAN
      OBVIOUS
    <2>4. req[r].pc \notin {"free", "preparing"} => c = TRUE
      OBVIOUS
    <2> HIDE DEF c
    <2>5. /\ DOMAIN x = Fields /\ x.pc = req[r].pc /\ x.closed = c
          /\ x.generation = req[r].generation /\ x.model = req[r].model
          /\ x.aborted = req[r].aborted /\ x.failed = req[r].failed
          /\ x.accounting = req[r].accounting
          /\ x.proposal = req[r].proposal /\ x.identity = req[r].identity
      BY <2>1, <2>2 DEF Record, Formed, Fields
    <2> HIDE DEF x
    <2>6. Formed(r)'
      BY <2>1, <2>3, <2>5 DEF x, Formed, Record, Phases
    <2>7. Current(r)' /\ Proposed(r)'
      BY <2>1, <2>4, <2>5 DEF x, Current, Proposed, Record
    <2>8. Accounted(r)'
      BY <2>1, <2>5, Numbers DEF x, Accounted, Record
    <2> QED
      BY <2>5, <2>6, <2>7, <2>8 DEF x, Record
  <1> QED
    BY <1>1, <1>2 DEF Records, Compacting

\* A session start and the shutdown.
LEMMA RestartStep ==
    ASSUME IInv, req' = InvalidateAll(req), DisposeSession,
           guard' = guard \/ guard' = [guard EXCEPT !.disposed = TRUE],
           restoring' = restoring \/ restoring' = restoring + 1,
           UNCHANGED <<manual, branch, entries, boundary, model, bound>>
    PROVE  IInv'
  <1>1. Session
    BY DEF IInv
  <1>2. /\ DOMAIN store' = {"generation", "active", "baselines"}
        /\ store'.generation = store.generation + 1 /\ store'.baselines = {}
    <2> DEFINE s == InvalidateContextAccounting(store)
    <2>1. store' = [s EXCEPT !.active = NoIdentity]
      BY DEF DisposeSession, DisposeStore
    <2>2. /\ DOMAIN s = {"generation", "active", "baselines"}
          /\ s.generation = store.generation + 1 /\ s.baselines = {}
      BY <1>1, Invalidated DEF Session
    <2> HIDE DEF s
    <2> QED
      BY <2>1, <2>2
  <1>3. /\ DOMAIN guard' = {"next", "disposed"} /\ guard'.next = guard.next
        /\ guard'.disposed \in BOOLEAN
    BY <1>1 DEF Session
  <1>4. Records' /\ Compacting' = Compacting
    BY <1>2, <1>3, AllInvalidated
  <1>5. status' = FALSE /\ ClearMark({})
    BY DEF DisposeSession
  <1>6. Running' \subseteq Running \ {}
    BY <1>4 DEF Running
  <1>7. Marked' /\ MarkHasOwner' /\ mark' = "idle" /\ disowned' \in BOOLEAN
    BY <1>5, <1>6, MarkCleared
  <1>8. Compaction'
    BY <1>5, <1>7 DEF Compaction, StatusHasOwner
  <1>9. store'.generation \in Nat /\ restoring' \in Nat
    BY <1>1, <1>2, Numbers DEF Session
  <1>10. Session'
    BY <1>1, <1>2, <1>3, <1>5, <1>7, <1>9 DEF Session
  <1>11. restoring' = 0 => restoring = 0
    BY <1>1 DEF Session
  <1>12. Grown' /\ BoundaryIsOnBranch'
    BY <1>11 DEF IInv, Grown, BoundaryIsOnBranch
  <1>13. Baselines'
    BY <1>2, BaselinesStay
  <1> QED
    BY <1>4, <1>8, <1>10, <1>12, <1>13 DEF IInv

\* Another model, another branch: the usage is forgotten, the boundary restored later.
LEMMA SelectStep ==
    ASSUME IInv, ModelSelect \/ SessionTree
    PROVE  IInv'
  <1>1. Session
    BY DEF IInv
  <1>2. /\ store' = InvalidateContextAccounting(store) /\ restoring' = restoring + 1
        /\ model' \in Models
        /\ UNCHANGED <<guard, req, manual, mark, status, disowned, boundary, entries, epoch, bound>>
    BY <1>1 DEF ModelSelect, SessionTree, branchVars, Session
  <1>3. /\ DOMAIN store' = {"generation", "active", "baselines"}
        /\ store'.generation = store.generation + 1 /\ store'.baselines = {}
    BY <1>1, <1>2, Invalidated DEF Session
  <1>4. /\ store'.generation \in Nat /\ store'.generation > store.generation
        /\ restoring' \in Nat /\ restoring' # 0
    BY <1>1, <1>2, <1>3 DEF Session
  <1>5. Around
    BY <1>1, <1>2, <1>4, Numbers DEF Around, StoreKept
  <1>6. Records'
    BY <1>2, <1>5, AllRecordsStay
  <1>7. Compaction'
    <2>1. Compacting' = Compacting
      BY <1>2 DEF Compacting
    <2> QED
      BY <1>2, <2>1, MarkStays DEF IInv, Compaction, StatusHasOwner
  <1>8. Session'
    BY <1>1, <1>2, <1>3, <1>4 DEF Session
  <1>9. Grown'
    <2>1. CASE ModelSelect
      BY <2>1 DEF ModelSelect, branchVars, IInv, Grown
    <2>2. CASE SessionTree
      <3>1. PICK n \in 0..(Len(branch) - 1) : branch' = SubSeq(branch, 1, n)
        BY <2>2 DEF SessionTree
      <3>2. PICK S : branch \in Seq(S)
        BY DEF IInv, Grown
      <3>3. Len(branch) \in Nat /\ DOMAIN branch = 1..Len(branch) /\ n \in Nat /\ n <= Len(branch)
        BY <3>1, <3>2
      <3>4. branch' \in Seq(S) /\ Len(branch') = n /\ \A i \in 1..n : branch'[i] = branch[i]
        BY <3>1, <3>2, <3>3
      <3>5. \A i \in DOMAIN branch' : branch'[i].id \in 1..entries'
        BY <1>2, <3>3, <3>4 DEF IInv, Grown
      <3> QED
        BY <3>4, <3>5 DEF Grown
    <2> QED
      BY <2>1, <2>2
  <1>10. BoundaryIsOnBranch'
    BY <1>4 DEF BoundaryIsOnBranch
  <1>11. Baselines'
    BY <1>3, BaselinesStay
  <1> QED
    BY <1>6, <1>7, <1>8, <1>9, <1>10, <1>11 DEF IInv

\* The steps that touch nothing but the boundary and what bounds them.
LEMMA OtherStep ==
    ASSUME IInv, ChangeCredentials \/ RestoreBoundary \/ UNCHANGED vars
    PROVE  IInv'
  <1>1. Session
    BY DEF IInv
  <1>2. UNCHANGED <<guard, req, manual, store, mark, status, disowned, branch, entries, epoch,
                    model, bound>>
    BY DEF ChangeCredentials, RestoreBoundary, vars, compactionVars, branchVars, sessionVars
  <1>3. Bounded /\ restoring' \in Nat
    <2>1. CASE ChangeCredentials \/ UNCHANGED vars
      BY <1>1, <2>1 DEF ChangeCredentials, vars, branchVars, sessionVars, Bounded, Session
    <2>2. CASE RestoreBoundary
      <3>1. restoring' \in Nat
        BY <1>1, <2>2 DEF RestoreBoundary, Session
      <3> QED
        BY <2>2, <3>1 DEF RestoreBoundary, Bounded
    <2> QED
      BY <2>1, <2>2
  <1>4. Grown' /\ BoundaryIsOnBranch' /\ boundary' \in 0..entries'
    BY <1>2, <1>3, BranchStays
  <1>5. Records'
    BY <1>1, <1>2, AllRecordsStay, AroundStays
  <1>6. Compaction'
    <2>1. Compacting' = Compacting
      BY <1>2 DEF Compacting
    <2> QED
      BY <1>2, <2>1, MarkStays DEF IInv, Compaction, StatusHasOwner
  <1>7. Session'
    BY <1>1, <1>2, <1>3, <1>4 DEF Session
  <1>8. Baselines'
    BY <1>2, BaselinesStay
  <1> QED
    BY <1>4, <1>5, <1>6, <1>7, <1>8 DEF IInv

-----------------------------------------------------------------------------
(* The invariant.                                                          *)

LEMMA InitIInv == Init => IInv
  <1> SUFFICES ASSUME Init PROVE IInv
    OBVIOUS
  <1>1. Session
    <2>1. DOMAIN Idle = ManualFields /\ Idle.pc = "idle" /\ Idle.overlay = FALSE
      BY IdleIsManual
    <2>2. Len(InitialKinds) \in Nat /\ bound.requests \in Nat
      BY RequestAssumption DEF Init
    <2>3. /\ DOMAIN guard = {"next", "disposed"} /\ guard.next = 0 /\ guard.disposed = FALSE
          /\ DOMAIN store = {"generation", "active", "baselines"} /\ store.generation = 0
      BY DEF Init
    <2>4. 0 \in 0..bound.requests /\ 0 \in 0..Len(InitialKinds)
      BY <2>2
    <2> QED
      BY <2>1, <2>2, <2>3, <2>4, RequestAssumption DEF Init, Session, ManualFields
  <1>2. Records
    <2>1. /\ DOMAIN Free = Fields /\ Free.pc = "free" /\ Free.generation = 0 /\ Free.model = None
          /\ Free.closed = FALSE /\ Free.aborted = FALSE /\ Free.failed = FALSE
          /\ Free.accounting = NoAccounting /\ Free.proposal = NoProposal
      BY DEF Free, Fields
    <2>2. DOMAIN NoProposal = {"covered", "by", "output"} /\ NoProposal.output = <<>>
      BY DEF NoProposal
    <2>3. 0 \in 0..guard.next
      BY <1>1, Numbers
    <2>4. req = [r \in Slots |-> Free]
      BY DEF Init
    <2>5. ASSUME NEW r \in Slots PROVE Record(r)
      BY <2>1, <2>2, <2>3, <2>4 DEF Record, Formed, Current, Proposed, Accounted, Phases
    <2> QED
      BY <2>4, <2>5 DEF Records
  <1>3. Grown
    <2> DEFINE S == {Entry(i, InitialKinds[i]) : i \in DOMAIN InitialKinds}
    <2>1. Len(InitialKinds) \in Nat /\ DOMAIN InitialKinds = 1..Len(InitialKinds)
      BY RequestAssumption
    <2>2. branch = [i \in 1..Len(InitialKinds) |-> Entry(i, InitialKinds[i])]
      BY <2>1 DEF Init
    <2>3. branch \in Seq(S)
      BY <2>1, <2>2
    <2>4. \A i \in DOMAIN branch : branch[i].id \in 1..entries
      BY <2>1, <2>2 DEF Init, Entry
    <2> QED
      BY <2>3, <2>4 DEF Grown
  <1>4. Compaction
    <2>1. Compacting = {}
      BY DEF Init, Compacting, Free
    <2>2. Running = {}
      BY <2>1, IdleIsManual DEF Init, Running
    <2> QED
      BY <2>1, <2>2, IdleIsManual DEF Init, Compaction, Marked, MarkHasOwner, StatusHasOwner
  <1>5. Baselines /\ BoundaryIsOnBranch
    BY DEF Init, Baselines, BaselinesAreOfActiveIdentity, BoundaryIsOnBranch
  <1> QED
    BY <1>1, <1>2, <1>3, <1>4, <1>5 DEF IInv

LEMMA RequestStepKeeps ==
    ASSUME IInv, NEW r \in Slots, Start(r) \/ RequestStep(r) \/ Replace(r) \/ Abort(r)
    PROVE  IInv'
  BY StartStep, OpenStep, ScanStep, ApproveSummaryStep, AccountStep, EstimatedStep,
     BeginCompactionStep, CompactedStep, CompactionFailsStep, HookErrorStep, CommitStep,
     IndeterminateStep, DispatchStep, CompleteStep, FailStep
     DEF RequestStep

LEMMA SessionStepKeeps ==
    ASSUME IInv, SessionEvent \/ RestoreBoundary
    PROVE  IInv'
  <1>1. CASE SessionStart
    BY <1>1, RestartStep DEF SessionStart, branchVars
  <1>2. CASE Shutdown
    BY <1>2, RestartStep DEF Shutdown, branchVars
  <1> QED
    BY <1>1, <1>2, AppendEntryStep, SelectStep, OtherStep DEF SessionEvent

LEMMA NextIInv == IInv /\ [Next]_vars => IInv'
  <1> SUFFICES ASSUME IInv, [Next]_vars PROVE IInv'
    OBVIOUS
  <1>1. CASE ManualStep \/ ManualAbort
    BY <1>1, BeginExecutionStep, ManualEndsStep, ManualCompactedStep, ManualCommitStep,
       ManualSettleStep, ManualAbortStep
       DEF ManualStep
  <1> QED
    BY <1>1, RequestStepKeeps, ManualStartStep, SessionStepKeeps, OtherStep DEF Next

-----------------------------------------------------------------------------
(* The steps that dispatch, and those that move the usage.                 *)

\* No step but Dispatch makes a record a dispatched one.
LEMMA OnlyDispatchDispatches ==
    ASSUME IInv, NEW r \in Slots, Start(r) \/ RequestStep(r) \/ Replace(r) \/ Abort(r), ~Dispatch(r)
    PROVE  OnlyOf(r) /\ (req'[r].pc = "dispatched" => req[r].pc = "dispatched")
  <1>1. Record(r) /\ DOMAIN req = Slots
    BY DEF IInv, Records
  <1>2. Free.pc = "free" /\ "pc" \in DOMAIN Free
    BY DEF Free
  <1>3. CASE Start(r)
    BY <1>1, <1>2, <1>3 DEF Start, OnlyOf
  <1>4. CASE Open(r) \/ Scan(r) \/ Account(r)
    BY <1>1, <1>4 DEF Open, Scan, Account, OnlyOf, Record, Formed, Fields
  <1>5. CASE BeginCompaction(r) \/ Commit(r)
    <2>1. PICK p : \/ req' = [req EXCEPT ![r].pc = "compacting", ![r].proposal = p]
                   \/ req' = [req EXCEPT ![r].proposal = p]
      BY <1>5 DEF BeginCompaction, Commit
    <2> QED
      BY <1>1, <2>1 DEF OnlyOf, Record, Formed, Fields
  <1>6. CASE Replace(r) \/ Abort(r)
    BY <1>1, <1>6 DEF Replace, Abort, OnlyOf, Record, Formed, Fields
  <1>7. CASE Complete(r) \/ Fail(r) \/ Indeterminate(r)
    <2>1. req' = [req EXCEPT ![r] = Free]
      BY <1>7 DEF Complete, Fail, Indeterminate, Rejected
    <2> QED
      BY <1>1, <1>2, <2>1 DEF OnlyOf
  <1>8. CASE HookError(r) \/ ContextWindowError(r) \/ CompactionFails(r) \/ Estimated(r)
             \/ ApproveSummary(r)
    <2>1. CASE req' = HookFails(r)
      BY <1>1, <1>2, <2>1 DEF HookFails, OnlyOf
    <2>2. ASSUME NEW p, req' = Approve(r, p)
          PROVE  OnlyOf(r) /\ (req'[r].pc = "dispatched" => req[r].pc = "dispatched")
      BY <1>1, <2>2 DEF Approve, OnlyOf, Record, Formed, Fields
    <2> QED
      BY <1>8, <2>1, <2>2
         DEF HookError, ContextWindowError, CompactionFails, Estimated, ApproveSummary
  <1>9. CASE Compacted(r)
    <2>1. PICK output :
            req' = [Approve(r, output) EXCEPT
                      ![r].accounting = [generation |-> store'.generation, input |-> output],
                      ![r].proposal.by = req[r].identity, ![r].proposal.output = output]
      BY <1>9 DEF Compacted
    <2> DEFINE g == [generation |-> store'.generation, input |-> output]
               i == req[r].identity
               a == Approve(r, output)
    <2>2. /\ DOMAIN a = Slots /\ DOMAIN a[r] = Fields /\ a[r].pc = "answered"
          /\ \A s \in Slots \ {r} : a[s] = req[s]
      BY <1>1 DEF Approve, Record, Formed, Fields
    <2>3. req' = [a EXCEPT ![r].accounting = g, ![r].proposal.by = i, ![r].proposal.output = output]
      BY <2>1
    <2> HIDE DEF g, i, a
    <2> QED
      BY <2>2, <2>3 DEF OnlyOf, Fields
  <1> QED
    BY <1>3, <1>4, <1>5, <1>6, <1>7, <1>8, <1>9 DEF RequestStep

LEMMA DispatchedByDispatch ==
    ASSUME IInv, [Next]_vars, NEW r \in Slots, req[r].pc # "dispatched", req'[r].pc = "dispatched"
    PROVE  Dispatch(r)
  <1>1. CASE \E s \in Slots : Start(s) \/ RequestStep(s) \/ Replace(s) \/ Abort(s)
    <2>1. PICK s \in Slots : Start(s) \/ RequestStep(s) \/ Replace(s) \/ Abort(s)
      BY <1>1
    <2>2. CASE Dispatch(s)
      <3>1. \A t \in Slots \ {s} : req'[t] = req[t]
        BY <2>2 DEF Dispatch, IInv, Records
      <3> QED
        BY <2>2, <3>1
    <2>3. CASE ~Dispatch(s)
      BY <2>1, <2>3, OnlyDispatchDispatches DEF OnlyOf
    <2> QED
      BY <2>2, <2>3
  <1>2. CASE SessionStart \/ Shutdown
    <2>1. req' = InvalidateAll(req)
      BY <1>2 DEF SessionStart, Shutdown
    <2>2. req'[r].pc = req[r].pc
      BY <2>1 DEF InvalidateAll, IInv, Records, Record, Formed, Fields
    <2> QED
      BY <2>2
  <1>3. CASE UNCHANGED req
    BY <1>3
  <1>4. ASSUME NEW overlay \in BOOLEAN, ManualStart(overlay) PROVE UNCHANGED req
    BY <1>4 DEF ManualStart
  <1>5. CASE ManualStep \/ ManualAbort
    BY <1>3, <1>5 DEF ManualStep, ManualAbort, BeginExecution, ManualCancelled, ManualCompacted,
                      ManualFails, ManualCommit, ManualSettle
  <1>6. CASE AppendEntry \/ ModelSelect \/ SessionTree \/ ChangeCredentials \/ RestoreBoundary
             \/ UNCHANGED vars
    BY <1>3, <1>6 DEF AppendEntry, ModelSelect, SessionTree, ChangeCredentials, RestoreBoundary, vars
  <1> QED
    BY <1>1, <1>2, <1>3, <1>4, <1>5, <1>6 DEF Next, SessionEvent

LEMMA UsageStep ==
    ASSUME IInv, [Next]_vars
    PROVE  \A b \in store.baselines, c \in store'.baselines :
              b.by = c.by /\ b.generation = c.generation => c.request >= b.request
  <1>1. \A b, c \in store.baselines : c.request >= b.request
    BY DEF IInv, Baselines
  <1>2. Session
    BY DEF IInv
  <1>3. CASE store'.baselines = {} \/ store'.baselines = store.baselines
    BY <1>1, <1>3
  <1>4. CASE \E r \in Slots : Start(r) \/ RequestStep(r) \/ Replace(r) \/ Abort(r)
    <2>1. PICK r \in Slots : Start(r) \/ RequestStep(r) \/ Replace(r) \/ Abort(r)
      BY <1>4
    <2>2. CASE Complete(r)
      BY <1>3, <2>2, UsageRecorded DEF Complete
    <2>3. CASE Account(r)
      <3>1. store' = ContextAccounting(store, req[r].identity)
        BY <2>3 DEF Account
      <3>2. store'.baselines = {} \/ store'.baselines = store.baselines
        BY <1>2, <3>1, AccountingRead DEF Session
      <3> QED
        BY <1>3, <3>2
    <2>4. CASE Compacted(r)
      <3> DEFINE s == InvalidateContextAccounting(store)
      <3>1. store' = ContextAccounting(s, req[r].identity)
        BY <2>4 DEF Compacted
      <3>2. /\ DOMAIN s = {"generation", "active", "baselines"} /\ s.generation \in Nat
            /\ s.baselines = {}
        BY <1>2, Invalidated DEF Session
      <3> HIDE DEF s
      <3>3. store'.baselines = {}
        BY <3>1, <3>2, AccountingRead
      <3> QED
        BY <1>3, <3>3
    <2>5. CASE UNCHANGED store
      BY <1>3, <2>5
    <2> QED
      BY <2>1, <2>2, <2>3, <2>4, <2>5
         DEF RequestStep, Start, Open, Scan, ApproveSummary, Estimated, BeginCompaction,
             ContextWindowError, CompactionFails, HookError, Commit, Indeterminate, Dispatch, Fail,
             Replace, Abort, compactionVars
  <1>5. CASE SessionStart \/ Shutdown
    <2> DEFINE s == InvalidateContextAccounting(store)
    <2>1. store' = [s EXCEPT !.active = NoIdentity]
      BY <1>5 DEF SessionStart, Shutdown, DisposeSession, DisposeStore
    <2>2. s.baselines = {} /\ DOMAIN s = {"generation", "active", "baselines"}
      BY <1>2, Invalidated DEF Session
    <2> HIDE DEF s
    <2>3. store'.baselines = {}
      BY <2>1, <2>2
    <2> QED
      BY <1>3, <2>3
  <1>6. CASE ModelSelect \/ SessionTree \/ ManualCompacted
    <2>1. store'.baselines = {}
      BY <1>2, <1>6, Invalidated DEF ModelSelect, SessionTree, ManualCompacted, Session
    <2> QED
      BY <1>3, <2>1
  <1>7. CASE UNCHANGED store
    BY <1>3, <1>7
  <1>8. ASSUME NEW overlay \in BOOLEAN, ManualStart(overlay) PROVE UNCHANGED store
    BY <1>8 DEF ManualStart
  <1>9. CASE BeginExecution \/ ManualCancelled \/ ManualFails \/ ManualCommit \/ ManualSettle
             \/ ManualAbort \/ AppendEntry \/ ChangeCredentials \/ RestoreBoundary \/ UNCHANGED vars
    BY <1>7, <1>9 DEF BeginExecution, ManualCancelled, ManualFails, ManualCommit, ManualSettle,
                ManualAbort, AppendEntry, ChangeCredentials, RestoreBoundary, vars, compactionVars
  <1> QED
    BY <1>4, <1>5, <1>6, <1>7, <1>8, <1>9 DEF Next, ManualStep, SessionEvent

-----------------------------------------------------------------------------
(* The theorems.                                                           *)

\* The inductive invariant holds in every session.
THEOREM IInvHolds == Spec => []IInv
  BY InitIInv, NextIInv, PTL DEF Spec

\* Every variable has its type: the counters of the guard and of the store, the
\* phases, and a boundary that is the id of an entry that exists.
THEOREM TypeCorrect == Spec => []TypeOK
  <1>1. IInv => TypeOK
    BY DEF IInv, Records, Record, Formed, Session, Phases, TypeOK
  <1> QED
    BY <1>1, IInvHolds, PTL

\* Whatever requests, manual compactions, session starts and the shutdown do, the
\* mark and the status have an owner, and two remote compactions run at a time only
\* if a mark was cleared by someone who had not set it.
THEOREM CompactionStaysExclusive == Spec => []CompactionIsExclusive
  <1>1. IInv => CompactionIsExclusive
    <2> SUFFICES ASSUME IInv PROVE OneCompaction
      BY DEF IInv, Compaction, CompactionIsExclusive
    <2>1. CASE disowned
      BY <2>1 DEF OneCompaction
    <2>2. CASE Running = {}
      BY <2>2, FS_EmptySet DEF OneCompaction
    <2>3. ASSUME NEW x, Running = {x} PROVE OneCompaction
      <3>1. Cardinality(Running) = 1
        BY <2>3, FS_Singleton
      <3> QED
        BY <3>1 DEF OneCompaction
    <2> QED
      BY <2>1, <2>2, <2>3 DEF IInv, Compaction, Marked
  <1> QED
    BY <1>1, IInvHolds, PTL

\* A request is dispatched only in the session it was opened in, while the
\* extension runs, neither aborted nor failed, and with the payload its own hook
\* approved, whatever came between the approval and the dispatch.
THEOREM DispatchStaysApproved == Spec => DispatchIsApproved
  <1> DEFINE A == \A r \in Slots :
                req[r].pc # "dispatched" /\ req'[r].pc = "dispatched"
                => /\ req[r].epoch = epoch /\ ~guard.disposed
                   /\ ~req[r].aborted /\ ~req[r].failed
                   /\ req[r].payload = req[r].approved
  <1>1. IInv /\ [Next]_vars => A
    <2> SUFFICES ASSUME IInv, [Next]_vars, NEW r \in Slots,
                        req[r].pc # "dispatched", req'[r].pc = "dispatched"
                 PROVE  /\ req[r].epoch = epoch /\ ~guard.disposed
                        /\ ~req[r].aborted /\ ~req[r].failed
                        /\ req[r].payload = req[r].approved
      OBVIOUS
    <2>1. Dispatch(r)
      BY DispatchedByDispatch
    <2>2. /\ req[r].pc = "answered" /\ ~guard.disposed /\ ~req[r].closed /\ ~req[r].aborted
          /\ ~req[r].failed /\ req[r].payload = req[r].approved
      BY <2>1 DEF Dispatch, AssertApproved, AssertLive, SameDigest
    <2>3. Current(r)
      BY DEF IInv, Records, Record
    <2> QED
      BY <2>2, <2>3 DEF Current
  <1> QED
    BY <1>1, IInvHolds, PTL DEF Spec, DispatchIsApproved

\* The accounting describes the session as it is: at most the active identity has a
\* baseline, of the current generation; no report of an overtaken request replaces a
\* newer one; and once the restorations have ended the boundary names a checkpoint
\* of the active branch, or nothing.
THEOREM AccountingStaysCurrent == Spec => AccountingIsCurrent
  <1>1. IInv => BaselinesAreOfActiveIdentity /\ BoundaryIsOnBranch
    BY DEF IInv, Baselines
  <1>2. IInv /\ [Next]_vars =>
          \A b \in store.baselines, c \in store'.baselines :
             b.by = c.by /\ b.generation = c.generation => c.request >= b.request
    BY UsageStep
  <1> QED
    BY <1>1, <1>2, IInvHolds, PTL DEF Spec, AccountingIsCurrent, UsageNeverGoesBack

-----------------------------------------------------------------------------
(* The history.  What no step may lose: for which messages each payload    *)
(* stands, under whose identity it was compacted, and whether it was       *)
(* committed.                                                              *)

\* A payload is a sequence of items that stand for messages.
IsPayload(items) ==
    /\ \E S : items \in Seq(S)
    /\ \A i \in DOMAIN items : items[i].ids \in Seq(Nat)

\* What is compacted in it was compacted under this identity.
OwnedBy(items, identity) == \A i \in DOMAIN items : items[i].by \in {NoIdentity, identity}

\* What is compacted in it is part of one of these outputs.
Stored(items, outputs) ==
    \A i \in DOMAIN items : items[i].by # NoIdentity =>
        \E output \in outputs : items[i] \in ToSet(output)

\* The messages that entries stand for.
StandsFor(es) == Standing(ProjectCanonicalEntries(es))

\* Entries in the order of their ids, the last one at most n.
History(es, n, outputs) ==
    /\ \E S : es \in Seq(S)
    /\ \A i \in DOMAIN es :
         /\ es[i].id \in 1..n /\ IsPayload(es[i].output)
         /\ OwnedBy(es[i].output, es[i].by) /\ Stored(es[i].output, outputs)
    /\ \A i, j \in DOMAIN es : i < j => es[i].id < es[j].id

\* A checkpoint that covers one of the entries holds the messages up to it.
HoldsPrefixes(es) ==
    \A i, c \in DOMAIN es :
        c < i /\ es[i].kind = "checkpoint" /\ es[i].covered = es[c].id
        => Standing(es[i].output) = StandsFor(SubSeq(es, 1, c))

\* What a record holds is its own, and compacted history in it was committed,
\* that of its own proposal apart.
Holding(r) ==
    /\ IsPayload(req[r].input) /\ IsPayload(req[r].replay) /\ IsPayload(req[r].approved)
    /\ OwnedBy(req[r].input, NoIdentity)
    /\ OwnedBy(req[r].replay, req[r].identity) /\ Stored(req[r].replay, committed)
    /\ OwnedBy(req[r].approved, req[r].identity)
    /\ IF req[r].proposal.output = <<>> THEN Stored(req[r].approved, committed)
       ELSE req[r].approved = req[r].proposal.output /\ req[r].proposal.by = req[r].identity
    /\ req[r].pc # "compacting" /\ req[r].proposal.output = <<>> => req[r].proposal = NoProposal
    /\ req[r].pending => req[r].replay # <<>>
    /\ req[r].pc = "compacting" => req[r].pending
    /\ req[r].pc = "dispatched" =>
         req[r].payload = req[r].approved /\ req[r].proposal.output = <<>>

\* The replay, and what is approved from it, leaves no message out; what a failed
\* hook leaves behind is never dispatched.
Whole(r) ==
    \/ rewound
    \/ /\ req[r].pc \in {"scanned", "estimating", "compacting"} =>
            Standing(req[r].replay) \in {Standing(req[r].input), req[r].read}
       /\ req[r].pc \in {"answered", "dispatched"} =>
            \/ Standing(req[r].approved) \in {Standing(req[r].input), req[r].read}
            \/ /\ req[r].pc = "answered"
               /\ req[r].failed \/ req[r].closed \/ req[r].aborted \/ guard.disposed

\* As long as the entry of the token is on the branch, so is what was read since
\* the token was made.  What is compacted covers that entry or a later one; if it
\* is that entry, the output stands for the branch up to it.
Tied(r) ==
    /\ req[r].token \in 0..entries /\ req[r].proposal.covered \in Nat
    /\ \A k \in DOMAIN branch : branch[k].id = req[r].token =>
         /\ Standing(req[r].input) = StandsFor(SubSeq(branch, 1, k))
         /\ req[r].pc \in {"scanned", "estimating"} =>
              \/ rewound
              \/ \E m \in k..Len(branch) :
                   Standing(req[r].replay) = StandsFor(SubSeq(branch, 1, m))
         /\ req[r].pc = "compacting" =>
              /\ req[r].proposal.covered >= req[r].token
              /\ \/ rewound
                 \/ req[r].proposal.covered = req[r].token =>
                      Standing(req[r].replay) = StandsFor(SubSeq(branch, 1, k))
         /\ req[r].proposal.output # <<>> =>
              /\ req[r].proposal.covered >= req[r].token
              /\ \/ rewound
                 \/ req[r].proposal.covered = req[r].token =>
                      Standing(req[r].proposal.output) = StandsFor(SubSeq(branch, 1, k))

\* What Pi's own compaction makes of the branch it was given.
Summary(items) ==
    /\ IsPayload(items) /\ OwnedBy(items, manual.proposal.by)
    /\ manual.kept - 1 \in DOMAIN manual.branch
    /\ manual.proposal.covered = manual.branch[manual.kept - 1].id
    /\ rewound \/ Standing(items) = StandsFor(SubSeq(manual.branch, 1, manual.kept - 1))

\* Pi's own compaction works on a history, of which its output replaces a prefix.
ManualHistory ==
    /\ History(manual.branch, entries, committed) /\ (rewound \/ HoldsPrefixes(manual.branch))
    /\ manual.pc \in {"resolving", "executing", "returning"} =>
         /\ manual.kept \in 1..Len(manual.branch)
         /\ \A k \in DOMAIN branch :
              branch[k].id = Leaf(manual.branch) => manual.branch = SubSeq(branch, 1, k)
    /\ manual.pc = "executing" =>
         Summary(manual.input) /\ manual.input # <<>> /\ manual.proposal.by # NoIdentity
    /\ manual.pc = "returning" => Summary(manual.proposal.output)

\* What is known of a record.
Kept(r) == Holding(r) /\ Whole(r) /\ Tied(r)

\* The history is sound: on the branch, in Pi's compaction and in every record.
HInv ==
    /\ History(branch, entries, committed) /\ (rewound \/ HoldsPrefixes(branch))
    /\ ManualHistory
    /\ \A r \in Slots : Kept(r)
\* A set of numbers that holds 0 and with each number below n the next one holds all up to n.
LEMMA UpTo ==
    ASSUME NEW n \in Nat, NEW T, 0 \in T, \A k \in 0..(n - 1) : k \in T => k + 1 \in T
    PROVE  \A k \in 0..n : k \in T
  <1> SUFFICES ASSUME \E k \in 0..n : k \notin T PROVE FALSE
    OBVIOUS
  <1> DEFINE U == {k \in 0..n : k \notin T}
             R == OpToRel(<, Nat)
  <1>1. U \subseteq Nat /\ U # {}
    OBVIOUS
  <1> HIDE DEF R
  <1>2. PICK x \in U : \A y \in U : ~(<<y, x>> \in R)
    <2>1. IsWellFoundedOn(R, Nat)
      BY NatLessThanWellFounded DEF R
    <2> HIDE DEF U
    <2> QED
      BY <1>1, <2>1, WFMin
  <1>3. x # 0 /\ x - 1 \in 0..(n - 1)
    OBVIOUS
  <1>4. x - 1 \notin U
    <2>1. <<x - 1, x>> \in R
      BY <1>3 DEF R, OpToRel
    <2> QED
      BY <1>2, <2>1
  <1> QED
    BY <1>3, <1>4

\* The recursion in FlattenSeq has a solution.
LEMMA FlattensExists ==
    ASSUME NEW A, NEW ss \in Seq(A)
    PROVE  \E f : f = [i \in 1..Len(ss) |-> IF i = 1 THEN ss[i] ELSE f[i-1] \o ss[i]]
  <1> DEFINE n == Len(ss)
             G(g, k) == g = [i \in 1..k |-> IF i = 1 THEN ss[i] ELSE g[i-1] \o ss[i]]
             T == {k \in 0..n : \E g : G(g, k)}
  <1>1. n \in Nat
    OBVIOUS
  <1>2. 0 \in T
    <2> DEFINE g == [i \in 1..0 |-> 0]
    <2>1. G(g, 0)
      OBVIOUS
    <2> HIDE DEF g
    <2>2. \E x : G(x, 0)
      BY <2>1
    <2>3. 0 \in 0..n
      BY <1>1
    <2> QED
      BY <2>2, <2>3, Zenon
  <1>3. ASSUME NEW k \in 0..(n - 1), k \in T PROVE k + 1 \in T
    <2>1. PICK g : G(g, k)
      BY <1>3
    <2> DEFINE h == [i \in 1..(k + 1) |-> IF i = k + 1 THEN IF i = 1 THEN ss[i] ELSE g[i-1] \o ss[i] ELSE g[i]]
    <2>2. DOMAIN h = 1..(k + 1)
      OBVIOUS
    <2>3. ASSUME NEW i \in 1..(k + 1) PROVE h[i] = IF i = 1 THEN ss[i] ELSE h[i-1] \o ss[i]
      <3>1. CASE i = k + 1
        <4>1. h[i] = IF i = 1 THEN ss[i] ELSE g[i-1] \o ss[i]
          BY <3>1
        <4>2. i # 1 => i - 1 \in 1..(k + 1) /\ i - 1 # k + 1
          BY <1>1, <3>1
        <4>3. i # 1 => h[i-1] = g[i-1]
          BY <4>2
        <4> QED
          BY <4>1, <4>3
      <3>2. CASE i # k + 1
        <4>1. i \in 1..k
          BY <1>1, <3>2
        <4>2. h[i] = g[i] /\ g[i] = IF i = 1 THEN ss[i] ELSE g[i-1] \o ss[i]
          BY <2>1, <3>2, <4>1
        <4>3. i # 1 => i - 1 \in 1..(k + 1) /\ i - 1 # k + 1
          BY <1>1, <4>1
        <4>4. i # 1 => h[i-1] = g[i-1]
          BY <4>3
        <4> QED
          BY <4>2, <4>4
      <3> QED
        BY <3>1, <3>2
    <2>4. G(h, k + 1)
      BY <2>2, <2>3
    <2>5. k + 1 \in 0..n
      BY <1>1
    <2> QED
      BY <2>4, <2>5
  <1>4. n \in T
    <2> HIDE DEF T
    <2> HIDE DEF n
    <2>1. \A k \in 0..(n - 1) : k \in T => k + 1 \in T
      BY <1>3
    <2>2. \A k \in 0..n : k \in T
      BY <1>1, <1>2, <2>1, UpTo
    <2> QED
      BY <1>1, <2>2
  <1>5. PICK g : G(g, n)
    BY <1>4
  <1> QED
    BY <1>5

\* What FlattenSeq computes, one element at a time.
LEMMA FlattenIs ==
    ASSUME NEW A, NEW ss \in Seq(A), ss # <<>>
    PROVE  \E f : /\ f = [i \in 1..Len(ss) |-> IF i = 1 THEN ss[i] ELSE f[i-1] \o ss[i]]
                 /\ FlattenSeq(ss) = f[Len(ss)]
  <1> DEFINE F == CHOOSE f : f = [i \in 1..Len(ss) |-> IF i = 1 THEN ss[i] ELSE f[i-1] \o ss[i]]
  <1>1. F = [i \in 1..Len(ss) |-> IF i = 1 THEN ss[i] ELSE F[i-1] \o ss[i]]
    BY FlattensExists, Zenon
  <1>2. Len(ss) # 0
    OBVIOUS
  <1>3. FlattenSeq(ss) = F[Len(ss)]
    BY <1>2 DEF FlattenSeq
  <1> QED
    BY <1>1, <1>3
-----------------------------------------------------------------------------
\* Nothing, and one sequence, flattened.
LEMMA FlattenFew ==
    /\ FlattenSeq(<<>>) = <<>>
    /\ \A x : FlattenSeq(<<x>>) = x
  <1>1. FlattenSeq(<<>>) = <<>>
    BY DEF FlattenSeq
  <1>2. ASSUME NEW x PROVE FlattenSeq(<<x>>) = x
    <2>1. <<x>> \in Seq({x}) /\ <<x>> # <<>> /\ Len(<<x>>) = 1 /\ <<x>>[1] = x
      OBVIOUS
    <2>2. PICK f : /\ f = [i \in 1..Len(<<x>>) |-> IF i = 1 THEN <<x>>[i] ELSE f[i-1] \o <<x>>[i]]
                   /\ FlattenSeq(<<x>>) = f[Len(<<x>>)]
      BY <2>1, FlattenIs
    <2> QED
      BY <2>1, <2>2
  <1> QED
    BY <1>1, <1>2

\* One more sequence, flattened.
LEMMA FlattenAppend ==
    ASSUME NEW A, NEW ss \in Seq(A), NEW x \in A, NEW B, x \in Seq(B)
    PROVE  FlattenSeq(Append(ss, x)) = FlattenSeq(ss) \o x
  <1> DEFINE tt == Append(ss, x)  n == Len(ss)
  <1>1. /\ tt \in Seq(A) /\ tt # <<>> /\ Len(tt) = n + 1 /\ n \in Nat
        /\ tt[n + 1] = x /\ \A i \in 1..n : tt[i] = ss[i]
    OBVIOUS
  <1>2. CASE ss = <<>>
    <2>1. tt = <<x>>
      BY <1>2
    <2> QED
      BY <1>2, <2>1, FlattenFew
  <1>3. CASE ss # <<>>
    <2>1. n \in Nat \ {0}
      BY <1>3
    <2>2. PICK f : /\ f = [i \in 1..Len(ss) |-> IF i = 1 THEN ss[i] ELSE f[i-1] \o ss[i]]
                   /\ FlattenSeq(ss) = f[Len(ss)]
      BY <1>3, FlattenIs
    <2> HIDE DEF tt
    <2>3. PICK g : /\ g = [i \in 1..Len(tt) |-> IF i = 1 THEN tt[i] ELSE g[i-1] \o tt[i]]
                   /\ FlattenSeq(tt) = g[Len(tt)]
      BY <1>1, FlattenIs
    <2>4. \A i \in 1..n : f[i] = IF i = 1 THEN ss[i] ELSE f[i-1] \o ss[i]
      BY <2>2
    <2>5. \A i \in 1..(n + 1) : g[i] = IF i = 1 THEN tt[i] ELSE g[i-1] \o tt[i]
      BY <1>1, <2>3
    <2> DEFINE T == {k \in 0..n : k = 0 \/ f[k] = g[k]}
    <2> HIDE DEF n
    <2>6. 0 \in T
      BY <2>1
    <2>7. ASSUME NEW k \in 0..(n - 1), k \in T PROVE k + 1 \in T
      <3>1. k + 1 \in 1..n /\ k + 1 \in 1..(n + 1) /\ (k + 1) - 1 = k
        BY <2>1
      <3>2. f[k + 1] = g[k + 1]
        BY <1>1, <2>4, <2>5, <2>7, <3>1
      <3> QED
        BY <3>1, <3>2
    <2>8. n \in T
      <3> HIDE DEF T
      <3>1. \A k \in 0..n : k \in T
        BY <2>1, <2>6, <2>7, UpTo
      <3> QED
        BY <2>1, <3>1
    <2>9. f[n] = g[n]
      BY <2>1, <2>8
    <2>10. g[n + 1] = g[n] \o x
      <3>1. n + 1 \in 1..(n + 1) /\ n + 1 # 1 /\ (n + 1) - 1 = n
        BY <2>1
      <3> QED
        BY <1>1, <2>5, <3>1
    <2> QED
      BY <1>1, <2>2, <2>3, <2>9, <2>10 DEF n, tt
  <1> QED
    BY <1>2, <1>3

\* A concatenation grows with its second part.
LEMMA ConcatStep ==
    ASSUME NEW B, NEW A \in SUBSET Seq(B), NEW ss \in Seq(A), NEW tt \in Seq(A), NEW x \in A,
           FlattenSeq(tt) \in Seq(B)
    PROVE  /\ FlattenSeq(Append(tt, x)) \in Seq(B)
           /\ /\ FlattenSeq(ss) \in Seq(B)
              /\ FlattenSeq(ss \o tt) = FlattenSeq(ss) \o FlattenSeq(tt)
              => FlattenSeq(ss \o Append(tt, x)) = FlattenSeq(ss) \o FlattenSeq(Append(tt, x))
  <1> DEFINE f == FlattenSeq(tt)  e == FlattenSeq(ss)
  <1>1. x \in Seq(B)
    OBVIOUS
  <1>2. FlattenSeq(Append(tt, x)) = f \o x
    BY <1>1, FlattenAppend
  <1>3. ss \o Append(tt, x) = Append(ss \o tt, x) /\ ss \o tt \in Seq(A)
    OBVIOUS
  <1>4. FlattenSeq(ss \o Append(tt, x)) = FlattenSeq(ss \o tt) \o x
    BY <1>1, <1>3, FlattenAppend
  <1> HIDE DEF f, e
  <1>5. f \in Seq(B)
    BY DEF f
  <1>6. f \o x \in Seq(B)
    BY <1>1, <1>5
  <1>7. e \in Seq(B) => (e \o f) \o x = e \o (f \o x)
    BY <1>1, <1>5
  <1> QED
    BY <1>2, <1>4, <1>6, <1>7 DEF f, e

\* Flattening a concatenation, by induction over its second part.
LEMMA FlattenBoth ==
    ASSUME NEW B, NEW A \in SUBSET Seq(B), NEW ss \in Seq(A), NEW tt \in Seq(A)
    PROVE  /\ FlattenSeq(tt) \in Seq(B)
           /\ FlattenSeq(ss) \in Seq(B) => FlattenSeq(ss \o tt) = FlattenSeq(ss) \o FlattenSeq(tt)
  <1> DEFINE n == Len(tt)
             T == {k \in 0..n :
                     LET v == SubSeq(tt, 1, k) IN
                     /\ FlattenSeq(v) \in Seq(B)
                     /\ FlattenSeq(ss) \in Seq(B) => FlattenSeq(ss \o v) = FlattenSeq(ss) \o FlattenSeq(v)}
  <1>1. n \in Nat
    OBVIOUS
  <1>2. 0 \in T
    <2>1. SubSeq(tt, 1, 0) = <<>> /\ ss \o <<>> = ss /\ <<>> \in Seq(B) /\ 0 \in 0..n
      OBVIOUS
    <2>2. FlattenSeq(ss) \in Seq(B) => FlattenSeq(ss) \o <<>> = FlattenSeq(ss)
      OBVIOUS
    <2>3. FlattenSeq(<<>>) = <<>>
      BY FlattenFew
    <2> QED
      BY <2>1, <2>2, <2>3, Zenon
  <1>3. ASSUME NEW k \in 0..(n - 1), k \in T PROVE k + 1 \in T
    <2> DEFINE v == SubSeq(tt, 1, k)  w == SubSeq(tt, 1, k + 1)  x == tt[k + 1]
    <2>1. k + 1 \in 1..n /\ k + 1 \in 0..n
      BY <1>1
    <2>2. v \in Seq(A) /\ x \in A /\ w = Append(v, x)
      BY <2>1
    <2>3. /\ FlattenSeq(v) \in Seq(B)
          /\ FlattenSeq(ss) \in Seq(B) => FlattenSeq(ss \o v) = FlattenSeq(ss) \o FlattenSeq(v)
      BY <1>3
    <2> HIDE DEF v, x, w
    <2>4. /\ FlattenSeq(w) \in Seq(B)
          /\ FlattenSeq(ss) \in Seq(B) => FlattenSeq(ss \o w) = FlattenSeq(ss) \o FlattenSeq(w)
      BY <2>2, <2>3, ConcatStep
    <2> QED
      BY <2>1, <2>4 DEF w
  <1>4. n \in T
    <2> HIDE DEF n, T
    <2>1. \A k \in 0..n : k \in T
      BY <1>1, <1>2, <1>3, UpTo
    <2> QED
      BY <1>1, <2>1
  <1>5. SubSeq(tt, 1, n) = tt
    OBVIOUS
  <1> QED
    BY <1>4, <1>5

\* What is flattened is a sequence of what the parts hold, and the parts of a
\* concatenation are flattened one after the other.
LEMMA FlattenConcat ==
    ASSUME NEW B, NEW A \in SUBSET Seq(B), NEW ss \in Seq(A), NEW tt \in Seq(A)
    PROVE  /\ FlattenSeq(ss) \in Seq(B)
           /\ FlattenSeq(ss \o tt) = FlattenSeq(ss) \o FlattenSeq(tt)
  <1>1. FlattenSeq(ss) \in Seq(B)
    BY FlattenBoth
  <1>2. FlattenSeq(ss) \in Seq(B) => FlattenSeq(ss \o tt) = FlattenSeq(ss) \o FlattenSeq(tt)
    BY FlattenBoth, Zenon
  <1> QED
    BY <1>1, <1>2

-----------------------------------------------------------------------------
(* What payloads and entries stand for.                                    *)

\* A function of the elements of a sequence, taken over a concatenation.
Mapped(s, m) == [i \in DOMAIN s |-> m[s[i]]]
\* A function takes the members of U into A.
Into(m, U, A) == \A u \in U : m[u] \in A

\* The images of a concatenation are those of its parts.
LEMMA MapConcat ==
    ASSUME NEW U, NEW A, NEW m, Into(m, U, A), NEW s \in Seq(U), NEW t \in Seq(U)
    PROVE  /\ Mapped(s, m) \in Seq(A) /\ Mapped(t, m) \in Seq(A)
           /\ Mapped(s \o t, m) = Mapped(s, m) \o Mapped(t, m)
  <1> DEFINE f == [i \in DOMAIN s |-> m[s[i]]]
             g == [i \in DOMAIN t |-> m[t[i]]]
             h == [i \in DOMAIN (s \o t) |-> m[(s \o t)[i]]]
             n == Len(s) + Len(t)
  <1>1. /\ s \o t \in Seq(U) /\ Len(s \o t) = n
        /\ \A i \in 1..n : (s \o t)[i] = IF i <= Len(s) THEN s[i] ELSE t[i - Len(s)]
    BY ConcatProperties
  <1>2. /\ Len(s) \in Nat /\ Len(t) \in Nat /\ n \in Nat
        /\ DOMAIN s = 1..Len(s) /\ DOMAIN t = 1..Len(t) /\ DOMAIN h = 1..n
    BY <1>1
  <1>3. f \in Seq(A) /\ g \in Seq(A) /\ Len(f) = Len(s) /\ Len(g) = Len(t)
    BY DEF Into
  <1>4. /\ f \o g \in Seq(A) /\ Len(f \o g) = n
        /\ \A i \in 1..n : (f \o g)[i] = IF i <= Len(s) THEN f[i] ELSE g[i - Len(s)]
    <2> HIDE DEF f, g
    <2>1. /\ f \o g \in Seq(A) /\ Len(f \o g) = Len(f) + Len(g)
          /\ \A i \in 1..(Len(f) + Len(g)) :
               (f \o g)[i] = IF i <= Len(f) THEN f[i] ELSE g[i - Len(f)]
      BY <1>3, ConcatProperties
    <2> QED
      BY <1>3, <2>1
  <1>5. ASSUME NEW i \in 1..n PROVE h[i] = (f \o g)[i]
    <2>1. CASE i <= Len(s)
      <3>1. i \in DOMAIN s /\ h[i] = m[s[i]]
        BY <1>1, <1>2, <2>1
      <3>2. (f \o g)[i] = f[i]
        BY <1>4, <2>1
      <3> QED
        BY <3>1, <3>2
    <2>2. CASE ~(i <= Len(s))
      <3>1. i - Len(s) \in DOMAIN t /\ h[i] = m[t[i - Len(s)]]
        BY <1>1, <1>2, <2>2
      <3>2. (f \o g)[i] = g[i - Len(s)]
        BY <1>4, <2>2
      <3> QED
        BY <3>1, <3>2
    <2> QED
      BY <2>1, <2>2
  <1>6. h \in Seq(A) /\ Len(h) = n
    <2>1. \A i \in DOMAIN (s \o t) : (s \o t)[i] \in U
      BY <1>1
    <2>2. h \in [1..n -> A]
      BY <1>2, <2>1 DEF Into
    <2> HIDE DEF h, n
    <2> QED
      BY <1>2, <2>2
  <1>7. h = f \o g
    <2> HIDE DEF f, g, h, n
    <2> QED
      BY <1>4, <1>5, <1>6, SeqEqual
  <1> QED
    BY <1>3, <1>7 DEF Mapped

\* A payload stands for a sequence of messages.
LEMMA StandingConcat ==
    ASSUME NEW s, NEW t, IsPayload(s), IsPayload(t)
    PROVE  /\ Standing(s) \in Seq(Nat) /\ IsPayload(s \o t)
           /\ Standing(s \o t) = Standing(s) \o Standing(t)
  <1>1. PICK S : s \in Seq(S)
    BY DEF IsPayload
  <1>2. PICK T : t \in Seq(T)
    BY DEF IsPayload
  <1> DEFINE A == Seq(Nat)
             U == {x \in S \cup T : x.ids \in A}
             m == [x \in U |-> x.ids]
             f == Mapped(s, m)
             g == Mapped(t, m)
             h == Mapped(s \o t, m)
  <1>3. A \in SUBSET Seq(Nat)
    OBVIOUS
  <1>4. /\ \A i \in DOMAIN s : s[i].ids \in A
        /\ \A i \in DOMAIN t : t[i].ids \in A
    BY DEF IsPayload
  <1> HIDE DEF A
  <1>5. Into(m, U, A)
    BY DEF Into
  <1>6. s \in Seq(U) /\ t \in Seq(U)
    BY <1>1, <1>2, <1>4
  <1>7. s \o t \in Seq(U)
    <2> HIDE DEF U
    <2> QED
      BY <1>6
  <1>8. f \in Seq(A) /\ g \in Seq(A) /\ h = f \o g
    <2> HIDE DEF U, m, A
    <2> QED
      BY <1>5, <1>6, MapConcat
  <1>9. \A i \in DOMAIN (s \o t) : (s \o t)[i] \in U
    <2> HIDE DEF U
    <2> QED
      BY <1>7
  <1>10. IsPayload(s \o t)
    BY <1>7, <1>9 DEF IsPayload, A
  <1>11. /\ f = [i \in DOMAIN s |-> s[i].ids] /\ g = [i \in DOMAIN t |-> t[i].ids]
         /\ h = [i \in DOMAIN (s \o t) |-> (s \o t)[i].ids]
    <2>1. \A i \in DOMAIN s : s[i] \in U
      BY <1>6
    <2>2. \A i \in DOMAIN t : t[i] \in U
      BY <1>6
    <2> QED
      BY <1>9, <2>1, <2>2 DEF Mapped
  <1> HIDE DEF f, g, h
  <1>12. Standing(s) = FlattenSeq(f) /\ Standing(t) = FlattenSeq(g) /\ Standing(s \o t) = FlattenSeq(h)
    BY <1>11, Zenon DEF Standing
  <1>13. FlattenSeq(f) \in Seq(Nat)
    BY <1>3, <1>8, FlattenConcat
  <1>14. FlattenSeq(f \o g) = FlattenSeq(f) \o FlattenSeq(g)
    <2> DEFINE B == Nat
    <2>1. A \in SUBSET Seq(B) /\ f \in Seq(A) /\ g \in Seq(A)
      BY <1>3, <1>8
    <2> HIDE DEF B, U, m
    <2> QED
      BY ONLY <2>1, FlattenConcat, Zenon
  <1> QED
    BY <1>8, <1>10, <1>12, <1>13, <1>14

\* What is projected from entries is a payload without compacted history, and
\* the projection of a concatenation is that of its parts.
LEMMA ProjectConcat ==
    ASSUME NEW s, NEW t, NEW S, s \in Seq(S), t \in Seq(S),
           \A i \in DOMAIN s : s[i].id \in Nat,
           \A i \in DOMAIN t : t[i].id \in Nat
    PROVE  /\ IsPayload(ProjectCanonicalEntries(s))
           /\ \A i \in DOMAIN ProjectCanonicalEntries(s) :
                ProjectCanonicalEntries(s)[i].by = NoIdentity
           /\ ProjectCanonicalEntries(s \o t)
                = ProjectCanonicalEntries(s) \o ProjectCanonicalEntries(t)
  <1> DEFINE B == {MessageItem(id) : id \in Nat}
             A == Seq(B)
             U == {e \in S : e.id \in Nat}
             m == [e \in U |-> IF e.kind = "message" THEN <<MessageItem(e.id)>> ELSE <<>>]
             f == Mapped(s, m)
             g == Mapped(t, m)
             h == Mapped(s \o t, m)
  <1>1. A \in SUBSET Seq(B)
    OBVIOUS
  <1>2. Into(m, U, A)
    <2>1. ASSUME NEW e \in U PROVE m[e] \in A
      <3>1. MessageItem(e.id) \in B
        OBVIOUS
      <3> HIDE DEF B
      <3>2. <<MessageItem(e.id)>> \in A /\ <<>> \in A
        BY <3>1
      <3> QED
        BY <3>2
    <2> QED
      BY <2>1 DEF Into
  <1>3. s \in Seq(U) /\ t \in Seq(U)
    OBVIOUS
  <1>4. f \in Seq(A) /\ g \in Seq(A) /\ h = f \o g
    <2> HIDE DEF U, m, A
    <2> QED
      BY <1>2, <1>3, MapConcat
  <1>5. s \o t \in Seq(U)
    <2> HIDE DEF U
    <2> QED
      BY <1>3
  <1>6. /\ \A i \in DOMAIN s : s[i] \in U
        /\ \A i \in DOMAIN t : t[i] \in U
        /\ \A i \in DOMAIN (s \o t) : (s \o t)[i] \in U
    <2> HIDE DEF U
    <2> QED
      BY <1>3, <1>5
  <1>7. /\ ProjectCanonicalEntries(s) = FlattenSeq(f)
        /\ ProjectCanonicalEntries(t) = FlattenSeq(g)
        /\ ProjectCanonicalEntries(s \o t) = FlattenSeq(h)
    <2> DEFINE F(x) == [i \in DOMAIN x |->
                          IF x[i].kind = "message" THEN <<MessageItem(x[i].id)>> ELSE <<>>]
    <2>1. f = F(s) /\ g = F(t) /\ h = F(s \o t)
      <3> HIDE DEF U
      <3> QED
        BY <1>6 DEF Mapped
    <2> QED
      BY <2>1, Zenon DEF ProjectCanonicalEntries
  <1> HIDE DEF f, g, h, A
  <1>8. FlattenSeq(f) \in Seq(B)
    <2> HIDE DEF B
    <2> QED
      BY <1>1, <1>4, FlattenConcat
  <1>9. FlattenSeq(f \o g) = FlattenSeq(f) \o FlattenSeq(g)
    <2> HIDE DEF B, U, m
    <2>1. A \in SUBSET Seq(B) /\ f \in Seq(A) /\ g \in Seq(A)
      BY <1>1, <1>4
    <2> QED
      BY ONLY <2>1, FlattenConcat, Zenon
  <1>10. ASSUME NEW x \in B PROVE x.ids \in Seq(Nat) /\ x.by = NoIdentity
    <2>1. PICK id \in Nat : x = MessageItem(id)
      OBVIOUS
    <2>2. <<id>> \in Seq(Nat)
      OBVIOUS
    <2>3. MessageItem(id).ids = <<id>> /\ MessageItem(id).by = NoIdentity
      BY DEF MessageItem
    <2> QED
      BY <2>1, <2>2, <2>3
  <1>11. \A i \in DOMAIN FlattenSeq(f) : FlattenSeq(f)[i] \in B
    <2> HIDE DEF B
    <2> QED
      BY <1>8
  <1>12. IsPayload(FlattenSeq(f))
    BY <1>8, <1>10, <1>11 DEF IsPayload
  <1> QED
    BY <1>4, <1>7, <1>9, <1>10, <1>11, <1>12

\* One item stands for its messages.
LEMMA StandingOne ==
    ASSUME NEW x, x.ids \in Seq(Nat)
    PROVE  IsPayload(<<x>>) /\ Standing(<<x>>) = x.ids
  <1>1. <<x>> \in Seq({x}) /\ \A i \in DOMAIN <<x>> : <<x>>[i] = x
    OBVIOUS
  <1>2. IsPayload(<<x>>)
    BY <1>1 DEF IsPayload
  <1>3. [i \in DOMAIN <<x>> |-> <<x>>[i].ids] = <<x.ids>>
    OBVIOUS
  <1> QED
    BY <1>2, <1>3, FlattenFew DEF Standing

\* A sequence of entries.
IsEntries(es) ==
    /\ \E S : es \in Seq(S)
    /\ \A i \in DOMAIN es : es[i].id \in Nat

\* What is projected from entries is a payload without compacted history.
LEMMA EntriesProject ==
    ASSUME NEW es, IsEntries(es)
    PROVE  /\ IsPayload(ProjectCanonicalEntries(es))
           /\ \A i \in DOMAIN ProjectCanonicalEntries(es) :
                ProjectCanonicalEntries(es)[i].by = NoIdentity
           /\ StandsFor(es) \in Seq(Nat)
  <1>1. PICK S : es \in Seq(S)
    BY DEF IsEntries
  <1>2. \A i \in DOMAIN es : es[i].id \in Nat
    BY DEF IsEntries
  <1>3. /\ IsPayload(ProjectCanonicalEntries(es))
        /\ \A i \in DOMAIN ProjectCanonicalEntries(es) :
             ProjectCanonicalEntries(es)[i].by = NoIdentity
    BY <1>1, <1>2, ProjectConcat
  <1> QED
    BY <1>3, StandingConcat DEF StandsFor

\* A part of the entries is a sequence of entries.
LEMMA PartOfEntries ==
    ASSUME NEW es, IsEntries(es), NEW c \in 1..(Len(es) + 1), NEW n \in 0..Len(es)
    PROVE  /\ IsEntries(SubSeq(es, c, n))
           /\ Len(SubSeq(es, c, n)) = IF c <= n THEN n - c + 1 ELSE 0
           /\ \A i \in DOMAIN SubSeq(es, c, n) :
                i + c - 1 \in DOMAIN es /\ SubSeq(es, c, n)[i] = es[i + c - 1]
  <1>1. PICK S : es \in Seq(S)
    BY DEF IsEntries
  <1>2. Len(es) \in Nat /\ DOMAIN es = 1..Len(es)
    BY <1>1
  <1>3. \A i \in c..n : es[i] \in S
    BY <1>1, <1>2
  <1>4. /\ SubSeq(es, c, n) \in Seq(S)
        /\ Len(SubSeq(es, c, n)) = IF c <= n THEN n - c + 1 ELSE 0
        /\ \A i \in 1..(n - c + 1) : SubSeq(es, c, n)[i] = es[c + i - 1]
    BY <1>2, <1>3, SubSeqProperties
  <1>5. ASSUME NEW i \in DOMAIN SubSeq(es, c, n)
        PROVE  i + c - 1 \in DOMAIN es /\ SubSeq(es, c, n)[i] = es[i + c - 1]
    <2>1. i \in 1..Len(SubSeq(es, c, n))
      BY <1>4
    <2>2. i \in 1..(n - c + 1) /\ c + i - 1 = i + c - 1
      BY <1>2, <1>4, <2>1
    <2> QED
      BY <1>2, <1>4, <2>2
  <1>6. IsEntries(SubSeq(es, c, n))
    BY <1>4, <1>5 DEF IsEntries
  <1> QED
    BY <1>4, <1>5, <1>6

\* A prefix, split in two.
LEMMA PrefixSplits ==
    ASSUME NEW es, IsEntries(es), NEW n \in 0..Len(es), NEW c \in 0..n
    PROVE  StandsFor(SubSeq(es, 1, n))
             = StandsFor(SubSeq(es, 1, c)) \o StandsFor(SubSeq(es, c + 1, n))
  <1>1. PICK S : es \in Seq(S)
    BY DEF IsEntries
  <1>2. Len(es) \in Nat /\ DOMAIN es = 1..Len(es)
    BY <1>1
  <1> DEFINE s == SubSeq(es, 1, c)  t == SubSeq(es, c + 1, n)
  <1>3. s \o t = SubSeq(es, 1, n)
    <2>1. 1 \in 1..(Len(es) + 1) /\ c \in (1 - 1)..Len(es) /\ n \in c..Len(es)
      BY <1>2
    <2> QED
      BY <1>1, <2>1, ConcatAdjacentSubSeq
  <1>4. IsEntries(s) /\ IsEntries(t)
    <2>1. 1 \in 1..(Len(es) + 1) /\ c \in 0..Len(es) /\ c + 1 \in 1..(Len(es) + 1)
      BY <1>2
    <2> QED
      BY <2>1, PartOfEntries
  <1> HIDE DEF s, t
  <1>5. PICK T : s \in Seq(T)
    BY <1>4 DEF IsEntries
  <1>6. PICK V : t \in Seq(V)
    BY <1>4 DEF IsEntries
  <1> DEFINE W == T \cup V
  <1>7. s \in Seq(W) /\ t \in Seq(W)
    BY <1>5, <1>6, SeqMonotonic
  <1> HIDE DEF W
  <1> DEFINE p == ProjectCanonicalEntries(s)  q == ProjectCanonicalEntries(t)
  <1>8. \A i \in DOMAIN s : s[i].id \in Nat
    BY <1>4 DEF IsEntries
  <1>9. \A i \in DOMAIN t : t[i].id \in Nat
    BY <1>4 DEF IsEntries
  <1>10. ProjectCanonicalEntries(s \o t) = p \o q
    BY <1>7, <1>8, <1>9, ProjectConcat
  <1>11. IsPayload(p) /\ IsPayload(q)
    BY <1>4, EntriesProject
  <1> HIDE DEF p, q
  <1>12. Standing(p \o q) = Standing(p) \o Standing(q)
    BY <1>11, StandingConcat
  <1> QED
    BY <1>3, <1>10, <1>12 DEF StandsFor, p, q, s, t

\* The first of what a compaction stands for.
LEMMA HeadStands ==
    ASSUME NEW input, IsPayload(input), input # <<>>
    PROVE  /\ Head(input) = input[1] /\ 1 \in DOMAIN input /\ IsPayload(Tail(input))
           /\ Standing(input) = Head(input).ids \o Standing(Tail(input))
  <1>1. PICK S : input \in Seq(S)
    BY DEF IsPayload
  <1> DEFINE h == Head(input)  t == Tail(input)
  <1>2. /\ h = input[1] /\ 1 \in DOMAIN input /\ t \in Seq(S)
        /\ \A i \in DOMAIN t : i + 1 \in DOMAIN input /\ t[i] = input[i + 1]
        /\ input = <<h>> \o t
    BY <1>1
  <1>3. h.ids \in Seq(Nat)
    BY <1>2 DEF IsPayload
  <1>4. IsPayload(t)
    BY <1>2 DEF IsPayload
  <1> HIDE DEF h, t
  <1>5. IsPayload(<<h>>) /\ Standing(<<h>>) = h.ids
    BY <1>3, StandingOne
  <1> DEFINE w == <<h>>
  <1> HIDE DEF w
  <1>6. Standing(w \o t) = Standing(w) \o Standing(t)
    BY <1>4, <1>5, StandingConcat DEF w
  <1> QED
    BY <1>2, <1>4, <1>5, <1>6 DEF h, t, w

\* What a remote compaction may answer and validates stands for what it was
\* given: nothing is lost, nothing repeated, and nothing is of another identity.
LEMMA RemoteStands ==
    ASSUME NEW input, IsPayload(input), input # <<>>, NEW identity, identity # NoIdentity,
           OwnedBy(input, identity),
           NEW output \in RemoteOutputs(input, identity), ValidateCompactionOutput(output)
    PROVE  /\ IsPayload(output) /\ output # <<>> /\ OwnedBy(output, identity)
           /\ Standing(output) = Standing(input)
  <1> DEFINE x == CompactionItem(input, identity)
             y == CompactionItem(Tail(input), identity)
             h == Head(input)
  <1>1. Standing(input) \in Seq(Nat)
    BY StandingConcat
  <1>2. /\ h = input[1] /\ 1 \in DOMAIN input /\ IsPayload(Tail(input))
        /\ Standing(input) = h.ids \o Standing(Tail(input))
    BY HeadStands
  <1>3. Standing(Tail(input)) \in Seq(Nat)
    BY <1>2, StandingConcat
  <1>4. /\ x.ids = Standing(input) /\ x.by = identity
        /\ y.ids = Standing(Tail(input)) /\ y.by = identity
    BY DEF CompactionItem, Standing
  <1>5. h.ids \in Seq(Nat) /\ h.by \in {NoIdentity, identity}
    BY <1>2 DEF IsPayload, OwnedBy
  <1>6. output \in {<<x>>, <<h, y>>, <<x, x>>, <<ForeignItem>>, <<>>}
    BY DEF RemoteOutputs
  <1> HIDE DEF x, y, h
  <1>7. output # <<>> /\ output # <<ForeignItem>>
    BY DEF ValidateCompactionOutput, IsSupportedStructuredResponseItem
  <1>8. output # <<x, x>>
    <2> SUFFICES ASSUME output = <<x, x>> PROVE FALSE
      OBVIOUS
    <2>1. {i \in DOMAIN output : output[i].by # NoIdentity} = {1, 2}
      BY <1>4
    <2>2. Cardinality({1, 2}) = 1
      BY <2>1 DEF ValidateCompactionOutput
    <2>3. Cardinality({1, 2}) = 2
      <3>1. IsFiniteSet({1}) /\ Cardinality({1}) = 1
        BY FS_Singleton
      <3>2. 2 \notin {1} /\ {1} \cup {2} = {1, 2}
        OBVIOUS
      <3>3. Cardinality({1} \cup {2}) = Cardinality({1}) + 1
        BY <3>1, <3>2, FS_AddElement
      <3> QED
        BY <3>1, <3>2, <3>3
    <2> QED
      BY <2>2, <2>3
  <1>9. CASE output = <<x>>
    <2>1. IsPayload(<<x>>) /\ Standing(<<x>>) = x.ids
      BY <1>1, <1>4, StandingOne
    <2>2. \A i \in DOMAIN <<x>> : <<x>>[i] = x
      OBVIOUS
    <2> QED
      BY <1>4, <1>7, <1>9, <2>1, <2>2 DEF OwnedBy
  <1>10. CASE output = <<h, y>>
    <2>1. IsPayload(<<h>>) /\ Standing(<<h>>) = h.ids
      BY <1>5, StandingOne
    <2>2. IsPayload(<<y>>) /\ Standing(<<y>>) = y.ids
      BY <1>3, <1>4, StandingOne
    <2> DEFINE v == <<h>>  w == <<y>>
    <2>3. output = v \o w
      BY <1>10
    <2>4. \A i \in DOMAIN output : output[i] \in {h, y}
      BY <1>10
    <2> HIDE DEF v, w
    <2>5. IsPayload(v \o w) /\ Standing(v \o w) = Standing(v) \o Standing(w)
      BY <2>1, <2>2, StandingConcat DEF v, w
    <2>6. OwnedBy(output, identity)
      BY <1>4, <1>5, <2>4 DEF OwnedBy
    <2> QED
      BY <1>2, <1>4, <1>7, <2>1, <2>2, <2>3, <2>5, <2>6 DEF v, w
  <1> QED
    BY <1>6, <1>7, <1>8, <1>9, <1>10

-----------------------------------------------------------------------------
(* Where an entry is.                                                      *)

\* A bounded set of numbers has a smallest member, and Min is it.
LEMMA MinIsMember ==
    ASSUME NEW n \in Nat, NEW S \in SUBSET (1..n), S # {}
    PROVE  Min(S) \in S
  <1> DEFINE R == OpToRel(<, Nat)
  <1> HIDE DEF R
  <1>1. S \subseteq Nat
    OBVIOUS
  <1>2. PICK x \in S : \A y \in S : ~(<<y, x>> \in R)
    <2>1. IsWellFoundedOn(R, Nat)
      BY NatLessThanWellFounded DEF R
    <2> QED
      BY <1>1, <2>1, WFMin
  <1>3. ASSUME NEW y \in S PROVE x <= y
    <2>1. x \in Nat /\ y \in Nat
      BY <1>1
    <2>2. ~(y < x)
      BY <1>2, <2>1 DEF R, OpToRel
    <2> QED
      BY <2>1, <2>2
  <1> QED
    BY <1>3 DEF Min

\* Entries in the order of their ids.
Rising(es) ==
    /\ IsEntries(es)
    /\ \A i, j \in DOMAIN es : i < j => es[i].id < es[j].id

\* Each id is that of one entry, and IndexOf finds it.
LEMMA IdsAreUnique ==
    ASSUME NEW es, Rising(es), NEW i \in DOMAIN es, NEW j \in DOMAIN es, es[i].id = es[j].id
    PROVE  i = j
  <1>1. i \in Nat /\ j \in Nat
    BY DEF Rising, IsEntries
  <1>2. es[i].id \in Nat /\ es[j].id \in Nat
    BY DEF Rising, IsEntries
  <1>3. ~(i < j) /\ ~(j < i)
    BY <1>2 DEF Rising
  <1> QED
    BY <1>1, <1>3

\* IndexOf finds the one entry of an id, or nothing.
LEMMA IndexFinds ==
    ASSUME NEW es, Rising(es), NEW id
    PROVE  /\ IndexOf(es, id) \in 0..Len(es)
           /\ IndexOf(es, id) # 0 => es[IndexOf(es, id)].id = id
           /\ \A i \in DOMAIN es : es[i].id = id => IndexOf(es, id) = i
  <1> DEFINE I == {i \in 1..Len(es) : es[i].id = id}
  <1>1. IndexOf(es, id) = IF I # {} THEN Min(I) ELSE 0
    BY Zenon DEF IndexOf, SelectInSeq
  <1>2. Len(es) \in Nat /\ DOMAIN es = 1..Len(es)
    BY DEF Rising, IsEntries
  <1>3. I \in SUBSET (1..Len(es))
    OBVIOUS
  <1>4. CASE I = {}
    <2>1. IndexOf(es, id) = 0
      <3> HIDE DEF I
      <3> QED
        BY <1>1, <1>4
    <2>2. \A i \in DOMAIN es : es[i].id # id
      BY <1>2, <1>4
    <2> QED
      BY <1>2, <2>1, <2>2
  <1>5. CASE I # {}
    <2>1. IndexOf(es, id) \in I
      <3> HIDE DEF I
      <3> QED
        BY <1>1, <1>2, <1>3, <1>5, MinIsMember
    <2> DEFINE k == IndexOf(es, id)
    <2> HIDE DEF k
    <2>2. k \in DOMAIN es /\ es[k].id = id
      BY <1>2, <2>1 DEF k
    <2>3. \A i \in DOMAIN es : es[i].id = id => k = i
      BY <2>2, IdsAreUnique
    <2> QED
      BY <1>2, <2>2, <2>3 DEF k
  <1> QED
    BY <1>4, <1>5

\* What the scan selects is a checkpoint of the identity, and the entry it covers
\* lies before it and before the boundary.
LEMMA ScanFinds ==
    ASSUME NEW es, Rising(es), NEW identity, NEW before \in Int
    PROVE  LET at == ScanRemoteCompactionCheckpoints(es, identity, before)
               c == IndexOf(es, es[at].covered)
           IN  \/ at = 0
               \/ /\ at \in DOMAIN es /\ at # 0 /\ es[at].kind = "checkpoint" /\ es[at].by = identity
                  /\ c \in DOMAIN es /\ c < at /\ c < before /\ es[c].id = es[at].covered
  <1> DEFINE I == {i \in 1..Len(es) :
                     /\ ParseRemoteCompactionCheckpoint(es[i])
                     /\ SameIdentity(es[i], identity)
                     /\ IndexOf(es, es[i].covered)
                          \in 1..(IndexOf(es, es[i].id) - 1) \cap 1..(before - 1)}
             at == ScanRemoteCompactionCheckpoints(es, identity, before)
             c == IndexOf(es, es[at].covered)
  <1>1. at = IF I # {} THEN Max(I) ELSE 0
    BY Zenon DEF ScanRemoteCompactionCheckpoints, SelectLastInSeq
  <1>2. Len(es) \in Nat /\ DOMAIN es = 1..Len(es)
    BY DEF Rising, IsEntries
  <1>3. I \in SUBSET (1..Len(es))
    OBVIOUS
  <1>4. at = 0 \/ at \in I
    <2> HIDE DEF I, at
    <2> QED
      BY <1>1, <1>2, <1>3, MaxIsMember
  <1>5. CASE at = 0
    BY <1>5
  <1>6. CASE at \in I
    <2>1. /\ at \in DOMAIN es /\ at # 0 /\ es[at].kind = "checkpoint" /\ es[at].by = identity
          /\ c \in 1..(IndexOf(es, es[at].id) - 1) \cap 1..(before - 1)
      <3> HIDE DEF at
      <3> QED
        BY <1>2, <1>6 DEF ParseRemoteCompactionCheckpoint, SameIdentity
    <2> HIDE DEF I, at
    <2>2. IndexOf(es, es[at].id) = at
      BY <2>1, IndexFinds
    <2>3. c \in 0..Len(es) /\ (c # 0 => es[c].id = es[at].covered)
      BY IndexFinds
    <2> HIDE DEF c
    <2>4. c \in DOMAIN es /\ c < at /\ c < before /\ c # 0
      BY <1>2, <2>1, <2>2, <2>3
    <2> QED
      BY <2>1, <2>3, <2>4 DEF at, c
  <1> QED
    BY <1>4, <1>5, <1>6

\* The ids of a history rise.
LEMMA HistoryRises ==
    ASSUME NEW es, NEW n \in Nat, NEW outputs, History(es, n, outputs)
    PROVE  Rising(es)
  <1>1. \A i \in DOMAIN es : es[i].id \in Nat
    BY DEF History
  <1> QED
    BY <1>1 DEF History, Rising, IsEntries

\* The items of a concatenation are those of its parts.
LEMMA ItemsOfConcat ==
    ASSUME NEW s, NEW t, IsPayload(s), IsPayload(t), NEW i \in DOMAIN (s \o t)
    PROVE  \/ \E j \in DOMAIN s : (s \o t)[i] = s[j]
           \/ \E j \in DOMAIN t : (s \o t)[i] = t[j]
  <1>1. PICK S : s \in Seq(S)
    BY DEF IsPayload
  <1>2. PICK T : t \in Seq(T)
    BY DEF IsPayload
  <1> DEFINE U == S \cup T
  <1>3. s \in Seq(U) /\ t \in Seq(U)
    BY <1>1, <1>2, SeqMonotonic
  <1> HIDE DEF U
  <1>4. /\ s \o t \in Seq(U) /\ Len(s \o t) = Len(s) + Len(t)
        /\ \A k \in 1..(Len(s) + Len(t)) :
             (s \o t)[k] = IF k <= Len(s) THEN s[k] ELSE t[k - Len(s)]
    BY <1>3, ConcatProperties
  <1>5. /\ Len(s) \in Nat /\ Len(t) \in Nat /\ DOMAIN s = 1..Len(s) /\ DOMAIN t = 1..Len(t)
        /\ i \in 1..(Len(s) + Len(t))
    BY <1>3, <1>4
  <1>6. CASE i <= Len(s)
    BY <1>4, <1>5, <1>6
  <1>7. CASE ~(i <= Len(s))
    <2>1. i - Len(s) \in DOMAIN t /\ (s \o t)[i] = t[i - Len(s)]
      BY <1>4, <1>5, <1>7
    <2> QED
      BY <2>1
  <1> QED
    BY <1>6, <1>7

\* What is replayed from a checkpoint: nothing is lost or repeated between it and
\* its suffix, and it holds no compacted history but that of the checkpoint.
LEMMA CheckpointReplays ==
    ASSUME NEW es, NEW n \in Nat, NEW outputs, History(es, n, outputs), NEW identity,
           NEW end \in 1..(Len(es) + 1), NEW at,
           at = ScanRemoteCompactionCheckpoints(es, identity, end), at # 0
    PROVE  LET p == CheckpointPayload(es, at, end)
           IN  /\ IsPayload(p) /\ OwnedBy(p, identity) /\ Stored(p, outputs)
               /\ CheckpointSuffix(es, at, end) # <<>> => p # <<>>
               /\ HoldsPrefixes(es) => Standing(p) = StandsFor(SubSeq(es, 1, end - 1))
  <1> DEFINE c == IndexOf(es, es[at].covered)
             o == es[at].output
             part == SubSeq(es, c + 1, end - 1)
             x == ProjectCanonicalEntries(part)
  <1>1. Rising(es)
    BY HistoryRises
  <1>2. IsEntries(es) /\ Len(es) \in Nat /\ DOMAIN es = 1..Len(es)
    BY <1>1 DEF Rising, IsEntries
  <1>3. /\ at \in DOMAIN es /\ es[at].kind = "checkpoint" /\ es[at].by = identity
        /\ c \in DOMAIN es /\ c < at /\ c < end /\ es[c].id = es[at].covered
    <2>1. end \in Int
      BY <1>2
    <2> QED
      BY <1>1, <2>1, ScanFinds
  <1>4. IsPayload(o) /\ OwnedBy(o, identity) /\ Stored(o, outputs)
    BY <1>3 DEF History
  <1>5. CheckpointSuffix(es, at, end) = x /\ CheckpointPayload(es, at, end) = o \o x
    BY DEF CheckpointSuffix, CheckpointPayload
  <1> HIDE DEF c, o
  <1>6. c + 1 \in 1..(Len(es) + 1) /\ end - 1 \in 0..Len(es) /\ c \in 0..(end - 1)
    BY <1>2, <1>3
  <1>7. IsEntries(part)
    BY <1>2, <1>6, PartOfEntries
  <1>8. StandsFor(SubSeq(es, 1, end - 1)) = StandsFor(SubSeq(es, 1, c)) \o StandsFor(part)
    BY <1>2, <1>6, PrefixSplits
  <1> HIDE DEF part
  <1>9. IsPayload(x) /\ \A i \in DOMAIN x : x[i].by = NoIdentity
    BY <1>7, EntriesProject
  <1>10. Standing(x) = StandsFor(part)
    BY DEF StandsFor
  <1> HIDE DEF x
  <1>11. IsPayload(o \o x) /\ Standing(o \o x) = Standing(o) \o Standing(x)
    BY <1>4, <1>9, StandingConcat
  <1>12. ASSUME NEW i \in DOMAIN (o \o x)
         PROVE  \/ \E j \in DOMAIN o : (o \o x)[i] = o[j]
                \/ \E j \in DOMAIN x : (o \o x)[i] = x[j]
    BY <1>4, <1>9, ItemsOfConcat
  <1>13. OwnedBy(o \o x, identity)
    <2> DEFINE w == o \o x
    <2> HIDE DEF w
    <2>1. ASSUME NEW i \in DOMAIN w PROVE w[i].by \in {NoIdentity, identity}
      BY <1>4, <1>9, <1>12 DEF OwnedBy, w
    <2> QED
      BY <2>1 DEF OwnedBy, w
  <1>14. Stored(o \o x, outputs)
    <2> DEFINE w == o \o x
    <2> HIDE DEF w
    <2>1. ASSUME NEW i \in DOMAIN w, w[i].by # NoIdentity
          PROVE  \E output \in outputs : w[i] \in ToSet(output)
      BY <1>4, <1>9, <1>12, <2>1 DEF Stored, w
    <2> QED
      BY <2>1 DEF Stored, w
  <1>15. x # <<>> => o \o x # <<>>
    <2>1. PICK S : o \in Seq(S)
      BY <1>4 DEF IsPayload
    <2>2. PICK T : x \in Seq(T)
      BY <1>9 DEF IsPayload
    <2>3. o \in Seq(S \cup T) /\ x \in Seq(S \cup T)
      BY <2>1, <2>2, SeqMonotonic
    <2> QED
      BY <2>3, ConcatEqualIffEmpty
  <1>16. HoldsPrefixes(es) => Standing(o) = StandsFor(SubSeq(es, 1, c))
    BY <1>3 DEF HoldsPrefixes, o
  <1> QED
    BY <1>5, <1>8, <1>10, <1>11, <1>13, <1>14, <1>15, <1>16

-----------------------------------------------------------------------------
(* How a branch moves.                                                     *)

\* What is known of an entry stays so as long as the entry is on the branch.
KeepsEntries(es, fs, n) ==
    \A k \in DOMAIN fs : fs[k].id \in 0..n =>
        k \in DOMAIN es /\ es[k].id = fs[k].id /\ SubSeq(fs, 1, k) = SubSeq(es, 1, k)

\* The one is a prefix of the other.
Extends(es, fs) ==
    /\ Len(es) <= Len(fs)
    /\ \A m \in 0..Len(es) : SubSeq(fs, 1, m) = SubSeq(es, 1, m)

\* A history stays one as ids are used up and outputs committed.
LEMMA HistoryStays ==
    ASSUME NEW es, NEW n \in Nat, NEW k \in Nat, n <= k, NEW o, NEW p, o \subseteq p,
           History(es, n, o)
    PROVE  History(es, k, p)
  <1>1. ASSUME NEW i \in DOMAIN es
        PROVE  es[i].id \in 1..k /\ Stored(es[i].output, p)
    <2>1. es[i].id \in 1..n /\ Stored(es[i].output, o)
      BY DEF History
    <2> QED
      BY <2>1 DEF Stored
  <1> QED
    BY <1>1 DEF History

\* An entry with the next id continues a history; a checkpoint, if it holds the
\* messages up to the entry it covers.
LEMMA BranchAppends ==
    ASSUME NEW es, NEW n \in Nat, NEW o, NEW p, o \subseteq p, History(es, n, o), NEW e,
           e.id = n + 1, IsPayload(e.output), OwnedBy(e.output, e.by), Stored(e.output, p)
    PROVE  /\ History(Append(es, e), n + 1, p)
           /\ KeepsEntries(es, Append(es, e), n) /\ Extends(es, Append(es, e))
           /\ /\ HoldsPrefixes(es)
              /\ e.kind = "checkpoint" => \A c \in DOMAIN es : e.covered = es[c].id
                   => Standing(e.output) = StandsFor(SubSeq(es, 1, c))
              => HoldsPrefixes(Append(es, e))
  <1>1. PICK S : es \in Seq(S)
    BY DEF History
  <1> DEFINE U == S \cup {e}
             fs == Append(es, e)
  <1>2. es \in Seq(U) /\ e \in U
    BY <1>1, SeqMonotonic
  <1> HIDE DEF U
  <1>3. /\ Len(es) \in Nat /\ DOMAIN es = 1..Len(es) /\ fs \in Seq(U) /\ Len(fs) = Len(es) + 1
        /\ DOMAIN fs = 1..(Len(es) + 1) /\ fs[Len(es) + 1] = e
        /\ \A i \in DOMAIN es : i \in DOMAIN fs /\ fs[i] = es[i] /\ i <= Len(es)
    BY <1>2
  <1>4. ASSUME NEW m \in 0..Len(es) PROVE SubSeq(fs, 1, m) = SubSeq(es, 1, m)
    BY <1>2, <1>3
  <1> HIDE DEF fs
  <1>5. ASSUME NEW i \in DOMAIN fs PROVE i \in DOMAIN es \/ (i = Len(es) + 1 /\ fs[i] = e)
    BY <1>3
  <1>6. History(fs, n + 1, p)
    <2>1. History(es, n + 1, p)
      BY HistoryStays
    <2>2. ASSUME NEW i \in DOMAIN fs
          PROVE  /\ fs[i].id \in 1..(n + 1) /\ IsPayload(fs[i].output)
                 /\ OwnedBy(fs[i].output, fs[i].by) /\ Stored(fs[i].output, p)
      <3>1. CASE i \in DOMAIN es
        BY <1>3, <2>1, <3>1 DEF History
      <3>2. CASE fs[i] = e
        BY <3>2
      <3> QED
        BY <1>5, <3>1, <3>2
    <2>3. ASSUME NEW i \in DOMAIN fs, NEW j \in DOMAIN fs, i < j PROVE fs[i].id < fs[j].id
      <3>1. i \in DOMAIN es
        BY <1>3, <2>3
      <3>2. es[i].id \in 1..n /\ fs[i] = es[i]
        BY <1>3, <3>1 DEF History
      <3>3. CASE j \in DOMAIN es
        BY <1>3, <2>3, <3>1, <3>3 DEF History
      <3>4. CASE fs[j] = e
        BY <3>2, <3>4
      <3> QED
        BY <1>5, <3>3, <3>4
    <2> QED
      BY <1>3, <2>2, <2>3 DEF History
  <1>7. KeepsEntries(es, fs, n)
    <2> SUFFICES ASSUME NEW k \in DOMAIN fs, fs[k].id \in 0..n
                 PROVE  k \in DOMAIN es /\ es[k].id = fs[k].id /\ SubSeq(fs, 1, k) = SubSeq(es, 1, k)
      BY DEF KeepsEntries
    <2>1. k \in DOMAIN es
      BY <1>5
    <2> QED
      BY <1>3, <1>4, <2>1
  <1>8. Extends(es, fs)
    BY <1>3, <1>4 DEF Extends
  <1>9. ASSUME HoldsPrefixes(es),
               e.kind = "checkpoint" => \A c \in DOMAIN es : e.covered = es[c].id
                  => Standing(e.output) = StandsFor(SubSeq(es, 1, c))
        PROVE  HoldsPrefixes(fs)
    <2> SUFFICES ASSUME NEW i \in DOMAIN fs, NEW c \in DOMAIN fs, c < i,
                        fs[i].kind = "checkpoint", fs[i].covered = fs[c].id
                 PROVE  Standing(fs[i].output) = StandsFor(SubSeq(fs, 1, c))
      BY DEF HoldsPrefixes
    <2>1. c \in DOMAIN es /\ c \in 0..Len(es)
      BY <1>3
    <2>2. fs[c] = es[c] /\ SubSeq(fs, 1, c) = SubSeq(es, 1, c)
      BY <1>3, <1>4, <2>1
    <2>3. CASE i \in DOMAIN es
      BY <1>3, <1>9, <2>1, <2>2, <2>3 DEF HoldsPrefixes
    <2>4. CASE fs[i] = e
      BY <1>9, <2>1, <2>2, <2>4
    <2> QED
      BY <1>5, <2>3, <2>4
  <1> QED
    BY <1>6, <1>7, <1>8, <1>9 DEF fs

\* A prefix of a history is a history.
LEMMA BranchIsCut ==
    ASSUME NEW es, NEW n \in Nat, NEW o, History(es, n, o), NEW m \in 0..Len(es)
    PROVE  /\ History(SubSeq(es, 1, m), n, o)
           /\ KeepsEntries(es, SubSeq(es, 1, m), n)
           /\ HoldsPrefixes(es) => HoldsPrefixes(SubSeq(es, 1, m))
  <1>1. PICK S : es \in Seq(S)
    BY DEF History
  <1> DEFINE fs == SubSeq(es, 1, m)
  <1>2. /\ Len(es) \in Nat /\ DOMAIN es = 1..Len(es) /\ fs \in Seq(S) /\ Len(fs) = m
        /\ DOMAIN fs = 1..m /\ m <= Len(es)
        /\ \A i \in 1..m : i \in DOMAIN es /\ fs[i] = es[i]
    BY <1>1
  <1>3. ASSUME NEW k \in 1..m PROVE SubSeq(fs, 1, k) = SubSeq(es, 1, k)
    BY <1>1, <1>2
  <1> HIDE DEF fs
  <1>4. History(fs, n, o)
    <2>1. ASSUME NEW i \in DOMAIN fs
          PROVE  /\ fs[i].id \in 1..n /\ IsPayload(fs[i].output)
                 /\ OwnedBy(fs[i].output, fs[i].by) /\ Stored(fs[i].output, o)
      BY <1>2 DEF History
    <2>2. ASSUME NEW i \in DOMAIN fs, NEW j \in DOMAIN fs, i < j PROVE fs[i].id < fs[j].id
      BY <1>2, <2>2 DEF History
    <2> QED
      BY <1>2, <2>1, <2>2 DEF History
  <1>5. KeepsEntries(es, fs, n)
    BY <1>2, <1>3 DEF KeepsEntries
  <1>6. ASSUME HoldsPrefixes(es) PROVE HoldsPrefixes(fs)
    <2> SUFFICES ASSUME NEW i \in DOMAIN fs, NEW c \in DOMAIN fs, c < i,
                        fs[i].kind = "checkpoint", fs[i].covered = fs[c].id
                 PROVE  Standing(fs[i].output) = StandsFor(SubSeq(fs, 1, c))
      BY DEF HoldsPrefixes
    <2>1. fs[i] = es[i] /\ fs[c] = es[c] /\ i \in DOMAIN es /\ c \in DOMAIN es
      BY <1>2
    <2>2. SubSeq(fs, 1, c) = SubSeq(es, 1, c)
      BY <1>2, <1>3
    <2> QED
      BY <1>6, <2>1, <2>2 DEF HoldsPrefixes
  <1> QED
    BY <1>4, <1>5, <1>6 DEF fs

\* A history continues itself.
LEMMA BranchIsKept ==
    ASSUME NEW es, NEW n
    PROVE  KeepsEntries(es, es, n) /\ (Len(es) \in Nat => Extends(es, es))
  BY DEF KeepsEntries, Extends

\* The leaf is the last entry, and has the largest id.
LEMMA LeafIsLast ==
    ASSUME NEW es, NEW n \in Nat, NEW o, History(es, n, o)
    PROVE  /\ Leaf(es) \in 0..n
           /\ \A k \in DOMAIN es : es[k].id <= Leaf(es) /\ (es[k].id = Leaf(es) => k = Len(es))
           /\ es = <<>> <=> Leaf(es) = 0
           /\ es # <<>> => Len(es) \in DOMAIN es /\ es[Len(es)].id = Leaf(es)
  <1>1. PICK S : es \in Seq(S)
    BY DEF History
  <1>2. Len(es) \in Nat /\ DOMAIN es = 1..Len(es)
    BY <1>1
  <1>3. CASE es = <<>>
    <2>1. DOMAIN es = {} /\ Leaf(es) = 0
      BY <1>2, <1>3 DEF Leaf
    <2> QED
      BY <1>3, <2>1
  <1>4. CASE es # <<>>
    <2>1. Len(es) \in DOMAIN es
      BY <1>1, <1>4
    <2>2. Leaf(es) = es[Len(es)].id
      BY <1>4 DEF Leaf, Last
    <2>3. Leaf(es) \in 1..n
      BY <2>1, <2>2 DEF History
    <2>4. ASSUME NEW k \in DOMAIN es
          PROVE  es[k].id <= Leaf(es) /\ (es[k].id = Leaf(es) => k = Len(es))
      <3>1. es[k].id \in 1..n /\ k <= Len(es)
        BY <1>2 DEF History
      <3>2. k < Len(es) => es[k].id < Leaf(es)
        BY <2>1, <2>2 DEF History
      <3>3. k \in Nat
        BY <1>2
      <3> QED
        BY <1>2, <2>2, <2>3, <3>1, <3>2, <3>3
    <2> QED
      BY <1>4, <2>1, <2>2, <2>3, <2>4
  <1> QED
    BY <1>3, <1>4

-----------------------------------------------------------------------------
(* What a step leaves as it was.                                           *)

\* The branch grows, or is cut, which rewound remembers if a hook holds what it
\* has read of the branch.
BranchMoves ==
    /\ entries' \in Nat /\ entries <= entries' /\ committed \subseteq committed'
    /\ rewound => rewound'
    /\ KeepsEntries(branch, branch', entries)
    /\ \/ Extends(branch, branch')
       \/ rewound'
       \/ \A r \in Slots : req[r].pc \notin {"scanned", "estimating"}

\* The fields that the history is about.
SameRecord(r) ==
    /\ \/ req'[r].pc = req[r].pc
       \/ req[r].pc = "scanned" /\ req'[r].pc = "estimating"
    /\ req'[r].identity = req[r].identity /\ req'[r].input = req[r].input
    /\ req'[r].approved = req[r].approved /\ req'[r].token = req[r].token
    /\ req'[r].replay = req[r].replay /\ req'[r].pending = req[r].pending
    /\ req'[r].read = req[r].read /\ req'[r].proposal = req[r].proposal
    /\ req[r].pc = "dispatched" => req'[r].payload = req[r].payload
    /\ req[r].failed => req'[r].failed
    /\ req[r].closed => req'[r].closed
    /\ req[r].aborted => req'[r].aborted
    /\ guard.disposed => guard'.disposed

\* What was committed stays committed.
LEMMA StoredStays ==
    ASSUME NEW items, NEW o, NEW p, o \subseteq p, Stored(items, o)
    PROVE  Stored(items, p)
  BY DEF Stored

\* A record that keeps its fields stays sound, however the branch moves.
LEMMA RequestIsCarried ==
    ASSUME IInv, HInv, BranchMoves, NEW r \in Slots, SameRecord(r)
    PROVE  Kept(r)'
  <1>1. Kept(r) /\ entries \in Nat /\ DOMAIN req[r].proposal = {"covered", "by", "output"}
    BY DEF HInv, IInv, Session, Records, Record, Formed
  <1>2. Holding(r)'
    <2>1. Stored(req[r].replay, committed')
      BY <1>1, StoredStays DEF Kept, Holding, BranchMoves
    <2>2. Stored(req[r].approved, committed) => Stored(req[r].approved, committed')
      BY StoredStays DEF BranchMoves
    <2> QED
      BY <1>1, <2>1, <2>2 DEF Kept, Holding, SameRecord
  <1>3. Whole(r)'
    BY <1>1 DEF Kept, Whole, SameRecord, BranchMoves
  <1>4. Tied(r)'
    <2>1. req[r].token \in 0..entries /\ req[r].proposal.covered \in Nat
      BY <1>1 DEF Kept, Tied
    <2>2. req'[r].token \in 0..entries' /\ req'[r].proposal.covered \in Nat
      BY <1>1, <2>1 DEF SameRecord, BranchMoves
    <2>3. ASSUME NEW k \in DOMAIN branch', branch'[k].id = req'[r].token
          PROVE  /\ Standing(req'[r].input) = StandsFor(SubSeq(branch', 1, k))
                 /\ req'[r].pc \in {"scanned", "estimating"} =>
                      \/ rewound'
                      \/ \E m \in k..Len(branch') :
                           Standing(req'[r].replay) = StandsFor(SubSeq(branch', 1, m))
                 /\ req'[r].pc = "compacting" =>
                      /\ req'[r].proposal.covered >= req'[r].token
                      /\ \/ rewound'
                         \/ req'[r].proposal.covered = req'[r].token =>
                              Standing(req'[r].replay) = StandsFor(SubSeq(branch', 1, k))
                 /\ req'[r].proposal.output # <<>> =>
                      /\ req'[r].proposal.covered >= req'[r].token
                      /\ \/ rewound'
                         \/ req'[r].proposal.covered = req'[r].token =>
                              Standing(req'[r].proposal.output) = StandsFor(SubSeq(branch', 1, k))
      <3>1. /\ k \in DOMAIN branch /\ branch[k].id = req[r].token
            /\ SubSeq(branch', 1, k) = SubSeq(branch, 1, k)
        BY <2>1, <2>3 DEF SameRecord, BranchMoves, KeepsEntries
      <3>2. Standing(req'[r].input) = StandsFor(SubSeq(branch', 1, k))
        BY <1>1, <3>1 DEF SameRecord, Kept, Tied
      <3>3. ASSUME req'[r].pc \in {"scanned", "estimating"}, ~rewound'
            PROVE  \E m \in k..Len(branch') :
                     Standing(req'[r].replay) = StandsFor(SubSeq(branch', 1, m))
        <4>1. req[r].pc \in {"scanned", "estimating"} /\ ~rewound
          BY <3>3 DEF SameRecord, BranchMoves
        <4>2. Extends(branch, branch')
          BY <3>3, <4>1 DEF BranchMoves
        <4>3. PICK m \in k..Len(branch) :
                Standing(req[r].replay) = StandsFor(SubSeq(branch, 1, m))
          BY <1>1, <3>1, <4>1 DEF Kept, Tied
        <4>4. Len(branch) \in Nat /\ k \in 1..Len(branch) /\ Len(branch') \in Nat
          BY <3>1 DEF IInv, Grown, HInv, History, Extends
        <4>5. m \in 0..Len(branch) /\ m \in k..Len(branch')
          BY <4>2, <4>4 DEF Extends
        <4> QED
          BY <4>2, <4>3, <4>5 DEF Extends, SameRecord
      <3>4. ASSUME req'[r].pc = "compacting" \/ req'[r].proposal.output # <<>>
            PROVE  req'[r].proposal.covered >= req'[r].token
        BY <1>1, <3>1, <3>4 DEF SameRecord, Kept, Tied
      <3>5. ASSUME req'[r].pc = "compacting", ~rewound',
                   req'[r].proposal.covered = req'[r].token
            PROVE  Standing(req'[r].replay) = StandsFor(SubSeq(branch', 1, k))
        BY <1>1, <3>1, <3>5 DEF SameRecord, BranchMoves, Kept, Tied
      <3>6. ASSUME req'[r].proposal.output # <<>>, ~rewound',
                   req'[r].proposal.covered = req'[r].token
            PROVE  Standing(req'[r].proposal.output) = StandsFor(SubSeq(branch', 1, k))
        BY <1>1, <3>1, <3>6 DEF SameRecord, BranchMoves, Kept, Tied
      <3> QED
        BY <3>2, <3>3, <3>4, <3>5, <3>6
    <2> QED
      BY <2>2, <2>3 DEF Tied
  <1> QED
    BY <1>2, <1>3, <1>4 DEF Kept

\* The fields of Pi's own compaction that the history is about.
SameManual ==
    /\ manual'.pc = manual.pc /\ manual'.branch = manual.branch /\ manual'.kept = manual.kept
    /\ manual'.input = manual.input /\ manual'.proposal = manual.proposal

\* Pi's own compaction stays sound, however the branch moves.
LEMMA ManualIsCarried ==
    ASSUME IInv, HInv, BranchMoves, SameManual
    PROVE  ManualHistory'
  <1>1. ManualHistory /\ entries \in Nat
    BY DEF HInv, IInv, Session
  <1>2. History(manual.branch, entries, committed)
    BY <1>1 DEF ManualHistory
  <1>3. History(manual.branch, entries', committed')
    BY <1>1, <1>2, HistoryStays DEF BranchMoves
  <1>4. rewound' \/ HoldsPrefixes(manual.branch)
    BY <1>1 DEF ManualHistory, BranchMoves
  <1>5. Leaf(manual.branch) \in 0..entries
    BY <1>1, <1>2, LeafIsLast
  <1>6. ASSUME manual.pc \in {"resolving", "executing", "returning"},
               NEW k \in DOMAIN branch', branch'[k].id = Leaf(manual.branch)
        PROVE  manual.branch = SubSeq(branch', 1, k)
    <2>1. /\ k \in DOMAIN branch /\ branch[k].id = branch'[k].id
          /\ SubSeq(branch', 1, k) = SubSeq(branch, 1, k)
      BY <1>5, <1>6 DEF BranchMoves, KeepsEntries
    <2> QED
      BY <1>1, <1>6, <2>1 DEF ManualHistory
  <1>7. manual.pc = "executing" => Summary(manual.input)'
    BY <1>1 DEF ManualHistory, Summary, SameManual, BranchMoves
  <1>8. manual.pc = "returning" => Summary(manual.proposal.output)'
    BY <1>1 DEF ManualHistory, Summary, SameManual, BranchMoves
  <1> QED
    BY <1>1, <1>3, <1>4, <1>6, <1>7, <1>8 DEF ManualHistory, SameManual

\* The branch is as it was.
LEMMA BranchRests ==
    ASSUME IInv, HInv, UNCHANGED <<branch, entries, committed, rewound>>
    PROVE  /\ BranchMoves /\ entries \in Nat
           /\ (History(branch, entries, committed) /\ (rewound \/ HoldsPrefixes(branch)))'
  <1>1. entries \in Nat /\ Len(branch) \in Nat
    BY DEF IInv, Session, Grown
  <1>2. KeepsEntries(branch, branch', entries) /\ Extends(branch, branch')
    BY <1>1, BranchIsKept
  <1> QED
    BY <1>1, <1>2 DEF BranchMoves, HInv

\* A step of one request.
LEMMA RequestMoves ==
    ASSUME IInv, HInv, NEW r \in Slots, OnlyOf(r), Kept(r)', UNCHANGED <<guard, manual>>,
           UNCHANGED <<branch, entries, committed, rewound>>
    PROVE  HInv'
  <1>1. BranchMoves
    BY BranchRests
  <1>2. (History(branch, entries, committed) /\ (rewound \/ HoldsPrefixes(branch)))'
    BY BranchRests
  <1>3. ManualHistory'
    BY <1>1, ManualIsCarried DEF SameManual
  <1>4. ASSUME NEW s \in Slots, s # r PROVE Kept(s)'
    <2>1. SameRecord(s)
      BY <1>4 DEF OnlyOf, SameRecord
    <2> QED
      BY <1>1, <2>1, RequestIsCarried
  <1> QED
    BY <1>2, <1>3, <1>4 DEF HInv

\* Empty payloads, and the payload of no approval, hold nothing compacted.
LEMMA NothingHeld ==
    /\ IsPayload(<<>>) /\ IsPayload(NoPayload)
    /\ \A identity : OwnedBy(<<>>, identity) /\ OwnedBy(NoPayload, identity)
    /\ \A outputs : Stored(<<>>, outputs) /\ Stored(NoPayload, outputs)
  <1>1. /\ <<>> \in Seq({}) /\ DOMAIN <<>> = {}
        /\ NoPayload \in Seq({ForeignItem}) /\ \A i \in DOMAIN NoPayload : NoPayload[i] = ForeignItem
    BY DEF NoPayload
  <1>2. ForeignItem.ids = <<0>> /\ ForeignItem.by = NoIdentity
    BY DEF ForeignItem
  <1>3. <<0>> \in Seq(Nat)
    OBVIOUS
  <1>4. IsPayload(<<>>)
    BY <1>1 DEF IsPayload
  <1>5. IsPayload(NoPayload)
    BY <1>1, <1>2, <1>3 DEF IsPayload
  <1> QED
    BY <1>1, <1>2, <1>4, <1>5 DEF OwnedBy, Stored

\* A record that is free or being prepared, or whose hook has failed.
LEMMA BlankIsKept ==
    ASSUME NEW r \in Slots, History(branch, entries, committed)', entries' \in Nat,
           IsPayload(req[r].input)', OwnedBy(req[r].input, NoIdentity)',
           req'[r].replay = <<>>, req'[r].approved = NoPayload, req'[r].proposal = NoProposal,
           req'[r].token = 0, req'[r].pending = FALSE,
           \/ req'[r].pc \in {"free", "preparing"}
           \/ /\ req'[r].pc = "answered"
              /\ req'[r].failed \/ req'[r].closed \/ req'[r].aborted \/ guard'.disposed
    PROVE  Kept(r)'
  <1>1. req'[r].proposal.output = <<>> /\ req'[r].proposal.covered = 0
    BY DEF NoProposal
  <1>2. Holding(r)'
    BY <1>1, NothingHeld DEF Holding
  <1>3. Whole(r)'
    BY DEF Whole
  <1>4. Tied(r)'
    <2>1. \A k \in DOMAIN branch' : branch'[k].id # req'[r].token
      BY DEF History
    <2>2. req'[r].token \in 0..entries' /\ req'[r].proposal.covered \in Nat
      BY <1>1
    <2> QED
      BY <2>1, <2>2 DEF Tied
  <1> QED
    BY <1>2, <1>3, <1>4 DEF Kept

\* A failed hook leaves nothing behind.
LEMMA FailedIsKept ==
    ASSUME IInv, HInv, NEW r \in Slots, req' = HookFails(r), UNCHANGED <<guard, manual>>,
           UNCHANGED <<branch, entries, committed, rewound>>
    PROVE  HInv'
  <1>1. Record(r) /\ DOMAIN req = Slots
    BY DEF IInv, Records
  <1>2. OnlyOf(r)
    BY <1>1 DEF HookFails, OnlyOf
  <1> DEFINE x == req'[r]
  <1>3. /\ x.pc = "answered" /\ x.failed = (req[r].failed \/ AssertLive(r)) /\ x.input = <<>>
        /\ x.closed = req[r].closed /\ x.aborted = req[r].aborted /\ x.replay = <<>>
        /\ x.approved = NoPayload /\ x.proposal = NoProposal /\ x.token = 0 /\ x.pending = FALSE
    BY <1>1 DEF HookFails, Free
  <1>4. x.failed \/ x.closed \/ x.aborted \/ guard'.disposed
    BY <1>1, <1>3 DEF AssertLive, Record, Formed
  <1>5. entries' \in Nat /\ History(branch, entries, committed)'
    BY BranchRests
  <1> HIDE DEF x
  <1>6. Kept(r)'
    BY <1>3, <1>4, <1>5, NothingHeld, BlankIsKept DEF x
  <1> QED
    BY <1>2, <1>6, RequestMoves

\* Neither does the end of a request.
LEMMA FreedIsKept ==
    ASSUME IInv, HInv, NEW r \in Slots, req' = [req EXCEPT ![r] = Free],
           UNCHANGED <<guard, manual>>, UNCHANGED <<branch, entries, committed, rewound>>
    PROVE  HInv'
  <1>1. DOMAIN req = Slots
    BY DEF IInv, Records
  <1>2. OnlyOf(r) /\ req'[r] = Free
    BY <1>1 DEF OnlyOf
  <1>3. entries' \in Nat /\ History(branch, entries, committed)'
    BY BranchRests
  <1>4. /\ Free.pc = "free" /\ Free.input = <<>> /\ Free.replay = <<>> /\ Free.approved = NoPayload
        /\ Free.proposal = NoProposal /\ Free.token = 0 /\ Free.pending = FALSE
    BY DEF Free
  <1>5. Kept(r)'
    BY <1>2, <1>3, <1>4, NothingHeld, BlankIsKept
  <1> QED
    BY <1>2, <1>5, RequestMoves

\* A payload that stands for the request's context may be approved.
LEMMA ApprovedIsKept ==
    ASSUME IInv, HInv, NEW r \in Slots, NEW payload, IsPayload(payload),
           OwnedBy(payload, req[r].identity), Stored(payload, committed),
           rewound \/ Standing(payload) \in {Standing(req[r].input), req[r].read},
           req[r].pc \notin {"compacting", "answered"}, req' = Approve(r, payload),
           UNCHANGED <<guard, manual>>, UNCHANGED <<branch, entries, committed, rewound>>
    PROVE  HInv'
  <1>1. Record(r) /\ DOMAIN req = Slots /\ Kept(r)
    BY DEF IInv, Records, HInv
  <1>2. OnlyOf(r)
    BY <1>1 DEF Approve, OnlyOf
  <1> DEFINE x == req'[r]
  <1>3. /\ x.pc = "answered" /\ x.approved = payload /\ x.input = req[r].input /\ x.replay = <<>>
        /\ x.pending = FALSE /\ x.identity = req[r].identity /\ x.token = req[r].token
        /\ x.proposal = req[r].proposal /\ x.read = req[r].read
    BY <1>1 DEF Approve, Record, Formed, Fields
  <1>4. req[r].proposal.output = <<>>
    BY <1>1 DEF Record, Proposed
  <1> HIDE DEF x
  <1>5. Holding(r)'
    BY <1>1, <1>3, <1>4, NothingHeld DEF x, Kept, Holding
  <1>6. Whole(r)'
    BY <1>3 DEF x, Whole
  <1>7. Tied(r)'
    BY <1>1, <1>3, <1>4 DEF x, Kept, Tied
  <1>8. Kept(r)'
    BY <1>5, <1>6, <1>7 DEF Kept
  <1> QED
    BY <1>2, <1>8, RequestMoves

-----------------------------------------------------------------------------
(* The history, request by request.                                        *)

\* What is projected from the branch.
LEMMA BranchProjects ==
    ASSUME IInv, HInv
    PROVE  /\ Rising(branch) /\ IsEntries(branch) /\ Len(branch) \in Nat
           /\ DOMAIN branch = 1..Len(branch) /\ SubSeq(branch, 1, Len(branch)) = branch
           /\ IsPayload(ProjectCanonicalEntries(branch))
           /\ OwnedBy(ProjectCanonicalEntries(branch), NoIdentity)
  <1>1. Rising(branch)
    BY HistoryRises DEF HInv, IInv, Session
  <1>2. IsEntries(branch)
    BY <1>1 DEF Rising
  <1>3. PICK S : branch \in Seq(S)
    BY <1>2 DEF IsEntries
  <1>4. /\ IsPayload(ProjectCanonicalEntries(branch))
        /\ \A i \in DOMAIN ProjectCanonicalEntries(branch) :
             ProjectCanonicalEntries(branch)[i].by = NoIdentity
    BY <1>2, EntriesProject
  <1>5. OwnedBy(ProjectCanonicalEntries(branch), NoIdentity)
    BY <1>4 DEF OwnedBy
  <1>6. SubSeq(branch, 1, Len(branch)) = branch
    BY <1>3, SubSeqFull
  <1> QED
    BY <1>1, <1>2, <1>3, <1>4, <1>5, <1>6

\* The context of a request is what is projected from the branch.
LEMMA StartKeepsHistory ==
    ASSUME IInv, HInv, NEW r \in Slots, Start(r)
    PROVE  HInv'
  <1>1. DOMAIN req = Slots
    BY DEF IInv, Records
  <1>2. UNCHANGED <<guard, manual, branch, entries, committed, rewound>>
    BY DEF Start, branchVars
  <1> DEFINE x == req'[r]
             p == ProjectCanonicalEntries(branch)
  <1>3. OnlyOf(r)
    BY <1>1 DEF Start, OnlyOf
  <1>4. /\ x.pc = "preparing" /\ x.input = p /\ x.replay = <<>> /\ x.approved = NoPayload
        /\ x.proposal = NoProposal /\ x.token = 0 /\ x.pending = FALSE
    BY <1>1 DEF Start, Free, BuildCodexRequest
  <1>5. IsPayload(p) /\ OwnedBy(p, NoIdentity)
    BY BranchProjects
  <1>6. entries' \in Nat /\ History(branch, entries, committed)'
    BY <1>2, BranchRests
  <1> HIDE DEF x, p
  <1>7. Kept(r)'
    BY <1>4, <1>5, <1>6, BlankIsKept DEF x
  <1> QED
    BY <1>2, <1>3, <1>7, RequestMoves

\* A token is for a leaf whose history is the context of the request.
LEMMA OpenKeepsHistory ==
    ASSUME IInv, HInv, NEW r \in Slots, Open(r)
    PROVE  HInv'
  <1>1. Record(r) /\ DOMAIN req = Slots /\ Kept(r) /\ entries \in Nat
    BY DEF IInv, Records, HInv, Session
  <1>2. /\ UNCHANGED <<manual, branch, entries, committed, rewound>> /\ req[r].pc = "preparing"
        /\ guard'.disposed = guard.disposed
    BY DEF Open, branchVars, IInv, Session
  <1>3. PICK token \in {0, Leaf(branch)} :
          /\ token # 0 => req[r].input = ProjectCanonicalEntries(branch)
          /\ req' = [req EXCEPT ![r].pc = "hooking", ![r].generation = guard.next + 1,
                                ![r].payload = req[r].input, ![r].epoch = epoch,
                                ![r].token = token]
    BY DEF Open
  <1>4. OnlyOf(r)
    BY <1>1, <1>3 DEF OnlyOf
  <1> DEFINE x == req'[r]
  <1>5. /\ x.pc = "hooking" /\ x.token = token /\ x.input = req[r].input /\ x.replay = req[r].replay
        /\ x.approved = req[r].approved /\ x.identity = req[r].identity
        /\ x.pending = req[r].pending /\ x.proposal = req[r].proposal
    BY <1>1, <1>3 DEF Record, Formed, Fields
  <1>6. req[r].proposal.output = <<>>
    BY <1>1, <1>2 DEF Record, Proposed
  <1> HIDE DEF x
  <1>7. Holding(r)'
    BY <1>1, <1>2, <1>5 DEF x, Kept, Holding
  <1>8. Whole(r)'
    BY <1>5 DEF x, Whole
  <1>9. Tied(r)'
    <2>1. /\ Leaf(branch) \in 0..entries
          /\ \A k \in DOMAIN branch : branch[k].id = Leaf(branch) => k = Len(branch)
      BY <1>1, LeafIsLast DEF HInv
    <2>2. \A k \in DOMAIN branch : branch[k].id # 0
      BY DEF HInv, History
    <2>3. ASSUME NEW k \in DOMAIN branch, branch[k].id = token
          PROVE  Standing(req[r].input) = StandsFor(SubSeq(branch, 1, k))
      <3>1. token # 0 /\ k = Len(branch)
        BY <1>3, <2>1, <2>2, <2>3
      <3>2. SubSeq(branch, 1, k) = branch
        BY <3>1, BranchProjects
      <3> QED
        BY <1>3, <3>1, <3>2 DEF StandsFor
    <2>4. token \in 0..entries /\ req[r].proposal.covered \in Nat
      BY <1>1, <1>3, <2>1 DEF Kept, Tied
    <2> QED
      BY <1>2, <1>5, <1>6, <2>3, <2>4 DEF x, Tied
  <1>10. ASSUME NEW s \in Slots PROVE Kept(s)'
    <2>1. CASE s = r
      BY <1>7, <1>8, <1>9, <2>1 DEF Kept
    <2>2. CASE s # r
      <3>1. SameRecord(s)
        BY <1>2, <1>4, <2>2 DEF OnlyOf, SameRecord
      <3> QED
        BY <1>2, <3>1, BranchRests, RequestIsCarried
    <2> QED
      BY <2>1, <2>2
  <1>11. ManualHistory'
    BY <1>2, BranchRests, ManualIsCarried DEF SameManual
  <1>12. (History(branch, entries, committed) /\ (rewound \/ HoldsPrefixes(branch)))'
    BY <1>2, BranchRests
  <1> QED
    BY <1>10, <1>11, <1>12 DEF HInv

\* The replay is the context as it came, or a checkpoint and what follows it.
LEMMA ScanKeepsHistory ==
    ASSUME IInv, HInv, NEW r \in Slots, Scan(r)
    PROVE  HInv'
  <1>1. Record(r) /\ DOMAIN req = Slots /\ Kept(r) /\ entries \in Nat
    BY DEF IInv, Records, HInv, Session
  <1>2. /\ UNCHANGED <<guard, manual, branch, entries, committed, rewound>> /\ req[r].pc = "hooking"
    BY DEF Scan
  <1> DEFINE end == Len(branch) + 1
             at == Selected(r)
             replay == IF at = 0 THEN req[r].input ELSE CheckpointPayload(branch, at, end)
             pending == IF at = 0 THEN req[r].input # <<>>
                        ELSE CheckpointSuffix(branch, at, end) # <<>>
             read == StandsFor(branch)
  <1>3. req' = [req EXCEPT ![r].pc = "scanned", ![r].replay = replay, ![r].pending = pending,
                           ![r].read = read]
    BY DEF Scan, StandsFor
  <1>4. /\ IsPayload(replay) /\ OwnedBy(replay, req[r].identity) /\ Stored(replay, committed)
        /\ pending => replay # <<>>
        /\ \/ at = 0 /\ replay = req[r].input
           \/ rewound \/ Standing(replay) = read
    <2>1. CASE at = 0
      <3>1. replay = req[r].input /\ (pending => replay # <<>>)
        BY <2>1
      <3>2. IsPayload(req[r].input) /\ OwnedBy(req[r].input, NoIdentity)
        BY <1>1 DEF Kept, Holding
      <3>3. OwnedBy(req[r].input, req[r].identity) /\ Stored(req[r].input, committed)
        BY <3>2 DEF OwnedBy, Stored
      <3> HIDE DEF replay, pending, at
      <3> QED
        BY <2>1, <3>1, <3>2, <3>3
    <2>2. CASE at # 0
      <3>1. end \in 1..(Len(branch) + 1) /\ end - 1 = Len(branch)
        BY BranchProjects
      <3>2. at = ScanRemoteCompactionCheckpoints(branch, req[r].identity, end)
        BY DEF Selected
      <3>3. History(branch, entries, committed) /\ (rewound \/ HoldsPrefixes(branch))
        BY DEF HInv
      <3>4. SubSeq(branch, 1, end - 1) = branch
        BY <3>1, BranchProjects
      <3>5. replay = CheckpointPayload(branch, at, end)
            /\ (pending <=> CheckpointSuffix(branch, at, end) # <<>>)
        BY <2>2
      <3> DEFINE p == CheckpointPayload(branch, at, end)
      <3> HIDE DEF replay, pending, at, end
      <3>6. /\ IsPayload(p) /\ OwnedBy(p, req[r].identity) /\ Stored(p, committed)
            /\ CheckpointSuffix(branch, at, end) # <<>> => p # <<>>
            /\ HoldsPrefixes(branch) => Standing(p) = StandsFor(SubSeq(branch, 1, end - 1))
        BY <1>1, <2>2, <3>1, <3>2, <3>3, CheckpointReplays
      <3> QED
        BY <3>3, <3>4, <3>5, <3>6
    <2> QED
      BY <2>1, <2>2
  <1> HIDE DEF at, end, replay, pending, read
  <1>5. OnlyOf(r)
    BY <1>1, <1>3 DEF OnlyOf
  <1> DEFINE x == req'[r]
  <1>6. /\ x.pc = "scanned" /\ x.replay = replay /\ x.pending = pending /\ x.read = read
        /\ x.input = req[r].input /\ x.token = req[r].token /\ x.identity = req[r].identity
        /\ x.approved = req[r].approved /\ x.proposal = req[r].proposal
    BY <1>1, <1>3 DEF Record, Formed, Fields
  <1>7. req[r].proposal.output = <<>>
    BY <1>1, <1>2 DEF Record, Proposed
  <1> HIDE DEF x
  <1>8. Holding(r)'
    BY <1>1, <1>2, <1>4, <1>6, <1>7 DEF x, Kept, Holding
  <1>9. Whole(r)'
    BY <1>2, <1>4, <1>6 DEF x, Whole
  <1>10. Tied(r)'
    <2>1. ASSUME NEW k \in DOMAIN branch, branch[k].id = req[r].token, ~rewound
          PROVE  \E m \in k..Len(branch) : Standing(replay) = StandsFor(SubSeq(branch, 1, m))
      <3>1. k \in 1..Len(branch) /\ Len(branch) \in Nat /\ SubSeq(branch, 1, Len(branch)) = branch
        BY BranchProjects
      <3>2. CASE at = 0 /\ replay = req[r].input
        <4>1. k \in k..Len(branch)
          BY <3>1
        <4>2. Standing(replay) = StandsFor(SubSeq(branch, 1, k))
          BY <1>1, <2>1, <3>2 DEF Kept, Tied
        <4> QED
          BY <4>1, <4>2
      <3>3. CASE Standing(replay) = read
        <4>1. Len(branch) \in k..Len(branch)
          BY <3>1
        <4> QED
          BY <3>1, <3>3, <4>1 DEF read
      <3> QED
        BY <1>4, <2>1, <3>2, <3>3
    <2>2. req[r].token \in 0..entries /\ req[r].proposal.covered \in Nat
      BY <1>1 DEF Kept, Tied
    <2>3. \A k \in DOMAIN branch : branch[k].id = req[r].token =>
            Standing(req[r].input) = StandsFor(SubSeq(branch, 1, k))
      BY <1>1 DEF Kept, Tied
    <2> QED
      BY <1>2, <1>6, <1>7, <2>1, <2>2, <2>3 DEF x, Tied
  <1>11. Kept(r)'
    BY <1>8, <1>9, <1>10 DEF Kept
  <1> QED
    BY <1>2, <1>5, <1>11, RequestMoves

\* The context as it came stands for itself.
LEMMA ApproveSummaryKeepsHistory ==
    ASSUME IInv, HInv, NEW r \in Slots, ApproveSummary(r)
    PROVE  HInv'
  <1>1. /\ UNCHANGED <<guard, manual, branch, entries, committed, rewound>>
        /\ req[r].pc = "hooking" /\ req' = Approve(r, req[r].input)
    BY DEF ApproveSummary
  <1>2. IsPayload(req[r].input) /\ OwnedBy(req[r].input, NoIdentity)
    BY DEF HInv, Kept, Holding
  <1>3. OwnedBy(req[r].input, req[r].identity) /\ Stored(req[r].input, committed)
    BY <1>2 DEF OwnedBy, Stored
  <1> QED
    BY <1>1, <1>2, <1>3, ApprovedIsKept

\* Reading the accounting leaves the replay as it is.
LEMMA AccountKeepsHistory ==
    ASSUME IInv, HInv, NEW r \in Slots, Account(r)
    PROVE  HInv'
  <1>1. Record(r) /\ DOMAIN req = Slots
    BY DEF IInv, Records
  <1>2. /\ UNCHANGED <<guard, manual, branch, entries, committed, rewound>>
        /\ req[r].pc = "scanned"
        /\ req' = [req EXCEPT ![r].pc = "estimating",
                     ![r].accounting = [generation |-> store'.generation, input |-> req[r].replay]]
    BY DEF Account, branchVars
  <1>3. OnlyOf(r)
    BY <1>1, <1>2 DEF OnlyOf
  <1> DEFINE x == req'[r]
  <1>4. /\ x.pc = "estimating" /\ x.replay = req[r].replay /\ x.pending = req[r].pending
        /\ x.read = req[r].read /\ x.input = req[r].input /\ x.token = req[r].token
        /\ x.identity = req[r].identity /\ x.approved = req[r].approved
        /\ x.proposal = req[r].proposal /\ x.failed = req[r].failed /\ x.closed = req[r].closed
        /\ x.aborted = req[r].aborted
    BY <1>1, <1>2 DEF Record, Formed, Fields
  <1> HIDE DEF x
  <1>5. SameRecord(r)
    BY <1>2, <1>4 DEF x, SameRecord
  <1>6. Kept(r)'
    BY <1>2, <1>5, BranchRests, RequestIsCarried
  <1> QED
    BY <1>2, <1>3, <1>6, RequestMoves

\* What fits is approved as it was read.
LEMMA EstimatedKeepsHistory ==
    ASSUME IInv, HInv, NEW r \in Slots, Estimated(r)
    PROVE  HInv'
  <1>1. /\ UNCHANGED <<guard, manual, branch, entries, committed, rewound>>
        /\ req[r].pc = "estimating"
        /\ req' = HookFails(r) \/ req' = Approve(r, req[r].replay)
    BY DEF Estimated, branchVars
  <1>2. /\ IsPayload(req[r].replay) /\ OwnedBy(req[r].replay, req[r].identity)
        /\ Stored(req[r].replay, committed)
        /\ rewound \/ Standing(req[r].replay) \in {Standing(req[r].input), req[r].read}
    BY <1>1 DEF HInv, Kept, Holding, Whole
  <1> QED
    BY <1>1, <1>2, FailedIsKept, ApprovedIsKept

\* Should the branch have stayed as the hook read it, what is compacted stands for
\* all of it; should it have grown, Pi's token is no longer that of its leaf.
LEMMA BeginCompactionKeepsHistory ==
    ASSUME IInv, HInv, NEW r \in Slots, BeginCompaction(r)
    PROVE  HInv'
  <1>1. Record(r) /\ DOMAIN req = Slots /\ Kept(r) /\ entries \in Nat
    BY DEF IInv, Records, HInv, Session
  <1>2. /\ UNCHANGED <<guard, manual, branch, entries, committed, rewound>>
        /\ req[r].pc = "estimating" /\ req[r].pending
        /\ req' = [req EXCEPT ![r].pc = "compacting",
                     ![r].proposal = [NoProposal EXCEPT !.covered = Leaf(branch)]]
    BY DEF BeginCompaction, ShouldCreateAutomaticCheckpoint, branchVars
  <1>3. OnlyOf(r)
    BY <1>1, <1>2 DEF OnlyOf
  <1> DEFINE x == req'[r]
  <1>4. /\ x.pc = "compacting" /\ x.replay = req[r].replay /\ x.pending = req[r].pending
        /\ x.read = req[r].read /\ x.input = req[r].input /\ x.token = req[r].token
        /\ x.identity = req[r].identity /\ x.approved = req[r].approved
        /\ x.proposal.covered = Leaf(branch) /\ x.proposal.output = <<>>
    BY <1>1, <1>2 DEF Record, Formed, Fields, NoProposal
  <1>5. req[r].proposal.output = <<>>
    BY <1>1, <1>2 DEF Record, Proposed
  <1> HIDE DEF x
  <1>6. Holding(r)'
    BY <1>1, <1>2, <1>4, <1>5 DEF x, Kept, Holding
  <1>7. Whole(r)'
    BY <1>1, <1>2, <1>4 DEF x, Kept, Whole
  <1>8. Tied(r)'
    <2>1. /\ Leaf(branch) \in 0..entries
          /\ \A k \in DOMAIN branch :
               branch[k].id <= Leaf(branch) /\ (branch[k].id = Leaf(branch) => k = Len(branch))
      BY <1>1, LeafIsLast DEF HInv
    <2>2. req[r].token \in 0..entries
      BY <1>1 DEF Kept, Tied
    <2>3. ASSUME NEW k \in DOMAIN branch, branch[k].id = req[r].token
          PROVE  /\ Standing(req[r].input) = StandsFor(SubSeq(branch, 1, k))
                 /\ Leaf(branch) >= req[r].token
                 /\ \/ rewound
                    \/ Leaf(branch) = req[r].token =>
                         Standing(req[r].replay) = StandsFor(SubSeq(branch, 1, k))
      <3>1. Standing(req[r].input) = StandsFor(SubSeq(branch, 1, k))
        BY <1>1, <2>3 DEF Kept, Tied
      <3>2. Leaf(branch) >= req[r].token
        BY <1>1, <2>1, <2>2, <2>3
      <3>3. ASSUME ~rewound, Leaf(branch) = req[r].token
            PROVE  Standing(req[r].replay) = StandsFor(SubSeq(branch, 1, k))
        <4>1. PICK m \in k..Len(branch) :
                Standing(req[r].replay) = StandsFor(SubSeq(branch, 1, m))
          BY <1>1, <1>2, <2>3, <3>3 DEF Kept, Tied
        <4>2. k = Len(branch) /\ Len(branch) \in Nat
          BY <2>1, <2>3, <3>3, BranchProjects
        <4>3. m = k
          BY <4>2
        <4> QED
          BY <4>1, <4>3
      <3> QED
        BY <3>1, <3>2, <3>3
    <2>4. Leaf(branch) \in Nat
      BY <1>1, <2>1
    <2> QED
      BY <1>2, <1>4, <2>2, <2>3, <2>4 DEF x, Tied
  <1>9. Kept(r)'
    BY <1>6, <1>7, <1>8 DEF Kept
  <1> QED
    BY <1>2, <1>3, <1>9, RequestMoves

\* A validated output stands for the replay it was made of.
LEMMA CompactedKeepsHistory ==
    ASSUME IInv, HInv, NEW r \in Slots, Compacted(r)
    PROVE  HInv'
  <1>1. Record(r) /\ DOMAIN req = Slots /\ Kept(r) /\ entries \in Nat
    BY DEF IInv, Records, HInv, Session
  <1>2. UNCHANGED <<guard, manual, branch, entries, committed, rewound>> /\ req[r].pc = "compacting"
    BY DEF Compacted, branchVars
  <1>3. PICK output \in RemoteOutputs(req[r].replay, req[r].identity) :
          /\ ValidateCompactionOutput(output)
          /\ req' = [Approve(r, output) EXCEPT
                       ![r].accounting = [generation |-> store'.generation, input |-> output],
                       ![r].proposal.by = req[r].identity, ![r].proposal.output = output]
    BY DEF Compacted
  <1>4. OnlyOf(r)
    BY <1>1, <1>3 DEF Approve, OnlyOf
  <1> DEFINE x == req'[r]
  <1>5. /\ x.pc = "answered" /\ x.approved = output /\ x.input = req[r].input /\ x.replay = <<>>
        /\ x.pending = FALSE /\ x.identity = req[r].identity /\ x.token = req[r].token
        /\ x.read = req[r].read /\ x.proposal.covered = req[r].proposal.covered
        /\ x.proposal.by = req[r].identity /\ x.proposal.output = output
    <2> DEFINE y == Approve(r, output)[r]
    <2>1. /\ DOMAIN y = Fields /\ y.pc = "answered" /\ y.approved = output
          /\ y.input = req[r].input /\ y.replay = <<>> /\ y.pending = FALSE
          /\ y.identity = req[r].identity /\ y.token = req[r].token /\ y.read = req[r].read
          /\ y.proposal = req[r].proposal
      BY <1>1 DEF Approve, Record, Formed, Fields
    <2>2. DOMAIN Approve(r, output) = Slots /\ DOMAIN req[r].proposal = {"covered", "by", "output"}
      BY <1>1 DEF Approve, Record, Formed
    <2>3. x = [y EXCEPT !.accounting = [generation |-> store'.generation, input |-> output],
                        !.proposal.by = req[r].identity, !.proposal.output = output]
      BY <1>3, <2>2
    <2> HIDE DEF x, y
    <2>4. x.proposal = [[req[r].proposal EXCEPT !.by = req[r].identity] EXCEPT !.output = output]
      BY <2>1, <2>3 DEF Fields
    <2>5. /\ x.proposal.covered = req[r].proposal.covered
          /\ x.proposal.by = req[r].identity /\ x.proposal.output = output
      BY <2>2, <2>4
    <2>6. /\ x.pc = y.pc /\ x.approved = y.approved /\ x.input = y.input /\ x.replay = y.replay
          /\ x.pending = y.pending /\ x.identity = y.identity /\ x.token = y.token
          /\ x.read = y.read
      BY <2>1, <2>3 DEF Fields
    <2> QED
      BY <2>1, <2>5, <2>6
  <1>6. /\ IsPayload(output) /\ output # <<>> /\ OwnedBy(output, req[r].identity)
        /\ Standing(output) = Standing(req[r].replay)
    <2>1. req[r].identity # NoIdentity
      BY <1>1, <1>2 DEF Record, Accounted
    <2>2. /\ IsPayload(req[r].replay) /\ req[r].replay # <<>>
          /\ OwnedBy(req[r].replay, req[r].identity)
      BY <1>1, <1>2 DEF Kept, Holding
    <2> QED
      BY <1>3, <2>1, <2>2, RemoteStands
  <1> HIDE DEF x
  <1>7. Holding(r)'
    BY <1>1, <1>2, <1>5, <1>6, NothingHeld DEF x, Kept, Holding
  <1>8. Whole(r)'
    BY <1>1, <1>2, <1>5, <1>6 DEF x, Kept, Whole
  <1>9. Tied(r)'
    BY <1>1, <1>2, <1>5, <1>6 DEF x, Kept, Tied
  <1>10. Kept(r)'
    BY <1>7, <1>8, <1>9 DEF Kept
  <1> QED
    BY <1>2, <1>4, <1>10, RequestMoves

\* Every error of the hook gives up what it held.
LEMMA FailuresKeepHistory ==
    ASSUME IInv, HInv, NEW r \in Slots,
           ContextWindowError(r) \/ CompactionFails(r) \/ HookError(r)
    PROVE  HInv'
  <1>1. UNCHANGED <<guard, manual, branch, entries, committed, rewound>> /\ req' = HookFails(r)
    BY DEF ContextWindowError, CompactionFails, HookError, branchVars
  <1> QED
    BY <1>1, FailedIsKept

\* So does the end of a request.
LEMMA EndsKeepHistory ==
    ASSUME IInv, HInv, NEW r \in Slots, Indeterminate(r) \/ Complete(r) \/ Fail(r)
    PROVE  HInv'
  <1>1. /\ UNCHANGED <<guard, manual, branch, entries, committed, rewound>>
        /\ req' = [req EXCEPT ![r] = Free]
    BY DEF Indeterminate, Complete, Fail, Rejected, branchVars
  <1> QED
    BY <1>1, FreedIsKept

\* What another extension puts in the place of the payload is not approved, and
\* an abort is one more reason not to dispatch it.
LEMMA ReplaceKeepsHistory ==
    ASSUME IInv, HInv, NEW r \in Slots, Replace(r) \/ Abort(r)
    PROVE  HInv'
  <1>1. Record(r) /\ DOMAIN req = Slots
    BY DEF IInv, Records
  <1>2. /\ UNCHANGED <<guard, manual, branch, entries, committed, rewound>>
        /\ \/ req[r].pc = "answered" /\ req' = [req EXCEPT ![r].payload = <<ForeignItem>>]
           \/ req' = [req EXCEPT ![r].aborted = TRUE]
    BY DEF Replace, Abort, branchVars
  <1>3. OnlyOf(r)
    BY <1>1, <1>2 DEF OnlyOf
  <1> DEFINE x == req'[r]
  <1>4. /\ x.pc = req[r].pc /\ x.replay = req[r].replay /\ x.pending = req[r].pending
        /\ x.read = req[r].read /\ x.input = req[r].input /\ x.token = req[r].token
        /\ x.identity = req[r].identity /\ x.approved = req[r].approved
        /\ x.proposal = req[r].proposal /\ x.failed = req[r].failed /\ x.closed = req[r].closed
        /\ req[r].aborted => x.aborted
        /\ req[r].pc = "answered" \/ x.payload = req[r].payload
    BY <1>1, <1>2 DEF Record, Formed, Fields
  <1> HIDE DEF x
  <1>5. SameRecord(r)
    BY <1>2, <1>4 DEF x, SameRecord
  <1>6. Kept(r)'
    BY <1>2, <1>5, BranchRests, RequestIsCarried
  <1> QED
    BY <1>2, <1>3, <1>6, RequestMoves

\* What is dispatched is what was approved.
LEMMA DispatchKeepsHistory ==
    ASSUME IInv, HInv, NEW r \in Slots, Dispatch(r)
    PROVE  HInv'
  <1>1. Record(r) /\ DOMAIN req = Slots /\ Kept(r) /\ entries \in Nat
    BY DEF IInv, Records, HInv, Session
  <1>2. /\ UNCHANGED <<guard, manual, branch, entries, committed, rewound>>
        /\ req[r].pc = "answered" /\ req[r].proposal = NoProposal /\ AssertApproved(r)
        /\ req' = [req EXCEPT ![r].pc = "dispatched", ![r].token = 0]
    BY DEF Dispatch, branchVars
  <1>3. OnlyOf(r)
    BY <1>1, <1>2 DEF OnlyOf
  <1> DEFINE x == req'[r]
  <1>4. /\ x.pc = "dispatched" /\ x.token = 0 /\ x.replay = req[r].replay
        /\ x.pending = req[r].pending /\ x.read = req[r].read /\ x.input = req[r].input
        /\ x.identity = req[r].identity /\ x.approved = req[r].approved
        /\ x.proposal = NoProposal /\ x.payload = req[r].payload
    BY <1>1, <1>2 DEF Record, Formed, Fields
  <1>5. /\ req[r].payload = req[r].approved
        /\ ~(req[r].failed \/ req[r].closed \/ req[r].aborted \/ guard.disposed)
    BY <1>2 DEF AssertApproved, AssertLive, SameDigest
  <1>6. NoProposal.output = <<>> /\ NoProposal.covered = 0
    BY DEF NoProposal
  <1> HIDE DEF x
  <1>7. Holding(r)'
    BY <1>1, <1>2, <1>4, <1>5, <1>6 DEF x, Kept, Holding
  <1>8. Whole(r)'
    BY <1>1, <1>2, <1>4, <1>5 DEF x, Kept, Whole
  <1>9. Tied(r)'
    <2>1. \A k \in DOMAIN branch : branch[k].id # 0
      BY DEF HInv, History
    <2> QED
      BY <1>1, <1>2, <1>4, <1>6, <2>1 DEF x, Tied
  <1>10. Kept(r)'
    BY <1>7, <1>8, <1>9 DEF Kept
  <1> QED
    BY <1>2, <1>3, <1>10, RequestMoves

-----------------------------------------------------------------------------
(* The history, as the branch grows.                                       *)

\* The branch grows by an entry or a checkpoint.
LEMMA BranchGrows ==
    ASSUME IInv, HInv, NEW e, e.id = entries + 1, IsPayload(e.output), OwnedBy(e.output, e.by),
           Stored(e.output, committed'), branch' = Append(branch, e), entries' = entries + 1,
           committed \subseteq committed', rewound' = rewound,
           e.kind = "checkpoint" => \A c \in DOMAIN branch : e.covered = branch[c].id
             => rewound \/ Standing(e.output) = StandsFor(SubSeq(branch, 1, c))
    PROVE  /\ BranchMoves
           /\ (History(branch, entries, committed) /\ (rewound \/ HoldsPrefixes(branch)))'
  <1>1. entries \in Nat /\ History(branch, entries, committed) /\ (rewound \/ HoldsPrefixes(branch))
    BY DEF IInv, Session, HInv
  <1> DEFINE fs == Append(branch, e)
  <1> HIDE DEF fs
  <1>2. /\ History(fs, entries + 1, committed')
        /\ KeepsEntries(branch, fs, entries) /\ Extends(branch, fs)
        /\ /\ HoldsPrefixes(branch)
           /\ e.kind = "checkpoint" => \A c \in DOMAIN branch : e.covered = branch[c].id
                => Standing(e.output) = StandsFor(SubSeq(branch, 1, c))
           => HoldsPrefixes(fs)
    BY <1>1, BranchAppends DEF fs
  <1>3. branch' = fs
    BY DEF fs
  <1>4. entries' \in Nat /\ entries <= entries'
    BY <1>1
  <1>5. BranchMoves
    BY <1>2, <1>3, <1>4 DEF BranchMoves
  <1>6. rewound \/ HoldsPrefixes(fs)
    BY <1>1, <1>2
  <1> QED
    BY <1>2, <1>3, <1>5, <1>6

\* A step of one request leaves the others sound.
LEMMA OthersAreCarried ==
    ASSUME IInv, HInv, BranchMoves, UNCHANGED guard, NEW r \in Slots, OnlyOf(r)
    PROVE  \A s \in Slots : s # r => Kept(s)'
  <1> SUFFICES ASSUME NEW s \in Slots, s # r PROVE Kept(s)'
    OBVIOUS
  <1>1. SameRecord(s)
    BY DEF OnlyOf, SameRecord
  <1> QED
    BY <1>1, RequestIsCarried

\* A step of none of them leaves all sound.
LEMMA AllAreCarried ==
    ASSUME IInv, HInv, BranchMoves, UNCHANGED <<guard, req>>
    PROVE  \A s \in Slots : Kept(s)'
  <1> SUFFICES ASSUME NEW s \in Slots PROVE Kept(s)'
    OBVIOUS
  <1>1. SameRecord(s)
    BY DEF SameRecord
  <1> QED
    BY <1>1, RequestIsCarried

\* An output that is committed is stored.
LEMMA OutputIsStored ==
    ASSUME NEW output, NEW outputs, output \in outputs
    PROVE  Stored(output, outputs)
  BY DEF Stored, ToSet

\* A commit on the leaf of the token: the checkpoint can only cover that leaf, and
\* stands for the branch up to it.
LEMMA CommitKeepsHistory ==
    ASSUME IInv, HInv, NEW r \in Slots, Commit(r)
    PROVE  HInv'
  <1>1. Record(r) /\ DOMAIN req = Slots /\ Kept(r) /\ entries \in Nat
    BY DEF IInv, Records, HInv, Session
  <1> DEFINE p == req[r].proposal
             e == Checkpoint(entries + 1, p)
  <1>2. /\ req[r].pc = "answered" /\ p # NoProposal /\ Leaf(branch) = req[r].token
        /\ branch' = Append(branch, e) /\ entries' = entries + 1
        /\ committed' = committed \cup {p.output} /\ rewound' = rewound
        /\ UNCHANGED <<guard, manual>> /\ req' = [req EXCEPT ![r].proposal = NoProposal]
    BY DEF Commit
  <1>3. /\ p.output # <<>> /\ req[r].approved = p.output /\ p.by = req[r].identity
        /\ IsPayload(p.output) /\ OwnedBy(p.output, p.by) /\ p.covered \in Nat
    BY <1>1, <1>2 DEF Kept, Holding, Tied
  <1>4. /\ e.id = entries + 1 /\ e.kind = "checkpoint" /\ e.covered = p.covered
        /\ e.by = p.by /\ e.output = p.output
    BY DEF Checkpoint
  <1>5. Stored(p.output, committed') /\ committed \subseteq committed'
    BY <1>2, OutputIsStored
  <1>6. ASSUME NEW c \in DOMAIN branch, p.covered = branch[c].id
        PROVE  rewound \/ Standing(p.output) = StandsFor(SubSeq(branch, 1, c))
    <2>1. /\ Leaf(branch) \in 0..entries /\ branch[c].id <= Leaf(branch)
          /\ branch[c].id = Leaf(branch) => c = Len(branch)
          /\ branch # <<>> => Len(branch) \in DOMAIN branch /\ branch[Len(branch)].id = Leaf(branch)
      BY <1>1, LeafIsLast DEF HInv
    <2>2. branch # <<>>
      OBVIOUS
    <2> DEFINE k == Len(branch)
    <2> HIDE DEF k
    <2>3. k \in DOMAIN branch /\ branch[k].id = req[r].token
      BY <1>2, <2>1, <2>2 DEF k
    <2>4. /\ p.covered >= req[r].token
          /\ \/ rewound
             \/ p.covered = req[r].token => Standing(p.output) = StandsFor(SubSeq(branch, 1, k))
      BY <1>1, <1>3, <2>3 DEF Kept, Tied
    <2>5. p.covered = req[r].token
      BY <1>1, <1>2, <1>3, <1>6, <2>1, <2>4
    <2>6. c = k
      BY <1>2, <1>6, <2>1, <2>5 DEF k
    <2> QED
      BY <2>4, <2>5, <2>6
  <1> DEFINE x == req'[r]
  <1>7. /\ x.pc = "answered" /\ x.input = req[r].input /\ x.replay = req[r].replay
        /\ x.pending = req[r].pending /\ x.identity = req[r].identity /\ x.token = req[r].token
        /\ x.read = req[r].read /\ x.approved = req[r].approved /\ x.proposal = NoProposal
        /\ x.failed = req[r].failed /\ x.closed = req[r].closed /\ x.aborted = req[r].aborted
    BY <1>1, <1>2 DEF Record, Formed, Fields
  <1>8. OnlyOf(r)
    BY <1>1, <1>2 DEF OnlyOf
  <1> HIDE DEF p, e, x
  <1>9. /\ BranchMoves
        /\ (History(branch, entries, committed) /\ (rewound \/ HoldsPrefixes(branch)))'
    <2>1. e.kind = "checkpoint" => \A c \in DOMAIN branch : e.covered = branch[c].id
             => rewound \/ Standing(e.output) = StandsFor(SubSeq(branch, 1, c))
      BY <1>4, <1>6
    <2>2. IsPayload(e.output) /\ OwnedBy(e.output, e.by) /\ Stored(e.output, committed')
      BY <1>3, <1>4, <1>5
    <2> QED
      BY <1>2, <1>4, <1>5, <2>1, <2>2, BranchGrows
  <1>10. NoProposal.output = <<>> /\ NoProposal.covered = 0
    BY DEF NoProposal
  <1>11. Holding(r)'
    <2>1. Stored(req[r].replay, committed')
      BY <1>1, <1>5, StoredStays DEF Kept, Holding
    <2>2. Stored(req[r].approved, committed')
      BY <1>3, <1>5
    <2> QED
      BY <1>1, <1>2, <1>7, <1>10, <2>1, <2>2 DEF x, Kept, Holding
  <1>12. Whole(r)'
    BY <1>1, <1>2, <1>7 DEF x, Kept, Whole
  <1>13. Tied(r)'
    <2>1. ASSUME NEW k \in DOMAIN branch', branch'[k].id = req[r].token
          PROVE  Standing(req[r].input) = StandsFor(SubSeq(branch', 1, k))
      <3>1. req[r].token \in 0..entries
        BY <1>1 DEF Kept, Tied
      <3>2. /\ k \in DOMAIN branch /\ branch[k].id = req[r].token
            /\ SubSeq(branch', 1, k) = SubSeq(branch, 1, k)
        BY <1>9, <2>1, <3>1 DEF BranchMoves, KeepsEntries
      <3> QED
        BY <1>1, <3>2 DEF Kept, Tied
    <2>2. req[r].token \in 0..entries'
      BY <1>1, <1>2 DEF Kept, Tied
    <2> QED
      BY <1>7, <1>10, <2>1, <2>2 DEF x, Tied
  <1>14. Kept(r)'
    BY <1>11, <1>12, <1>13 DEF Kept
  <1>15. \A s \in Slots : s # r => Kept(s)'
    BY <1>2, <1>8, <1>9, OthersAreCarried
  <1>16. ManualHistory'
    BY <1>2, <1>9, ManualIsCarried DEF SameManual
  <1> QED
    BY <1>9, <1>14, <1>15, <1>16 DEF HInv

\* An entry that is appended covers nothing.
LEMMA AppendEntryKeepsHistory ==
    ASSUME IInv, HInv, AppendEntry
    PROVE  HInv'
  <1>1. PICK kind \in EntryKinds : branch' = Append(branch, Entry(entries + 1, kind))
    BY DEF AppendEntry
  <1>2. /\ entries' = entries + 1 /\ UNCHANGED <<guard, req, manual, committed, rewound>>
    BY DEF AppendEntry
  <1> DEFINE e == Entry(entries + 1, kind)
  <1>3. e.id = entries + 1 /\ e.covered = 0 /\ e.output = <<>>
    BY DEF Entry
  <1>4. \A c \in DOMAIN branch : branch[c].id # 0
    BY DEF HInv, History
  <1> HIDE DEF e
  <1>5. IsPayload(e.output) /\ OwnedBy(e.output, e.by) /\ Stored(e.output, committed')
    BY <1>3, NothingHeld
  <1>6. branch' = Append(branch, e)
    BY <1>1 DEF e
  <1>7. /\ BranchMoves
        /\ (History(branch, entries, committed) /\ (rewound \/ HoldsPrefixes(branch)))'
    BY <1>2, <1>3, <1>4, <1>5, <1>6, BranchGrows
  <1>8. ManualHistory'
    BY <1>2, <1>7, ManualIsCarried DEF SameManual
  <1>9. \A s \in Slots : Kept(s)'
    BY <1>2, <1>7, AllAreCarried
  <1> QED
    BY <1>7, <1>8, <1>9 DEF HInv

-----------------------------------------------------------------------------
(* The history, as Pi compacts it and as the session goes on.              *)

\* A step of Pi's own compaction that leaves the branch and the requests alone.
LEMMA ManualMovesHistory ==
    ASSUME IInv, HInv, ManualHistory', UNCHANGED <<guard, req>>,
           UNCHANGED <<branch, entries, committed, rewound>>
    PROVE  HInv'
  <1>1. \A s \in Slots : Kept(s)'
    BY BranchRests, AllAreCarried
  <1> QED
    BY <1>1, BranchRests DEF HInv

\* A compaction that has ended holds nothing.
LEMMA EndedHoldsNothing ==
    ASSUME NEW overlay, manual' = Idle \/ manual' = [Idle EXCEPT !.pc = "settling", !.overlay = overlay]
    PROVE  ManualHistory'
  <1>1. manual'.pc \in {"idle", "settling"} /\ manual'.branch = <<>>
    <2>1. CASE manual' = Idle
      BY <2>1 DEF Idle
    <2>2. CASE manual' = [Idle EXCEPT !.pc = "settling", !.overlay = overlay]
      BY <2>2 DEF Idle
    <2> QED
      BY <2>1, <2>2
  <1>2. <<>> \in Seq({}) /\ DOMAIN <<>> = {}
    OBVIOUS
  <1>3. \A n, o : History(<<>>, n, o)
    BY <1>2 DEF History
  <1>4. HoldsPrefixes(<<>>)
    BY <1>2 DEF HoldsPrefixes
  <1> QED
    BY <1>1, <1>3, <1>4 DEF ManualHistory

\* An ended compaction of Pi leaves nothing behind.
LEMMA ManualEndsKeepsHistory ==
    ASSUME IInv, HInv, ManualCancelled \/ ManualFails \/ ManualSettle
    PROVE  HInv'
  <1>1. /\ UNCHANGED <<guard, req, branch, entries, committed, rewound>>
        /\ \/ manual' = Idle
           \/ manual' = [Idle EXCEPT !.pc = "settling", !.overlay = manual.overlay]
    BY DEF ManualCancelled, ManualFails, ManualSettle, branchVars
  <1> QED
    BY <1>1, EndedHoldsNothing, ManualMovesHistory

\* An abort only marks it.
LEMMA ManualAbortKeepsHistory ==
    ASSUME IInv, HInv, ManualAbort
    PROVE  HInv'
  <1>1. UNCHANGED <<guard, req, branch, entries, committed, rewound>>
        /\ manual' = [manual EXCEPT !.aborted = TRUE]
    BY DEF ManualAbort, branchVars
  <1>2. SameManual
    BY <1>1 DEF SameManual, IInv, Session
  <1>3. ManualHistory'
    BY <1>1, <1>2, BranchRests, ManualIsCarried
  <1> QED
    BY <1>1, <1>3, ManualMovesHistory

\* It is given the branch as it is.
LEMMA ManualStartKeepsHistory ==
    ASSUME IInv, HInv, NEW overlay \in BOOLEAN, ManualStart(overlay)
    PROVE  HInv'
  <1>1. UNCHANGED <<guard, req, branch, entries, committed, rewound>>
    BY DEF ManualStart, branchVars
  <1>2. PICK kept \in 1..Len(branch) :
          manual' = [Idle EXCEPT !.pc = "resolving", !.overlay = overlay,
                                 !.branch = branch, !.kept = kept, !.identity = CurrentIdentity]
    BY DEF ManualStart
  <1>3. manual'.pc = "resolving" /\ manual'.branch = branch /\ manual'.kept = kept
    BY <1>2 DEF Idle
  <1>4. History(branch, entries, committed) /\ (rewound \/ HoldsPrefixes(branch)) /\ entries \in Nat
    BY DEF HInv, IInv, Session
  <1>5. ASSUME NEW k \in DOMAIN branch, branch[k].id = Leaf(branch)
        PROVE  branch = SubSeq(branch, 1, k)
    <2>1. k = Len(branch)
      BY <1>4, <1>5, LeafIsLast
    <2> QED
      BY <2>1, BranchProjects
  <1>6. ManualHistory'
    BY <1>1, <1>3, <1>4, <1>5 DEF ManualHistory
  <1> QED
    BY <1>1, <1>6, ManualMovesHistory

\* What is sent for compaction stands for the branch before the first kept entry.
LEMMA BeginExecutionKeepsHistory ==
    ASSUME IInv, HInv, BeginExecution
    PROVE  HInv'
  <1>1. /\ UNCHANGED <<guard, req, branch, entries, committed, rewound>>
        /\ manual.pc = "resolving" /\ ManualInput # <<>>
        /\ manual' = [manual EXCEPT !.pc = "executing", !.input = ManualInput,
                        !.proposal = [NoProposal EXCEPT !.by = manual.identity,
                                        !.covered = manual.branch[manual.kept - 1].id]]
    BY DEF BeginExecution, branchVars
  <1> DEFINE es == manual.branch
             end == manual.kept
             who == manual.identity
             at == ScanRemoteCompactionCheckpoints(es, who, end)
  <1>2. /\ manual'.pc = "executing" /\ manual'.input = ManualInput /\ manual'.branch = es
        /\ manual'.kept = end /\ manual'.proposal.by = who
        /\ manual'.proposal.covered = es[end - 1].id
    BY <1>1 DEF IInv, Session, NoProposal
  <1>3. /\ History(es, entries, committed) /\ (rewound \/ HoldsPrefixes(es))
        /\ end \in 1..Len(es) /\ entries \in Nat
        /\ \A k \in DOMAIN branch : branch[k].id = Leaf(es) => es = SubSeq(branch, 1, k)
    BY <1>1 DEF HInv, ManualHistory, IInv, Session
  <1>4. /\ end # 1 /\ who # NoIdentity
        /\ at = 0 => ManualInput = ProjectCanonicalEntries(SubSeq(es, 1, end - 1))
        /\ at # 0 => ManualInput = CheckpointPayload(es, at, end)
    BY <1>1 DEF ManualInput
  <1> HIDE DEF es, end, who, at
  <1>5. Rising(es)
    BY <1>3, HistoryRises
  <1>6. IsEntries(es) /\ Len(es) \in Nat /\ DOMAIN es = 1..Len(es)
    BY <1>5 DEF Rising, IsEntries
  <1>7. end - 1 \in DOMAIN es /\ end - 1 \in 0..Len(es) /\ end \in 1..(Len(es) + 1)
        /\ 1 \in 1..(Len(es) + 1)
    BY <1>3, <1>4, <1>6
  <1>8. /\ IsPayload(ManualInput) /\ OwnedBy(ManualInput, who)
        /\ rewound \/ Standing(ManualInput) = StandsFor(SubSeq(es, 1, end - 1))
    <2>1. CASE at = 0
      <3> DEFINE part == SubSeq(es, 1, end - 1)
      <3>1. IsEntries(part)
        BY <1>6, <1>7, PartOfEntries
      <3> HIDE DEF part
      <3>2. /\ IsPayload(ProjectCanonicalEntries(part))
            /\ \A i \in DOMAIN ProjectCanonicalEntries(part) :
                 ProjectCanonicalEntries(part)[i].by = NoIdentity
        BY <3>1, EntriesProject
      <3>3. ManualInput = ProjectCanonicalEntries(part)
        BY <1>4, <2>1 DEF part
      <3>4. OwnedBy(ManualInput, who)
        BY <3>2, <3>3 DEF OwnedBy
      <3>5. Standing(ManualInput) = StandsFor(part)
        BY <3>3 DEF StandsFor
      <3> QED
        BY <3>2, <3>3, <3>4, <3>5 DEF part
    <2>2. CASE at # 0
      <3> DEFINE p == CheckpointPayload(es, at, end)
      <3>1. at = ScanRemoteCompactionCheckpoints(es, who, end)
        BY DEF at
      <3>2. /\ IsPayload(p) /\ OwnedBy(p, who)
            /\ HoldsPrefixes(es) => Standing(p) = StandsFor(SubSeq(es, 1, end - 1))
        BY <1>3, <1>7, <2>2, <3>1, CheckpointReplays
      <3> QED
        BY <1>3, <1>4, <2>2, <3>2
    <2> QED
      BY <2>1, <2>2
  <1> DEFINE input == ManualInput
  <1> HIDE DEF input
  <1>9. manual'.input = input /\ input # <<>> /\ IsPayload(input) /\ OwnedBy(input, who)
        /\ (rewound \/ Standing(input) = StandsFor(SubSeq(es, 1, end - 1)))
    BY <1>1, <1>2, <1>8 DEF input
  <1>10. Summary(manual.input)'
    BY <1>1, <1>2, <1>7, <1>9 DEF Summary
  <1>11. ManualHistory'
    BY <1>1, <1>2, <1>3, <1>4, <1>9, <1>10 DEF ManualHistory
  <1> QED
    BY <1>1, <1>11, ManualMovesHistory

\* A validated output stands for what was sent.
LEMMA ManualCompactedKeepsHistory ==
    ASSUME IInv, HInv, ManualCompacted
    PROVE  HInv'
  <1>1. UNCHANGED <<guard, req, branch, entries, committed, rewound>> /\ manual.pc = "executing"
    BY DEF ManualCompacted, branchVars
  <1>2. PICK output \in RemoteOutputs(manual.input, manual.proposal.by) :
          /\ ValidateCompactionOutput(output)
          /\ manual' = [manual EXCEPT !.pc = "returning", !.input = <<>>, !.proposal.output = output]
    BY DEF ManualCompacted
  <1>3. /\ ManualHistory /\ Summary(manual.input) /\ manual.input # <<>>
        /\ manual.proposal.by # NoIdentity
    BY <1>1 DEF HInv, ManualHistory
  <1>4. IsPayload(manual.input) /\ OwnedBy(manual.input, manual.proposal.by)
    BY <1>3 DEF Summary
  <1>5. /\ IsPayload(output) /\ OwnedBy(output, manual.proposal.by)
        /\ Standing(output) = Standing(manual.input)
    BY <1>2, <1>3, <1>4, RemoteStands
  <1>6. /\ manual'.pc = "returning" /\ manual'.branch = manual.branch /\ manual'.kept = manual.kept
        /\ manual'.proposal = [manual.proposal EXCEPT !.output = output]
    BY <1>2 DEF IInv, Session
  <1>7. /\ manual'.proposal.by = manual.proposal.by /\ manual'.proposal.output = output
        /\ manual'.proposal.covered = manual.proposal.covered
    BY <1>6
  <1>8. Summary(manual.proposal.output)'
    BY <1>1, <1>3, <1>5, <1>6, <1>7 DEF Summary
  <1>9. ManualHistory'
    BY <1>1, <1>3, <1>6, <1>8 DEF ManualHistory
  <1> QED
    BY <1>1, <1>9, ManualMovesHistory

\* Should the leaf not have moved, the branch is the one that was given.
LEMMA ManualCommitKeepsHistory ==
    ASSUME IInv, HInv, ManualCommit
    PROVE  HInv'
  <1> DEFINE p == manual.proposal
             e == Checkpoint(entries + 1, p)
             es == manual.branch
  <1>1. /\ manual.pc = "returning" /\ UNCHANGED <<guard, req, rewound>>
        /\ manual' = [Idle EXCEPT !.pc = "settling", !.overlay = manual.overlay]
        /\ \/ /\ Leaf(branch) = Leaf(es) /\ entries' = entries + 1
              /\ branch' = Append(branch, e) /\ committed' = committed \cup {p.output}
           \/ UNCHANGED <<entries, branch, committed>>
    BY DEF ManualCommit
  <1>2. ManualHistory'
    BY <1>1, EndedHoldsNothing
  <1>3. CASE UNCHANGED <<entries, branch, committed>>
    BY <1>1, <1>2, <1>3, ManualMovesHistory
  <1>4. CASE /\ Leaf(branch) = Leaf(es) /\ entries' = entries + 1
             /\ branch' = Append(branch, e) /\ committed' = committed \cup {p.output}
    <2>1. /\ e.id = entries + 1 /\ e.kind = "checkpoint" /\ e.covered = p.covered
          /\ e.by = p.by /\ e.output = p.output
      BY DEF Checkpoint
    <2>2. ManualHistory /\ Summary(p.output) /\ entries \in Nat
      BY <1>1 DEF HInv, ManualHistory, IInv, Session
    <2>3. /\ IsPayload(p.output) /\ OwnedBy(p.output, p.by) /\ manual.kept - 1 \in DOMAIN es
          /\ p.covered = es[manual.kept - 1].id
          /\ rewound \/ Standing(p.output) = StandsFor(SubSeq(es, 1, manual.kept - 1))
      BY <2>2 DEF Summary
    <2>4. Stored(p.output, committed') /\ committed \subseteq committed'
      BY <1>4, OutputIsStored
    <2>5. es = branch
      <3>1. es # <<>> /\ History(es, entries, committed)
        BY <2>2, <2>3 DEF ManualHistory
      <3>2. Leaf(es) # 0
        BY <2>2, <3>1, LeafIsLast
      <3>3. Len(branch) \in DOMAIN branch /\ branch[Len(branch)].id = Leaf(branch)
        BY <1>4, <2>2, <3>2, LeafIsLast DEF HInv
      <3>4. es = SubSeq(branch, 1, Len(branch))
        BY <1>1, <1>4, <2>2, <3>3 DEF ManualHistory
      <3> QED
        BY <3>4, BranchProjects
    <2>6. ASSUME NEW c \in DOMAIN branch, p.covered = branch[c].id
          PROVE  rewound \/ Standing(p.output) = StandsFor(SubSeq(branch, 1, c))
      <3>1. c = manual.kept - 1
        BY <2>3, <2>5, <2>6, BranchProjects, IdsAreUnique
      <3> QED
        BY <2>3, <2>5, <3>1
    <2> HIDE DEF p, e, es
    <2>7. e.kind = "checkpoint" => \A c \in DOMAIN branch : e.covered = branch[c].id
             => rewound \/ Standing(e.output) = StandsFor(SubSeq(branch, 1, c))
      BY <2>1, <2>6
    <2>8. IsPayload(e.output) /\ OwnedBy(e.output, e.by) /\ Stored(e.output, committed')
      BY <2>1, <2>3, <2>4
    <2>9. /\ BranchMoves
          /\ (History(branch, entries, committed) /\ (rewound \/ HoldsPrefixes(branch)))'
      BY <1>1, <1>4, <2>1, <2>4, <2>7, <2>8, BranchGrows
    <2>10. \A s \in Slots : Kept(s)'
      BY <1>1, <2>9, AllAreCarried
    <2> QED
      BY <1>2, <2>9, <2>10 DEF HInv
  <1> QED
    BY <1>1, <1>3, <1>4

\* Going back in the tree keeps what is known of the entries that are left.
LEMMA SessionTreeKeepsHistory ==
    ASSUME IInv, HInv, SessionTree
    PROVE  HInv'
  <1>1. PICK n \in 0..(Len(branch) - 1) : branch' = SubSeq(branch, 1, n)
    BY DEF SessionTree
  <1>2. /\ rewound' = (rewound \/ \E r \in Slots : req[r].pc \in {"scanned", "estimating"})
        /\ UNCHANGED <<guard, req, manual, committed, entries>>
    BY DEF SessionTree
  <1>3. History(branch, entries, committed) /\ (rewound \/ HoldsPrefixes(branch)) /\ entries \in Nat
    BY DEF HInv, IInv, Session
  <1>4. n \in 0..Len(branch)
    BY BranchProjects
  <1> DEFINE fs == SubSeq(branch, 1, n)
  <1> HIDE DEF fs
  <1>5. /\ History(fs, entries, committed) /\ KeepsEntries(branch, fs, entries)
        /\ HoldsPrefixes(branch) => HoldsPrefixes(fs)
    BY <1>3, <1>4, BranchIsCut DEF fs
  <1>6. branch' = fs
    BY <1>1 DEF fs
  <1>7. BranchMoves
    <2>1. rewound => rewound'
      BY <1>2
    <2>2. rewound' \/ \A r \in Slots : req[r].pc \notin {"scanned", "estimating"}
      BY <1>2
    <2>3. KeepsEntries(branch, branch', entries)
      BY <1>5, <1>6
    <2> QED
      BY <1>2, <1>3, <2>1, <2>2, <2>3 DEF BranchMoves
  <1>8. (History(branch, entries, committed) /\ (rewound \/ HoldsPrefixes(branch)))'
    BY <1>2, <1>3, <1>5, <1>6
  <1>9. ManualHistory'
    BY <1>2, <1>7, ManualIsCarried DEF SameManual
  <1>10. \A s \in Slots : Kept(s)'
    BY <1>2, <1>7, AllAreCarried
  <1> QED
    BY <1>8, <1>9, <1>10 DEF HInv

\* A session start and the shutdown only close records.
LEMMA RestartKeepsHistory ==
    ASSUME IInv, HInv, SessionStart \/ Shutdown
    PROVE  HInv'
  <1>1. /\ req' = InvalidateAll(req) /\ UNCHANGED <<manual, branch, entries, committed, rewound>>
        /\ guard.disposed => guard'.disposed
    BY DEF SessionStart, Shutdown, branchVars, IInv, Session
  <1>2. ASSUME NEW r \in Slots PROVE SameRecord(r)
    <2>1. DOMAIN req[r] = Fields /\ req[r].closed \in BOOLEAN
      BY DEF IInv, Records, Record, Formed
    <2>2. req'[r] = [req[r] EXCEPT !.closed = req[r].pc \notin {"free", "preparing"} \/ @]
      BY <1>1 DEF InvalidateAll
    <2> DEFINE x == req'[r]
    <2>3. /\ x.pc = req[r].pc /\ x.replay = req[r].replay /\ x.pending = req[r].pending
          /\ x.read = req[r].read /\ x.input = req[r].input /\ x.token = req[r].token
          /\ x.identity = req[r].identity /\ x.approved = req[r].approved
          /\ x.proposal = req[r].proposal /\ x.failed = req[r].failed
          /\ x.aborted = req[r].aborted /\ x.payload = req[r].payload
      BY <2>1, <2>2 DEF Fields
    <2>4. req[r].closed => x.closed
      BY <2>1, <2>2 DEF Fields
    <2> HIDE DEF x
    <2> QED
      BY <1>1, <2>3, <2>4 DEF x, SameRecord
  <1>3. \A s \in Slots : Kept(s)'
    BY <1>1, <1>2, BranchRests, RequestIsCarried
  <1>4. ManualHistory'
    BY <1>1, BranchRests, ManualIsCarried DEF SameManual
  <1> QED
    BY <1>1, <1>3, <1>4, BranchRests DEF HInv

\* Nothing else touches the history.
LEMMA OthersKeepHistory ==
    ASSUME IInv, HInv, ModelSelect \/ ChangeCredentials \/ RestoreBoundary \/ UNCHANGED vars
    PROVE  HInv'
  <1>1. UNCHANGED <<guard, req, manual, branch, entries, committed, rewound>>
    BY DEF ModelSelect, ChangeCredentials, RestoreBoundary, vars, branchVars
  <1>2. ManualHistory'
    BY <1>1, BranchRests, ManualIsCarried DEF SameManual
  <1> QED
    BY <1>1, <1>2, ManualMovesHistory

-----------------------------------------------------------------------------
\* A session begins with entries, and without checkpoints.
LEMMA InitHInv == Init => HInv
  <1> SUFFICES ASSUME Init PROVE HInv
    OBVIOUS
  <1> DEFINE K == InitialKinds
  <1>1. K \in Seq(STRING)
    BY RequestAssumption
  <1>2. /\ branch = [i \in DOMAIN K |-> Entry(i, K[i])] /\ entries = Len(K) /\ committed = {}
        /\ manual = Idle /\ req = [r \in Slots |-> Free]
    BY DEF Init
  <1> HIDE DEF K
  <1>3. Len(K) \in Nat /\ DOMAIN K = 1..Len(K)
    BY <1>1
  <1>4. \A i \in DOMAIN K : branch[i] = Entry(i, K[i])
    BY <1>2
  <1>5. ASSUME NEW i \in DOMAIN branch
        PROVE  i \in 1..Len(K) /\ branch[i].id = i /\ branch[i].covered = 0 /\ branch[i].output = <<>>
    BY <1>2, <1>3, <1>4 DEF Entry
  <1>6. \E S : branch \in Seq(S)
    <2> DEFINE S == {branch[i] : i \in 1..Len(K)}
    <2>1. branch \in [1..Len(K) -> S]
      BY <1>2, <1>3
    <2> HIDE DEF S
    <2>2. branch \in Seq(S)
      BY <1>3, <2>1
    <2> QED
      BY <2>2
  <1>7. ASSUME NEW i \in DOMAIN branch
        PROVE  /\ branch[i].id \in 1..entries /\ IsPayload(branch[i].output)
               /\ OwnedBy(branch[i].output, branch[i].by) /\ Stored(branch[i].output, committed)
    BY <1>2, <1>5, NothingHeld
  <1>8. History(branch, entries, committed)
    <2>1. ASSUME NEW i \in DOMAIN branch, NEW j \in DOMAIN branch, i < j
          PROVE  branch[i].id < branch[j].id
      BY <1>5, <2>1
    <2> QED
      BY <1>6, <1>7, <2>1 DEF History
  <1>9. HoldsPrefixes(branch)
    <2>1. \A i, c \in DOMAIN branch : branch[i].covered # branch[c].id
      BY <1>5
    <2> QED
      BY <2>1 DEF HoldsPrefixes
  <1>10. ManualHistory
    <2>1. manual.pc = "idle" /\ manual.branch = <<>>
      BY <1>2 DEF Idle
    <2>2. <<>> \in Seq({}) /\ DOMAIN <<>> = {}
      OBVIOUS
    <2>3. History(<<>>, entries, committed) /\ HoldsPrefixes(<<>>)
      BY <2>2 DEF History, HoldsPrefixes
    <2> QED
      BY <2>1, <2>3 DEF ManualHistory
  <1>11. ASSUME NEW r \in Slots PROVE Kept(r)
    <2>1. /\ req[r].pc = "free" /\ req[r].input = <<>> /\ req[r].replay = <<>>
          /\ req[r].approved = NoPayload /\ req[r].proposal = NoProposal /\ req[r].token = 0
          /\ req[r].pending = FALSE
      BY <1>2 DEF Free
    <2>2. NoProposal.output = <<>> /\ NoProposal.covered = 0
      BY DEF NoProposal
    <2>3. Holding(r)
      BY <2>1, <2>2, NothingHeld DEF Holding
    <2>4. Whole(r)
      BY <2>1 DEF Whole
    <2>5. Tied(r)
      <3>1. \A k \in DOMAIN branch : branch[k].id # req[r].token
        BY <1>5, <2>1
      <3>2. req[r].token \in 0..entries /\ req[r].proposal.covered \in Nat
        BY <1>2, <1>3, <2>1, <2>2
      <3> QED
        BY <3>1, <3>2 DEF Tied
    <2> QED
      BY <2>3, <2>4, <2>5 DEF Kept
  <1> QED
    BY <1>8, <1>9, <1>10, <1>11 DEF HInv

\* Every step keeps the history sound.
LEMMA NextHInv == IInv /\ HInv /\ [Next]_vars => HInv'
  <1> SUFFICES ASSUME IInv, HInv, [Next]_vars PROVE HInv'
    OBVIOUS
  <1>1. ASSUME NEW r \in Slots, Start(r) \/ RequestStep(r) \/ Replace(r) \/ Abort(r)
        PROVE  HInv'
    BY <1>1, StartKeepsHistory, OpenKeepsHistory, ScanKeepsHistory, ApproveSummaryKeepsHistory,
       AccountKeepsHistory, EstimatedKeepsHistory, BeginCompactionKeepsHistory,
       CompactedKeepsHistory, FailuresKeepHistory, EndsKeepHistory, ReplaceKeepsHistory,
       DispatchKeepsHistory, CommitKeepsHistory
    DEF RequestStep
  <1>2. ASSUME ManualStep \/ ManualAbort \/ \E overlay \in BOOLEAN : ManualStart(overlay)
        PROVE  HInv'
    BY <1>2, ManualStartKeepsHistory, BeginExecutionKeepsHistory, ManualEndsKeepsHistory,
       ManualAbortKeepsHistory, ManualCompactedKeepsHistory, ManualCommitKeepsHistory
    DEF ManualStep
  <1>3. ASSUME SessionEvent \/ RestoreBoundary \/ UNCHANGED vars PROVE HInv'
    BY <1>3, AppendEntryKeepsHistory, SessionTreeKeepsHistory, RestartKeepsHistory,
       OthersKeepHistory
    DEF SessionEvent
  <1> QED
    BY <1>1, <1>2, <1>3 DEF Next

-----------------------------------------------------------------------------
\* Of every entry, record and compaction it is known for which messages its
\* payload stands, whose it is, and what of it was committed.
THEOREM HInvHolds == Spec => []HInv
  BY InitHInv, NextHInv, IInvHolds, PTL DEF Spec

\* What is dispatched stands for every message of the context, or of the branch
\* as the hook read it, each once and in order, whatever was appended, compacted
\* or committed in the meantime (checkpointPayload).
THEOREM RequestsStayComplete == Spec => []RequestsAreComplete
  <1>1. HInv => ReplayIsComplete
    <2> SUFFICES ASSUME HInv, ~rewound, NEW r \in Slots, req[r].pc = "dispatched"
                 PROVE  Standing(req[r].payload) \in {Standing(req[r].input), req[r].read}
      BY DEF ReplayIsComplete
    <2>1. Holding(r) /\ Whole(r)
      BY DEF HInv, Kept
    <2> QED
      BY <2>1 DEF Holding, Whole
  <1> QED
    BY <1>1, TypeCorrect, HInvHolds, PTL DEF RequestsAreComplete

\* A checkpoint that can be replayed holds exactly the messages up to the entry it
\* covers, and a dispatched payload holds no compacted history but what was
\* compacted under the identity of its request and committed before
\* (scanRemoteCompactionCheckpoints, the commit token).
THEOREM CheckpointsStaySound == Spec => []CheckpointsAreSound
  <1>1. IInv /\ HInv => CheckpointsHoldTheirPrefix
    <2> SUFFICES ASSUME IInv, HInv, ~rewound, NEW i \in DOMAIN branch,
                        branch[i].kind = "checkpoint",
                        IndexOf(branch, branch[i].covered) \in 1..(i - 1)
                 PROVE  Standing(branch[i].output)
                          = StandsFor(SubSeq(branch, 1, IndexOf(branch, branch[i].covered)))
      BY DEF CheckpointsHoldTheirPrefix, StandsFor
    <2> DEFINE c == IndexOf(branch, branch[i].covered)
    <2>1. /\ c \in 0..Len(branch) /\ c # 0 => branch[c].id = branch[i].covered
          /\ DOMAIN branch = 1..Len(branch) /\ Len(branch) \in Nat
      BY BranchProjects, IndexFinds
    <2>2. HoldsPrefixes(branch)
      BY DEF HInv
    <2> HIDE DEF c
    <2>3. c \in 1..(i - 1) /\ i \in Nat
      BY <2>1 DEF c
    <2>4. c \in DOMAIN branch /\ c < i /\ branch[i].covered = branch[c].id
      BY <2>1, <2>3
    <2> QED
      BY <2>2, <2>4 DEF HoldsPrefixes, c
  <1>2. HInv => OpaqueOutputIsOwnAndCommitted
    <2> SUFFICES ASSUME HInv, NEW r \in Slots, req[r].pc = "dispatched",
                        NEW i \in DOMAIN req[r].payload, req[r].payload[i].by # NoIdentity
                 PROVE  /\ req[r].payload[i].by = req[r].identity
                        /\ \E output \in committed : req[r].payload[i] \in ToSet(output)
      BY DEF OpaqueOutputIsOwnAndCommitted
    <2>1. Holding(r)
      BY DEF HInv, Kept
    <2>2. OwnedBy(req[r].payload, req[r].identity) /\ Stored(req[r].payload, committed)
      BY <2>1 DEF Holding
    <2> QED
      BY <2>2 DEF OwnedBy, Stored
  <1> QED
    BY <1>1, <1>2, IInvHolds, HInvHolds, PTL DEF CheckpointsAreSound
=============================================================================
