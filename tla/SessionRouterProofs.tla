------------------------- MODULE SessionRouterProofs -------------------------
(***************************************************************************)
(* Proofs about the process-wide router, for any number of instances,      *)
(* sessions, providers and leases.                                         *)
(*                                                                         *)
(* An instance has at most one lease that is not released, the one it      *)
(* holds.  An entry of a bucket belongs to an unreleased binding of that   *)
(* session, and either the registry watches it or, once the binding was    *)
(* collected, the callback that removes it is due; callbacks are due for   *)
(* collected bindings only, so no live entry is ever removed.              *)
(***************************************************************************)
EXTENDS SessionRouter, FiniteSetTheorems, TLAPS

-----------------------------------------------------------------------------
(* The inductive invariant.                                                *)

\* The table: the bindings, what is entered under the session ids, what the
\* registry watches and which of its callbacks are due.
TableTyped(b, entered, watched, due) ==
    /\ b \in Seq(BindingType)
    /\ entered \in [Sessions -> SUBSET (DOMAIN b)]
    /\ watched \subseteq (DOMAIN b) \X Sessions /\ due \subseteq (DOMAIN b) \X Sessions

\* A live binding can be found under its session id.
LiveIsEntered(b, entered) ==
    \A s \in Sessions : \A t \in DOMAIN b :
        ~b[t].collected /\ ~b[t].released /\ b[t].sessionId = s => t \in entered[s]

\* What is found under a session id belongs to it, and will be removed.
EnteredIsWatched(b, entered, watched, due) ==
    \A s \in Sessions : \A t \in entered[s] :
        /\ b[t].sessionId = s /\ ~b[t].released
        /\ ~b[t].collected => <<t, s>> \in watched
        /\ b[t].collected => <<t, s>> \in due

\* Callbacks are due for collected bindings only.
DueIsDead(b, due) == \A r \in due : b[r[1]].collected

Table(b, entered, watched, due) ==
    /\ TableTyped(b, entered, watched, due)
    /\ LiveIsEntered(b, entered)
    /\ EnteredIsWatched(b, entered, watched, due)
    /\ DueIsDead(b, due)

\* A binding that is not released is the current lease of its owner.
OneLease ==
    \A t \in Tokens :
        /\ phase[binding[t].owner] \in Loaded
        /\ ~binding[t].released => lease[binding[t].owner] = t

\* A loaded instance has a lease of its own.
LeaseIsOwn ==
    \A i \in Instances :
        /\ phase[i] \in Loaded => lease[i] \in Tokens /\ binding[lease[i]].owner = i
        /\ phase[i] \notin Loaded => hosted[i] \notin Sessions

\* The lease of an open instance is live and bound to the session Pi gave it.
OpenIsBound ==
    \A i \in Instances : phase[i] = "open" =>
        /\ ~binding[lease[i]].released /\ ~binding[lease[i]].collected
        /\ hosted[i] \in Sessions => binding[lease[i]].sessionId = hosted[i]

\* The lease of a closed instance is released.
ClosedIsReleased ==
    \A i \in Instances : phase[i] = "closed" => binding[lease[i]].released

Ownership == OneLease /\ LeaseIsOwn /\ OpenIsBound /\ ClosedIsReleased

\* Outside session_start's registration the registered providers are those of the
\* policy and "openai-codex", each under its API; a host without unregisterProvider
\* may keep more (reconcileCodexProviderRoutes).
RoutesFollowPolicy ==
    \A i \in Instances : phase[i] \in Loaded /\ refreshing[i] # "replaced" =>
        \A p \in Providers :
            /\ p \in policy[i] \cup {Codex} => route[i][p] = Api(p)
            /\ p \notin policy[i] \cup {Codex} /\ unregister => route[i][p] = None

IInv ==
    /\ TypeOK
    /\ Table(binding, bucket, registration, cleanup)
    /\ Ownership
    /\ RoutesFollowPolicy

-----------------------------------------------------------------------------
(* The table.                                                              *)

LEMMA Indices ==
    ASSUME NEW b \in Seq(BindingType)
    PROVE  Len(b) \in Nat /\ DOMAIN b = 1..Len(b) /\ \A t \in DOMAIN b : b[t] \in BindingType
  OBVIOUS

LEMMA ReplacedAt ==
    ASSUME NEW b \in Seq(BindingType), NEW t \in DOMAIN b, NEW e \in BindingType
    PROVE  [b EXCEPT ![t] = e] \in Seq(BindingType) /\ Len([b EXCEPT ![t] = e]) = Len(b)
  OBVIOUS

\* What release does to the bindings.
LEMMA ReleasedBinding ==
    ASSUME binding \in Seq(BindingType), NEW t \in Tokens
    PROVE  /\ Released(t) \in Seq(BindingType) /\ Len(Released(t)) = Len(binding)
           /\ DOMAIN Released(t) = Tokens
           /\ \A u \in Tokens : u # t => Released(t)[u] = binding[u]
           /\ Released(t)[t].owner = binding[t].owner /\ Released(t)[t].released
           /\ Released(t)[t].collected = binding[t].collected
           /\ \A u \in Tokens : Released(t)[u].owner = binding[u].owner
  <1>1. binding[t] \in BindingType /\ None \in Sessions \cup {None} /\ TRUE \in BOOLEAN
    BY DEF Tokens
  <1>2. PICK e : e = [[binding[t] EXCEPT !.released = TRUE] EXCEPT !.sessionId = None]
    OBVIOUS
  <1>3. /\ e \in BindingType /\ e.owner = binding[t].owner /\ e.released = TRUE
        /\ e.collected = binding[t].collected
    BY <1>1, <1>2 DEF BindingType
  <1>4. Released(t) = [binding EXCEPT ![t] = e]
    BY <1>1, <1>2 DEF Released, Tokens
  <1>5. /\ DOMAIN Released(t) = Tokens
        /\ Released(t)[t] = e /\ \A u \in Tokens : u # t => Released(t)[u] = binding[u]
    BY <1>4 DEF Tokens
  <1>6. Released(t) \in Seq(BindingType) /\ Len(Released(t)) = Len(binding)
    BY <1>3, <1>4, ReplacedAt DEF Tokens
  <1> QED
    BY <1>3, <1>5, <1>6

\* Releasing a binding that was not collected takes its entry away, and no other.
LEMMA ReleaseTable ==
    ASSUME Table(binding, bucket, registration, cleanup), NEW t \in Tokens, ~binding[t].collected
    PROVE  Table(Released(t), BucketsWithout(t), Unregistered(t), cleanup)
  <1>1. TableTyped(binding, bucket, registration, cleanup)
    BY DEF Table
  <1>2. /\ binding \in Seq(BindingType)
        /\ bucket \in [Sessions -> SUBSET Tokens]
        /\ registration \subseteq Tokens \X Sessions /\ cleanup \subseteq Tokens \X Sessions
    BY <1>1 DEF TableTyped, Tokens
  <1>3. /\ BucketsWithout(t) \in [Sessions -> SUBSET Tokens]
        /\ \A s \in Sessions : BucketsWithout(t)[s] = bucket[s] \ {t}
    <2>1. \A s \in Sessions : t \in bucket[s] => binding[t].sessionId = s
      BY DEF Table, EnteredIsWatched
    <2>2. binding[t].sessionId \in Sessions \cup {None}
      <3>1. binding[t] \in BindingType
        BY <1>2, Indices DEF Tokens
      <3> QED
        BY <3>1 DEF BindingType
    <2>3. CASE binding[t].sessionId = None
      <3>1. \A s \in Sessions : t \notin bucket[s]
        BY <2>1, <2>3, RouterAssumption
      <3> QED
        BY <1>2, <2>3, <3>1 DEF BucketsWithout
    <2>4. CASE binding[t].sessionId # None
      BY <1>2, <2>1, <2>2, <2>4 DEF BucketsWithout, RemoveToken
    <2> QED
      BY <2>3, <2>4
  <1>4. TableTyped(Released(t), BucketsWithout(t), Unregistered(t), cleanup)
    BY <1>2, <1>3, ReleasedBinding DEF TableTyped, Unregistered
  <1>5. LiveIsEntered(Released(t), BucketsWithout(t))
    <2> SUFFICES ASSUME NEW s \in Sessions, NEW u \in Tokens,
                        ~Released(t)[u].collected, ~Released(t)[u].released,
                        Released(t)[u].sessionId = s
                 PROVE  u \in BucketsWithout(t)[s]
      BY <1>2, ReleasedBinding DEF LiveIsEntered
    <2>1. u # t /\ Released(t)[u] = binding[u]
      BY <1>2, ReleasedBinding
    <2>2. u \in bucket[s]
      BY <2>1 DEF Table, LiveIsEntered, Tokens
    <2> QED
      BY <1>3, <2>1, <2>2
  <1>6. EnteredIsWatched(Released(t), BucketsWithout(t), Unregistered(t), cleanup)
    <2> SUFFICES ASSUME NEW s \in Sessions, NEW u \in BucketsWithout(t)[s]
                 PROVE  /\ Released(t)[u].sessionId = s /\ ~Released(t)[u].released
                        /\ ~Released(t)[u].collected => <<u, s>> \in Unregistered(t)
                        /\ Released(t)[u].collected => <<u, s>> \in cleanup
      BY DEF EnteredIsWatched
    <2>1. u \in bucket[s] /\ u # t /\ u \in Tokens
      BY <1>2, <1>3
    <2>2. Released(t)[u] = binding[u]
      BY <1>2, <2>1, ReleasedBinding
    <2>3. /\ binding[u].sessionId = s /\ ~binding[u].released
          /\ ~binding[u].collected => <<u, s>> \in registration
          /\ binding[u].collected => <<u, s>> \in cleanup
      BY <2>1 DEF Table, EnteredIsWatched
    <2>4. <<u, s>> \in registration => <<u, s>> \in Unregistered(t)
      BY <2>1 DEF Unregistered
    <2> QED
      BY <2>2, <2>3, <2>4
  <1>7. DueIsDead(Released(t), cleanup)
    <2> SUFFICES ASSUME NEW r \in cleanup PROVE Released(t)[r[1]].collected
      BY DEF DueIsDead
    <2>1. r[1] \in Tokens /\ binding[r[1]].collected
      BY <1>2 DEF Table, DueIsDead
    <2> QED
      BY <1>2, <2>1, ReleasedBinding
  <1> QED
    BY <1>4, <1>5, <1>6, <1>7 DEF Table

\* A new binding is entered under its session id, if it has one, and watched.
LEMMA AppendTable ==
    ASSUME NEW b, NEW entered, NEW watched, NEW due, Table(b, entered, watched, due),
           NEW e \in BindingType, ~e.released, ~e.collected,
           NEW entered2 \in [Sessions -> SUBSET (1..(Len(b) + 1))],
           \A s \in Sessions :
               entered2[s] = IF e.sessionId = s THEN entered[s] \cup {Len(b) + 1} ELSE entered[s],
           NEW watched2,
           watched2 = watched \cup (IF e.sessionId = None THEN {} ELSE {<<Len(b) + 1, e.sessionId>>})
    PROVE  Table(Append(b, e), entered2, watched2, due)
  <1>1. TableTyped(b, entered, watched, due)
    BY DEF Table
  <1>2. /\ b \in Seq(BindingType) /\ Len(b) \in Nat /\ DOMAIN b = 1..Len(b)
        /\ entered \in [Sessions -> SUBSET (1..Len(b))]
        /\ watched \subseteq (1..Len(b)) \X Sessions /\ due \subseteq (1..Len(b)) \X Sessions
    BY <1>1, Indices DEF TableTyped
  <1>3. /\ Append(b, e) \in Seq(BindingType) /\ DOMAIN Append(b, e) = 1..(Len(b) + 1)
        /\ \A t \in 1..Len(b) : Append(b, e)[t] = b[t]
        /\ Append(b, e)[Len(b) + 1] = e
    BY <1>2
  <1>4. /\ 1..Len(b) \subseteq 1..(Len(b) + 1) /\ Len(b) + 1 \in 1..(Len(b) + 1)
        /\ Len(b) + 1 \notin 1..Len(b)
        /\ \A t \in 1..(Len(b) + 1) : t # Len(b) + 1 => t \in 1..Len(b)
    BY <1>2
  <1>5. TableTyped(Append(b, e), entered2, watched2, due)
    <2>1. e.sessionId \in Sessions \cup {None}
      BY DEF BindingType
    <2>2. /\ watched \subseteq (1..(Len(b) + 1)) \X Sessions
          /\ due \subseteq (1..(Len(b) + 1)) \X Sessions
      BY <1>2, <1>4
    <2>3. watched2 \subseteq (1..(Len(b) + 1)) \X Sessions
      BY <1>4, <2>1, <2>2
    <2> QED
      BY <1>3, <2>2, <2>3 DEF TableTyped
  <1>6. LiveIsEntered(Append(b, e), entered2)
    <2> SUFFICES ASSUME NEW s \in Sessions, NEW t \in 1..(Len(b) + 1),
                        ~Append(b, e)[t].collected, ~Append(b, e)[t].released,
                        Append(b, e)[t].sessionId = s
                 PROVE  t \in entered2[s]
      BY <1>3 DEF LiveIsEntered
    <2>1. CASE t = Len(b) + 1
      BY <1>3, <2>1
    <2>2. CASE t \in 1..Len(b)
      <3>1. t \in entered[s]
        BY <1>2, <1>3, <2>2 DEF Table, LiveIsEntered
      <3> QED
        BY <3>1
    <2> QED
      BY <1>4, <2>1, <2>2
  <1>7. EnteredIsWatched(Append(b, e), entered2, watched2, due)
    <2> SUFFICES ASSUME NEW s \in Sessions, NEW t \in entered2[s]
                 PROVE  /\ Append(b, e)[t].sessionId = s /\ ~Append(b, e)[t].released
                        /\ ~Append(b, e)[t].collected => <<t, s>> \in watched2
                        /\ Append(b, e)[t].collected => <<t, s>> \in due
      BY DEF EnteredIsWatched
    <2>1. CASE t \in entered[s]
      <3>1. Append(b, e)[t] = b[t]
        BY <1>2, <1>3, <2>1
      <3>2. /\ b[t].sessionId = s /\ ~b[t].released
            /\ ~b[t].collected => <<t, s>> \in watched
            /\ b[t].collected => <<t, s>> \in due
        BY <2>1 DEF Table, EnteredIsWatched
      <3> QED
        BY <3>1, <3>2
    <2>2. CASE t \notin entered[s]
      <3>1. t = Len(b) + 1 /\ e.sessionId = s
        BY <2>2
      <3>2. s # None
        BY RouterAssumption
      <3> QED
        BY <1>3, <3>1, <3>2
    <2> QED
      BY <2>1, <2>2
  <1>8. DueIsDead(Append(b, e), due)
    <2> SUFFICES ASSUME NEW r \in due PROVE Append(b, e)[r[1]].collected
      BY DEF DueIsDead
    <2>1. r[1] \in 1..Len(b) /\ b[r[1]].collected
      BY <1>2 DEF Table, DueIsDead
    <2> QED
      BY <1>3, <2>1
  <1> QED
    BY <1>5, <1>6, <1>7, <1>8 DEF Table

\* A lookup, or a callback for a collected binding, takes only dead entries away.
LEMMA PruneTable ==
    ASSUME Table(binding, bucket, registration, cleanup),
           NEW entered \in [Sessions -> SUBSET Tokens], NEW due, due \subseteq cleanup,
           \A s \in Sessions : entered[s] \subseteq bucket[s],
           \A s \in Sessions : \A t \in bucket[s] : IsLive(t, s) => t \in entered[s],
           \A s \in Sessions : \A t \in entered[s] : <<t, s>> \in cleanup => <<t, s>> \in due
    PROVE  Table(binding, entered, registration, due)
  <1>1. TableTyped(binding, entered, registration, due)
    BY DEF Table, TableTyped, Tokens
  <1>2. LiveIsEntered(binding, entered)
    BY DEF Table, LiveIsEntered, IsLive
  <1>3. EnteredIsWatched(binding, entered, registration, due)
    <2> SUFFICES ASSUME NEW s \in Sessions, NEW t \in entered[s]
                 PROVE  /\ binding[t].sessionId = s /\ ~binding[t].released
                        /\ ~binding[t].collected => <<t, s>> \in registration
                        /\ binding[t].collected => <<t, s>> \in due
      BY DEF EnteredIsWatched
    <2>1. t \in bucket[s]
      OBVIOUS
    <2> QED
      BY <2>1 DEF Table, EnteredIsWatched
  <1>4. DueIsDead(binding, due)
    BY DEF Table, DueIsDead
  <1> QED
    BY <1>1, <1>2, <1>3, <1>4 DEF Table

\* The bindings once the collector has taken one.
Collected(t) == [binding EXCEPT ![t].collected = TRUE]

\* What the collector does to the bindings.
LEMMA CollectedBinding ==
    ASSUME binding \in Seq(BindingType), NEW t \in Tokens
    PROVE  /\ Collected(t) \in Seq(BindingType) /\ Len(Collected(t)) = Len(binding) /\ DOMAIN Collected(t) = Tokens
           /\ \A u \in Tokens : u # t => Collected(t)[u] = binding[u]
           /\ Collected(t)[t].collected
           /\ \A u \in Tokens : /\ Collected(t)[u].owner = binding[u].owner
                                /\ Collected(t)[u].released = binding[u].released
                                /\ Collected(t)[u].sessionId = binding[u].sessionId
  <1>1. binding[t] \in BindingType /\ TRUE \in BOOLEAN
    BY DEF Tokens
  <1>2. PICK e : e = [binding[t] EXCEPT !.collected = TRUE]
    OBVIOUS
  <1>3. /\ e \in BindingType /\ e.owner = binding[t].owner /\ e.released = binding[t].released
        /\ e.collected = TRUE /\ e.sessionId = binding[t].sessionId
    BY <1>1, <1>2 DEF BindingType
  <1>4. Collected(t) = [binding EXCEPT ![t] = e]
    BY <1>1, <1>2 DEF Collected, Tokens
  <1>5. /\ DOMAIN Collected(t) = Tokens
        /\ Collected(t)[t] = e /\ \A u \in Tokens : u # t => Collected(t)[u] = binding[u]
    BY <1>4 DEF Tokens
  <1>6. Collected(t) \in Seq(BindingType) /\ Len(Collected(t)) = Len(binding)
    <2>1. /\ [binding EXCEPT ![t] = e] \in Seq(BindingType)
          /\ Len([binding EXCEPT ![t] = e]) = Len(binding)
      BY <1>3, ReplacedAt, Zenon DEF Tokens
    <2> QED
      BY <1>4, <2>1, Zenon
  <1> QED
    BY <1>3, <1>5, <1>6

\* The collector takes a binding: what watched it becomes due.
LEMMA CollectTable ==
    ASSUME Table(binding, bucket, registration, cleanup), NEW t \in Tokens
    PROVE  Table(Collected(t), bucket, Unregistered(t), cleanup \cup {r \in registration : r[1] = t})
  <1>1. /\ binding \in Seq(BindingType)
        /\ bucket \in [Sessions -> SUBSET Tokens]
        /\ registration \subseteq Tokens \X Sessions /\ cleanup \subseteq Tokens \X Sessions
    BY DEF Table, TableTyped, Tokens
  <1>2. TableTyped(Collected(t), bucket, Unregistered(t), cleanup \cup {r \in registration : r[1] = t})
    BY <1>1, CollectedBinding DEF TableTyped, Unregistered
  <1>3. LiveIsEntered(Collected(t), bucket)
    <2> SUFFICES ASSUME NEW s \in Sessions, NEW u \in Tokens,
                        ~Collected(t)[u].collected, ~Collected(t)[u].released, Collected(t)[u].sessionId = s
                 PROVE  u \in bucket[s]
      BY <1>1, CollectedBinding DEF LiveIsEntered
    <2>1. u # t /\ Collected(t)[u] = binding[u]
      BY <1>1, CollectedBinding
    <2> QED
      BY <2>1 DEF Table, LiveIsEntered, Tokens
  <1>4. EnteredIsWatched(Collected(t), bucket, Unregistered(t), cleanup \cup {r \in registration : r[1] = t})
    <2> SUFFICES ASSUME NEW s \in Sessions, NEW u \in bucket[s]
                 PROVE  /\ Collected(t)[u].sessionId = s /\ ~Collected(t)[u].released
                        /\ ~Collected(t)[u].collected => <<u, s>> \in Unregistered(t)
                        /\ Collected(t)[u].collected =>
                               <<u, s>> \in cleanup \cup {r \in registration : r[1] = t}
      BY DEF EnteredIsWatched
    <2>1. /\ u \in Tokens
          /\ binding[u].sessionId = s /\ ~binding[u].released
          /\ ~binding[u].collected => <<u, s>> \in registration
          /\ binding[u].collected => <<u, s>> \in cleanup
      BY <1>1 DEF Table, EnteredIsWatched
    <2>2. Collected(t)[u].sessionId = s /\ ~Collected(t)[u].released
      BY <1>1, <2>1, CollectedBinding
    <2>3. CASE u = t
      <3>1. Collected(t)[u].collected
        BY <1>1, <2>3, CollectedBinding
      <3>2. <<u, s>> \in registration => <<u, s>> \in {r \in registration : r[1] = t}
        BY <2>3
      <3> QED
        BY <2>1, <2>2, <3>1, <3>2
    <2>4. CASE u # t
      <3>1. Collected(t)[u] = binding[u]
        BY <1>1, <2>1, <2>4, CollectedBinding
      <3>2. <<u, s>> \in registration => <<u, s>> \in Unregistered(t)
        BY <2>4 DEF Unregistered
      <3> QED
        BY <2>1, <2>2, <3>1, <3>2
    <2> QED
      BY <2>3, <2>4
  <1>5. DueIsDead(Collected(t), cleanup \cup {r \in registration : r[1] = t})
    <2> SUFFICES ASSUME NEW r \in cleanup \cup {r \in registration : r[1] = t}
                 PROVE  Collected(t)[r[1]].collected
      BY DEF DueIsDead
    <2>1. CASE r \in cleanup
      <3>1. r[1] \in Tokens /\ binding[r[1]].collected
        BY <1>1, <2>1 DEF Table, DueIsDead
      <3> QED
        BY <1>1, <3>1, CollectedBinding
    <2>2. CASE r[1] = t
      BY <1>1, <2>2, CollectedBinding
    <2> QED
      BY <2>1, <2>2
  <1> QED
    BY <1>2, <1>3, <1>4, <1>5 DEF Table

-----------------------------------------------------------------------------
(* The routes.                                                             *)

LEMMA ReplaceRoutes ==
    ASSUME TypeOK, RoutesFollowPolicy, NEW i \in Instances, NEW selection \in Selections,
           Replace(i, selection),
           \A j \in Instances : j # i => phase'[j] = phase[j] /\ refreshing'[j] = refreshing[j]
    PROVE  /\ policy' \in [Instances -> Selections]
           /\ route' \in [Instances -> [Providers -> Apis \cup {None}]]
           /\ unregister' \in BOOLEAN
           /\ RoutesFollowPolicy'
  <1> DEFINE new == ReconcileCodexProviderRoutes(route[i], selection)
  <1>1. /\ policy' = [policy EXCEPT ![i] = selection]
        /\ route' = [route EXCEPT ![i] = new]
        /\ unregister' = unregister
    BY DEF Replace
  <1>2. /\ policy \in [Instances -> Selections] /\ unregister \in BOOLEAN
        /\ route \in [Instances -> [Providers -> Apis \cup {None}]]
    BY DEF TypeOK
  <1>3. \A p \in Providers : Api(p) \in Apis
    BY DEF Api, Apis
  <1>4. \A p \in Providers : new[p] = IF p \in {Codex} \cup selection THEN Api(p)
                                      ELSE IF unregister THEN None ELSE route[i][p]
    BY DEF ReconcileCodexProviderRoutes, SelectedCodexProviderIds
  <1>5. new \in [Providers -> Apis \cup {None}]
    BY <1>2, <1>3 DEF ReconcileCodexProviderRoutes
  <1> HIDE DEF new
  <1>6. /\ policy' \in [Instances -> Selections] /\ unregister' \in BOOLEAN
        /\ route' \in [Instances -> [Providers -> Apis \cup {None}]]
    BY <1>1, <1>2, <1>5
  <1>7. RoutesFollowPolicy'
    <2> SUFFICES ASSUME NEW j \in Instances, phase'[j] \in Loaded, refreshing'[j] # "replaced",
                        NEW p \in Providers
                 PROVE  /\ p \in policy'[j] \cup {Codex} => route'[j][p] = Api(p)
                        /\ p \notin policy'[j] \cup {Codex} /\ unregister' => route'[j][p] = None
      BY DEF RoutesFollowPolicy
    <2>1. CASE j = i
      <3>1. policy'[j] = selection /\ route'[j] = new
        BY <1>1, <1>2, <2>1
      <3> QED
        BY <1>1, <1>4, <3>1
    <2>2. CASE j # i
      <3>1. /\ policy'[j] = policy[j] /\ route'[j] = route[j]
            /\ phase[j] \in Loaded /\ refreshing[j] # "replaced"
        BY <1>1, <1>2, <2>2
      <3> QED
        BY <1>1, <3>1 DEF RoutesFollowPolicy
    <2> QED
      BY <2>1, <2>2
  <1> QED
    BY <1>6, <1>7

-----------------------------------------------------------------------------
(* The steps.                                                              *)

\* What the invariant says about the lease of an open instance.
LEMMA OpenLease ==
    ASSUME IInv, NEW i \in Instances, phase[i] = "open"
    PROVE  /\ lease[i] \in Tokens /\ binding[lease[i]].owner = i
           /\ ~binding[lease[i]].collected /\ ~binding[lease[i]].released
           /\ \A j \in Instances : j # i /\ phase[j] \in Loaded => lease[j] # lease[i]
  BY DEF IInv, Ownership, LeaseIsOwn, OpenIsBound, Loaded

\* The table part of the type invariant.
LEMMA TableOfTypeOK ==
    ASSUME TypeOK
    PROVE  TableTyped(binding, bucket, registration, cleanup)
  BY DEF TypeOK, TableTyped, Tokens

\* A step that leaves the leases and the instances alone keeps the ownership.
LEMMA OwnershipKept ==
    ASSUME Ownership, UNCHANGED <<phase, hosted, lease, binding>>
    PROVE  Ownership'
  BY DEF Ownership, OneLease, LeaseIsOwn, OpenIsBound, ClosedIsReleased, Tokens

LEMMA RoutesKept ==
    ASSUME RoutesFollowPolicy, UNCHANGED <<policy, route, unregister>>,
           \A i \in Instances : refreshing[i] = "replaced" => refreshing'[i] = "replaced",
           \A i \in Instances : phase'[i] \in Loaded => phase[i] \in Loaded
    PROVE  RoutesFollowPolicy'
  BY DEF RoutesFollowPolicy

LEMMA InitIInv == Init => IInv
  <1> SUFFICES ASSUME Init PROVE IInv
    OBVIOUS
  <1>1. binding = <<>> /\ <<>> \in Seq(BindingType) /\ Len(<<>>) = 0 /\ DOMAIN <<>> = {}
    BY DEF Init
  <1>2. Tokens = {} /\ Len(binding) = 0 /\ binding \in Seq(BindingType)
    BY <1>1 DEF Tokens
  <1>3. TypeOK
    <2>1. lease \in [Instances -> 0..Len(binding)] /\ Len(binding) <= MaxLeases
      BY <1>2, RouterAssumption DEF Init
    <2>2. bucket \in [Sessions -> SUBSET Tokens]
      BY DEF Init
    <2>3. /\ phase \in [Instances -> Loaded \cup {"unloaded", "failed"}]
          /\ hosted \in [Instances -> Sessions \cup {None, Blank}]
          /\ refreshing \in [Instances -> {"no", "loading", "replaced"}]
          /\ policy \in [Instances -> Selections]
      <3>1. {Codex} # {} /\ {Codex} \subseteq Providers
        BY DEF Providers
      <3>2. {Codex} \in Selections
        BY <3>1 DEF Selections
      <3> QED
        BY <3>2 DEF Init
    <2>4. route \in [Instances -> [Providers -> Apis \cup {None}]]
      BY DEF Init, NoRoutes
    <2> QED
      BY <1>2, <2>1, <2>2, <2>3, <2>4 DEF Init, TypeOK
  <1>4. Table(binding, bucket, registration, cleanup)
    <2>1. TableTyped(binding, bucket, registration, cleanup)
      BY <1>3, TableOfTypeOK
    <2>2. LiveIsEntered(binding, bucket) /\ DueIsDead(binding, cleanup)
      BY <1>2 DEF Init, LiveIsEntered, DueIsDead, Tokens
    <2>3. EnteredIsWatched(binding, bucket, registration, cleanup)
      BY DEF Init, EnteredIsWatched
    <2> QED
      BY <2>1, <2>2, <2>3 DEF Table
  <1>5. Ownership
    BY <1>2, RouterAssumption
    DEF Init, Ownership, OneLease, LeaseIsOwn, OpenIsBound, ClosedIsReleased, Loaded
  <1>6. RoutesFollowPolicy
    BY DEF Init, RoutesFollowPolicy, Loaded
  <1> QED
    BY <1>3, <1>4, <1>5, <1>6 DEF IInv

\* An instance is loaded: it gets a lease that is bound to no session.
LEMMA LoadStep ==
    ASSUME IInv, NEW i \in Instances, Load(i)
    PROVE  IInv'
  <1> DEFINE n == Len(binding) + 1
             e == NewBinding(i)
  <1>1. /\ phase[i] = "unloaded" /\ Len(binding) < MaxLeases /\ slot' = "router"
        /\ phase' = [phase EXCEPT ![i] = "open"]
        /\ binding' = Append(binding, e)
        /\ lease' = [lease EXCEPT ![i] = n]
        /\ UNCHANGED <<hosted, refreshing, bucket, registration, cleanup>>
    BY DEF Load, GetProcessProviderSessionRouter
  <1>2. PICK selection \in Selections : Replace(i, selection)
    BY DEF Load
  <1>3. /\ e \in BindingType /\ e.owner = i /\ e.sessionId = None /\ ~e.released /\ ~e.collected
    BY DEF NewBinding, BindingType
  <1>4. /\ binding \in Seq(BindingType) /\ Len(binding) \in Nat /\ Tokens = 1..Len(binding)
        /\ bucket \in [Sessions -> SUBSET Tokens]
        /\ lease \in [Instances -> 0..Len(binding)] /\ MaxLeases \in Nat
        /\ phase \in [Instances -> Loaded \cup {"unloaded", "failed"}]
    BY Indices, RouterAssumption DEF IInv, TypeOK, Tokens
  <1> HIDE DEF e
  <1>5. /\ binding' \in Seq(BindingType) /\ Len(binding') = n /\ Tokens' = 1..n
        /\ \A t \in Tokens : binding'[t] = binding[t]
        /\ binding'[n] = e
    BY <1>1, <1>3, <1>4 DEF Tokens
  <1>6. /\ n \in Nat /\ n \in 1..n /\ n \notin Tokens /\ Tokens \subseteq 1..n
        /\ \A t \in 1..n : t # n => t \in Tokens
        /\ n <= MaxLeases
    BY <1>1, <1>4
  <1> HIDE DEF n
  <1>7. Table(binding, bucket, registration, cleanup)'
    <2>1. bucket \in [Sessions -> SUBSET (1..(Len(binding) + 1))]
      BY <1>4, <1>6 DEF n
    <2>2. \A s \in Sessions : e.sessionId # s
      BY <1>3, RouterAssumption
    <2>3. registration = registration \cup
             (IF e.sessionId = None THEN {} ELSE {<<Len(binding) + 1, e.sessionId>>})
      BY <1>3
    <2>4. Table(Append(binding, e), bucket, registration, cleanup)
      BY <1>3, <2>1, <2>2, <2>3, AppendTable DEF IInv
    <2> QED
      BY <1>1, <2>4
  <1>8. /\ phase' \in [Instances -> Loaded \cup {"unloaded", "failed"}]
        /\ phase'[i] = "open" /\ \A j \in Instances : j # i => phase'[j] = phase[j]
    BY <1>1, <1>4 DEF Loaded
  <1>9. /\ lease' \in [Instances -> 0..n]
        /\ lease'[i] = n /\ \A j \in Instances : j # i => lease'[j] = lease[j]
    BY <1>1, <1>4, <1>6 DEF n
  <1>10. /\ policy' \in [Instances -> Selections]
         /\ route' \in [Instances -> [Providers -> Apis \cup {None}]]
         /\ unregister' \in BOOLEAN
         /\ RoutesFollowPolicy'
    BY <1>1, <1>2, <1>8, ReplaceRoutes DEF IInv
  <1>11. TypeOK'
    <2>1. /\ bucket' \in [Sessions -> SUBSET Tokens']
          /\ registration' \subseteq Tokens' \X Sessions /\ cleanup' \subseteq Tokens' \X Sessions
      BY <1>7 DEF Table, TableTyped, Tokens
    <2> QED
      BY <1>1, <1>5, <1>6, <1>8, <1>9, <1>10, <2>1 DEF IInv, TypeOK
  <1>12. Ownership'
    <2>1. OneLease'
      <3> SUFFICES ASSUME NEW t \in 1..n
                   PROVE  /\ phase'[binding'[t].owner] \in Loaded
                          /\ ~binding'[t].released => lease'[binding'[t].owner] = t
        BY <1>5 DEF OneLease
      <3>1. CASE t = n
        BY <1>3, <1>5, <1>8, <1>9, <3>1 DEF Loaded
      <3>2. CASE t # n
        <4>1. t \in Tokens /\ binding'[t] = binding[t]
          BY <1>5, <1>6, <3>2
        <4>2. /\ phase[binding[t].owner] \in Loaded
              /\ ~binding[t].released => lease[binding[t].owner] = t
          BY <4>1 DEF IInv, Ownership, OneLease
        <4>3. binding[t].owner \in Instances
          <5>1. binding[t] \in BindingType
            BY <1>4, <4>1
          <5> QED
            BY <5>1 DEF BindingType
        <4>4. binding[t].owner # i
          BY <1>1, <4>2 DEF Loaded
        <4> QED
          BY <1>8, <1>9, <4>1, <4>2, <4>3, <4>4
      <3> QED
        BY <3>1, <3>2
    <2>2. ASSUME NEW j \in Instances, j # i, phase'[j] \in Loaded
          PROVE  /\ phase[j] \in Loaded /\ lease[j] \in Tokens /\ lease'[j] = lease[j]
                 /\ binding'[lease[j]] = binding[lease[j]] /\ binding[lease[j]].owner = j
      BY <1>5, <1>8, <1>9, <2>2 DEF IInv, Ownership, LeaseIsOwn
    <2>3. LeaseIsOwn'
      BY <1>1, <1>3, <1>5, <1>6, <1>8, <1>9, <2>2 DEF IInv, Ownership, LeaseIsOwn, Loaded
    <2>4. OpenIsBound'
      <3>1. hosted'[i] \notin Sessions
        BY <1>1 DEF IInv, Ownership, LeaseIsOwn, Loaded
      <3> SUFFICES ASSUME NEW j \in Instances, phase'[j] = "open"
                   PROVE  /\ ~binding'[lease'[j]].released /\ ~binding'[lease'[j]].collected
                          /\ hosted'[j] \in Sessions => binding'[lease'[j]].sessionId = hosted'[j]
        BY DEF OpenIsBound
      <3>2. CASE j = i
        BY <1>3, <1>5, <1>9, <3>1, <3>2
      <3>3. CASE j # i
        <4>1. phase[j] = "open" /\ phase'[j] \in Loaded
          BY <1>8, <3>3 DEF Loaded
        <4>2. lease'[j] = lease[j] /\ binding'[lease[j]] = binding[lease[j]]
          BY <2>2, <3>3, <4>1
        <4> QED
          BY <1>1, <4>1, <4>2 DEF IInv, Ownership, OpenIsBound
      <3> QED
        BY <3>2, <3>3
    <2>5. ClosedIsReleased'
      BY <1>8, <2>2 DEF IInv, Ownership, ClosedIsReleased, Loaded
    <2> QED
      BY <2>1, <2>3, <2>4, <2>5 DEF Ownership
  <1> QED
    BY <1>7, <1>10, <1>11, <1>12 DEF IInv

\* session_start: the lease before is released and a new one takes its place.
LEMMA SessionStartStep ==
    ASSUME IInv, NEW i \in Instances, NEW s \in Sessions \cup {Blank}, SessionStart(i, s)
    PROVE  IInv'
  <1> DEFINE old == lease[i]
             n == Len(binding) + 1
             bound == IF Bindable(s) THEN s ELSE None
             e == [NewBinding(i) EXCEPT !.sessionId = bound]
  <1>1. /\ phase[i] = "open" /\ Len(binding) < MaxLeases
        /\ hosted' = [hosted EXCEPT ![i] = s]
        /\ refreshing[i] = "no"
        /\ refreshing' = [refreshing EXCEPT ![i] = IF Bindable(s) THEN "loading" ELSE "no"]
        /\ UNCHANGED <<slot, phase, cleanup, policy, route, unregister>>
    BY DEF SessionStart, routeVars
  <1>2. /\ lease' = [lease EXCEPT ![i] = n]
        /\ binding' = Append(Released(old), e)
        /\ bucket' = IF bound \in Sessions
                     THEN [BucketsWithout(old) EXCEPT ![bound] = @ \cup {n}]
                     ELSE BucketsWithout(old)
        /\ registration' = Unregistered(old) \cup (IF bound = None THEN {} ELSE {<<n, bound>>})
    BY DEF SessionStart, ReplaceLease
  <1>3. bound \in Sessions \cup {None} /\ (s \in Sessions => bound = s) /\ (bound \notin Sessions => bound = None)
    BY DEF Bindable
  <1> HIDE DEF bound
  <1>4. e \in BindingType /\ e.owner = i /\ e.sessionId = bound /\ ~e.released /\ ~e.collected
    BY <1>3 DEF NewBinding, BindingType
  <1> HIDE DEF e
  <1>5. /\ binding \in Seq(BindingType) /\ Len(binding) \in Nat /\ Tokens = 1..Len(binding)
        /\ lease \in [Instances -> 0..Len(binding)] /\ MaxLeases \in Nat
    BY Indices, RouterAssumption DEF IInv, TypeOK, Tokens
  <1>6. /\ old \in Tokens /\ binding[old].owner = i /\ ~binding[old].collected
        /\ \A j \in Instances : j # i /\ phase[j] \in Loaded => lease[j] # old
    BY <1>1, OpenLease
  <1>7. /\ Released(old) \in Seq(BindingType) /\ Len(Released(old)) = Len(binding)
        /\ DOMAIN Released(old) = Tokens
        /\ \A t \in Tokens : t # old => Released(old)[t] = binding[t]
        /\ Released(old)[old].released
        /\ \A t \in Tokens : Released(old)[t].owner = binding[t].owner
    BY <1>5, <1>6, ReleasedBinding
  <1> HIDE DEF old
  <1>8. /\ binding' \in Seq(BindingType) /\ Len(binding') = n /\ Tokens' = 1..n
        /\ \A t \in Tokens : binding'[t] = Released(old)[t]
        /\ binding'[n] = e
    <2>1. /\ Append(Released(old), e) \in Seq(BindingType)
          /\ Len(Append(Released(old), e)) = Len(Released(old)) + 1
          /\ \A t \in 1..Len(Released(old)) : Append(Released(old), e)[t] = Released(old)[t]
          /\ Append(Released(old), e)[Len(Released(old)) + 1] = e
      BY <1>4, <1>7
    <2>2. /\ binding' \in Seq(BindingType) /\ Len(binding') = n
          /\ \A t \in Tokens : binding'[t] = Released(old)[t]
          /\ binding'[n] = e
      BY <1>2, <1>5, <1>7, <2>1
    <2> QED
      BY <2>2, Indices DEF Tokens
  <1>9. /\ n \in Nat /\ n \in 1..n /\ n \notin Tokens /\ Tokens \subseteq 1..n
        /\ \A t \in 1..n : t # n => t \in Tokens
        /\ n <= MaxLeases /\ 0..Len(binding) \subseteq 0..n /\ n \in 0..n
    <2>1. Len(binding) < MaxLeases
      BY <1>1
    <2> QED
      BY ONLY <1>5, <2>1, RouterAssumption
  <1>10. Table(binding, bucket, registration, cleanup)'
    <2>1. Table(Released(old), BucketsWithout(old), Unregistered(old), cleanup)
      BY <1>6, ReleaseTable DEF IInv
    <2>2. BucketsWithout(old) \in [Sessions -> SUBSET Tokens]
      BY <1>7, <2>1 DEF Table, TableTyped
    <2>3. /\ bucket' \in [Sessions -> SUBSET (1..n)]
          /\ \A u \in Sessions : bucket'[u] = IF bound = u THEN BucketsWithout(old)[u] \cup {n}
                                              ELSE BucketsWithout(old)[u]
      <3>1. CASE bound \in Sessions
        BY <1>2, <1>9, <2>2, <3>1
      <3>2. CASE bound \notin Sessions
        BY <1>2, <1>9, <2>2, <3>2
      <3> QED
        BY <3>1, <3>2
    <2>4. n = Len(Released(old)) + 1
      BY <1>7
    <2> HIDE DEF n
    <2>5. Table(Append(Released(old), e), bucket', registration', cleanup)
      BY <1>2, <1>4, <2>1, <2>3, <2>4, AppendTable
    <2> QED
      BY <1>1, <1>2, <2>5
  <1>11. /\ lease' \in [Instances -> 0..n]
         /\ lease'[i] = n /\ \A j \in Instances : j # i => lease'[j] = lease[j]
    BY <1>2, <1>5, <1>9
  <1>12. /\ hosted' \in [Instances -> Sessions \cup {None, Blank}]
         /\ hosted'[i] = s /\ \A j \in Instances : j # i => hosted'[j] = hosted[j]
    BY <1>1 DEF IInv, TypeOK
  <1> HIDE DEF n
  <1>13. TypeOK'
    <2>1. /\ bucket' \in [Sessions -> SUBSET Tokens']
          /\ registration' \subseteq Tokens' \X Sessions /\ cleanup' \subseteq Tokens' \X Sessions
      BY <1>10 DEF Table, TableTyped, Tokens
    <2>2. refreshing' \in [Instances -> {"no", "loading", "replaced"}]
      BY <1>1 DEF IInv, TypeOK, Bindable
    <2> QED
      BY <1>1, <1>8, <1>9, <1>11, <1>12, <2>1, <2>2 DEF IInv, TypeOK
  <1>14. Ownership'
    <2>1. OneLease'
      <3> SUFFICES ASSUME NEW t \in 1..n
                   PROVE  /\ phase[binding'[t].owner] \in Loaded
                          /\ ~binding'[t].released => lease'[binding'[t].owner] = t
        BY <1>1, <1>8 DEF OneLease
      <3>1. CASE t = n
        BY <1>1, <1>4, <1>8, <1>11, <3>1 DEF Loaded
      <3>2. CASE t # n
        <4>1. t \in Tokens /\ binding'[t] = Released(old)[t] /\ binding'[t].owner = binding[t].owner
          BY <1>7, <1>8, <1>9, <3>2
        <4>2. /\ phase[binding[t].owner] \in Loaded
              /\ ~binding[t].released => lease[binding[t].owner] = t
          BY <4>1 DEF IInv, Ownership, OneLease
        <4>3. binding[t].owner \in Instances
          <5>1. binding[t] \in BindingType
            BY <1>5, <4>1
          <5> QED
            BY <5>1 DEF BindingType
        <4>4. CASE t = old
          BY <1>7, <4>1, <4>2, <4>4
        <4>5. CASE t # old
          <5>1. binding'[t] = binding[t]
            BY <1>7, <4>1, <4>5
          <5>2. ~binding[t].released => binding[t].owner # i
            BY <4>2, <4>5 DEF old
          <5> QED
            BY <1>11, <4>2, <4>3, <5>1, <5>2
        <4> QED
          BY <4>4, <4>5
      <3> QED
        BY <3>1, <3>2
    <2>2. ASSUME NEW j \in Instances, j # i, phase[j] \in Loaded
          PROVE  /\ lease[j] \in Tokens /\ lease'[j] = lease[j] /\ binding[lease[j]].owner = j
                 /\ binding'[lease[j]] = binding[lease[j]]
      <3>1. lease[j] \in Tokens /\ binding[lease[j]].owner = j /\ lease[j] # old
        BY <1>6, <2>2 DEF IInv, Ownership, LeaseIsOwn
      <3> QED
        BY <1>7, <1>8, <1>11, <2>2, <3>1
    <2>3. LeaseIsOwn'
      <3> SUFFICES ASSUME NEW j \in Instances
                   PROVE  /\ phase[j] \in Loaded => lease'[j] \in 1..n /\ binding'[lease'[j]].owner = j
                          /\ phase[j] \notin Loaded => hosted'[j] \notin Sessions
        BY <1>1, <1>8 DEF LeaseIsOwn
      <3>1. CASE j = i
        BY <1>1, <1>4, <1>8, <1>9, <1>11, <3>1 DEF Loaded
      <3>2. CASE j # i
        BY <1>9, <1>12, <2>2, <3>2 DEF IInv, Ownership, LeaseIsOwn
      <3> QED
        BY <3>1, <3>2
    <2>4. OpenIsBound'
      <3> SUFFICES ASSUME NEW j \in Instances, phase[j] = "open"
                   PROVE  /\ ~binding'[lease'[j]].released /\ ~binding'[lease'[j]].collected
                          /\ hosted'[j] \in Sessions => binding'[lease'[j]].sessionId = hosted'[j]
        BY <1>1 DEF OpenIsBound
      <3>1. CASE j = i
        BY <1>3, <1>4, <1>8, <1>11, <1>12, <3>1
      <3>2. CASE j # i
        <4>1. lease'[j] = lease[j] /\ binding'[lease[j]] = binding[lease[j]]
          BY <2>2, <3>2 DEF Loaded
        <4> QED
          BY <1>12, <3>2, <4>1 DEF IInv, Ownership, OpenIsBound
      <3> QED
        BY <3>1, <3>2
    <2>5. ClosedIsReleased'
      <3> SUFFICES ASSUME NEW j \in Instances, phase[j] = "closed"
                   PROVE  binding'[lease'[j]].released
        BY <1>1 DEF ClosedIsReleased
      <3>1. lease'[j] = lease[j] /\ binding'[lease[j]] = binding[lease[j]]
        BY <1>1, <2>2 DEF Loaded
      <3> QED
        BY <3>1 DEF IInv, Ownership, ClosedIsReleased
    <2> QED
      BY <2>1, <2>3, <2>4, <2>5 DEF Ownership
  <1>15. RoutesFollowPolicy'
    BY <1>1, RoutesKept DEF IInv
  <1> QED
    BY <1>10, <1>13, <1>14, <1>15 DEF IInv

\* session_shutdown releases the lease of the instance.
LEMMA SessionShutdownStep ==
    ASSUME IInv, NEW i \in Instances, SessionShutdown(i)
    PROVE  IInv'
  <1> DEFINE old == lease[i]
  <1>1. /\ phase[i] = "open" /\ phase' = [phase EXCEPT ![i] = "closed"]
        /\ binding' = Released(old) /\ bucket' = BucketsWithout(old)
        /\ registration' = Unregistered(old)
        /\ UNCHANGED <<slot, hosted, refreshing, lease, cleanup, policy, route, unregister>>
    BY DEF SessionShutdown, Release, routeVars
  <1>2. /\ old \in Tokens /\ binding[old].owner = i /\ ~binding[old].collected
        /\ \A j \in Instances : j # i /\ phase[j] \in Loaded => lease[j] # old
    BY <1>1, OpenLease
  <1>3. binding \in Seq(BindingType)
    BY DEF IInv, TypeOK
  <1>4. /\ binding' \in Seq(BindingType) /\ Len(binding') = Len(binding)
        /\ Tokens' = Tokens
        /\ \A t \in Tokens : t # old => binding'[t] = binding[t]
        /\ binding'[old].released
        /\ \A t \in Tokens : binding'[t].owner = binding[t].owner
    BY <1>1, <1>2, <1>3, ReleasedBinding DEF Tokens
  <1>5. Table(binding, bucket, registration, cleanup)'
    BY <1>1, <1>2, ReleaseTable DEF IInv
  <1>6. /\ phase' \in [Instances -> Loaded \cup {"unloaded", "failed"}]
        /\ phase'[i] = "closed" /\ \A j \in Instances : j # i => phase'[j] = phase[j]
    BY <1>1 DEF IInv, TypeOK, Loaded
  <1>7. TypeOK'
    <2>1. /\ bucket' \in [Sessions -> SUBSET Tokens']
          /\ registration' \subseteq Tokens' \X Sessions /\ cleanup' \subseteq Tokens' \X Sessions
      BY <1>5 DEF Table, TableTyped, Tokens
    <2> QED
      BY <1>1, <1>4, <1>6, <2>1 DEF IInv, TypeOK
  <1>8. Ownership'
    <2>1. OneLease'
      <3> SUFFICES ASSUME NEW t \in Tokens
                   PROVE  /\ phase'[binding'[t].owner] \in Loaded
                          /\ ~binding'[t].released => lease[binding'[t].owner] = t
        BY <1>1, <1>4 DEF OneLease
      <3>1. /\ phase[binding[t].owner] \in Loaded
            /\ ~binding[t].released => lease[binding[t].owner] = t
        BY DEF IInv, Ownership, OneLease
      <3>2. binding[t].owner \in Instances
        <4>1. binding[t] \in BindingType
          BY <1>3, Indices DEF Tokens
        <4> QED
          BY <4>1 DEF BindingType
      <3>3. phase'[binding[t].owner] \in Loaded
        BY <1>6, <3>1, <3>2 DEF Loaded
      <3> QED
        BY <1>4, <3>1, <3>3
    <2>2. ASSUME NEW j \in Instances, j # i, phase'[j] \in Loaded
          PROVE  phase[j] \in Loaded /\ binding'[lease[j]] = binding[lease[j]]
      <3>1. phase[j] \in Loaded /\ lease[j] \in Tokens /\ lease[j] # old
        BY <1>2, <1>6, <2>2 DEF IInv, Ownership, LeaseIsOwn
      <3> QED
        BY <1>4, <3>1
    <2>3. LeaseIsOwn'
      BY <1>1, <1>2, <1>4, <1>6 DEF IInv, Ownership, LeaseIsOwn, Loaded
    <2>4. OpenIsBound'
      <3> SUFFICES ASSUME NEW j \in Instances, phase'[j] = "open"
                   PROVE  /\ ~binding'[lease[j]].released /\ ~binding'[lease[j]].collected
                          /\ hosted[j] \in Sessions => binding'[lease[j]].sessionId = hosted[j]
        BY <1>1 DEF OpenIsBound
      <3>1. j # i /\ phase[j] = "open"
        BY <1>6
      <3>2. binding'[lease[j]] = binding[lease[j]]
        BY <2>2, <3>1 DEF Loaded
      <3> QED
        BY <3>1, <3>2 DEF IInv, Ownership, OpenIsBound
    <2>5. ClosedIsReleased'
      <3> SUFFICES ASSUME NEW j \in Instances, phase'[j] = "closed"
                   PROVE  binding'[lease[j]].released
        BY <1>1 DEF ClosedIsReleased
      <3>1. CASE j = i
        BY <1>4, <3>1
      <3>2. CASE j # i
        BY <1>6, <2>2, <3>2 DEF IInv, Ownership, ClosedIsReleased, Loaded
      <3> QED
        BY <3>1, <3>2
    <2> QED
      BY <2>1, <2>3, <2>4, <2>5 DEF Ownership
  <1>9. RoutesFollowPolicy'
    <2>1. \A j \in Instances : phase'[j] \in Loaded => phase[j] \in Loaded
      BY <1>1, <1>6 DEF Loaded
    <2> QED
      BY <1>1, <2>1, RoutesKept DEF IInv
  <1> QED
    BY <1>5, <1>7, <1>8, <1>9 DEF IInv

\* A configuration change tells the policy, then the routes.
LEMMA ConfigurationStep ==
    ASSUME IInv, NEW i \in Instances, NEW selection \in Selections, ConfigurationChanges(i, selection)
    PROVE  IInv'
  <1>1. /\ Replace(i, selection)
        /\ UNCHANGED <<slot, phase, hosted, refreshing, lease, binding, bucket, registration, cleanup>>
    BY DEF ConfigurationChanges, leaseVars
  <1>2. /\ policy' \in [Instances -> Selections]
        /\ route' \in [Instances -> [Providers -> Apis \cup {None}]]
        /\ unregister' \in BOOLEAN
        /\ RoutesFollowPolicy'
    BY <1>1, ReplaceRoutes DEF IInv
  <1>3. TypeOK'
    BY <1>1, <1>2 DEF IInv, TypeOK, Tokens
  <1>4. Ownership' /\ Table(binding, bucket, registration, cleanup)'
    BY <1>1, OwnershipKept DEF IInv
  <1> QED
    BY <1>2, <1>3, <1>4 DEF IInv

\* The refresh replaces the policy: the routes are owed from now on.
LEMMA RefreshReplacesStep ==
    ASSUME IInv, NEW i \in Instances, RefreshReplaces(i)
    PROVE  IInv'
  <1>1. PICK selection \in Selections : policy' = [policy EXCEPT ![i] = selection]
    BY DEF RefreshReplaces
  <1>2. /\ UNCHANGED <<slot, phase, hosted, lease, binding, bucket, registration, cleanup, route,
                       unregister>>
        /\ refreshing' = [refreshing EXCEPT ![i] = "replaced"]
    BY DEF RefreshReplaces, leaseVars
  <1>3. TypeOK'
    BY <1>1, <1>2 DEF IInv, TypeOK, Tokens
  <1>4. RoutesFollowPolicy'
    BY <1>1, <1>2 DEF IInv, TypeOK, RoutesFollowPolicy
  <1>5. Ownership' /\ Table(binding, bucket, registration, cleanup)'
    BY <1>2, OwnershipKept DEF IInv
  <1> QED
    BY <1>3, <1>4, <1>5 DEF IInv

\* The routes are registered from the policy of this moment.
LEMMA RefreshRegistersStep ==
    ASSUME IInv, NEW i \in Instances, RefreshRegisters(i)
    PROVE  IInv'
  <1>1. /\ UNCHANGED <<slot, phase, hosted, lease, binding, bucket, registration, cleanup, policy,
                       unregister>>
        /\ route' = [route EXCEPT ![i] = RegisteredRoutes(i)]
        /\ \A j \in Instances : j # i => refreshing'[j] = refreshing[j]
        /\ refreshing' \in [Instances -> {"no", "loading", "replaced"}]
    BY DEF RefreshRegisters, leaseVars, IInv, TypeOK
  <1>2. policy[i] \in Selections /\ policy' = [policy EXCEPT ![i] = policy[i]]
    BY <1>1 DEF IInv, TypeOK
  <1>3. Replace(i, policy[i])
    BY <1>1, <1>2 DEF Replace, RegisteredRoutes
  <1>4. /\ policy' \in [Instances -> Selections]
        /\ route' \in [Instances -> [Providers -> Apis \cup {None}]]
        /\ unregister' \in BOOLEAN
        /\ RoutesFollowPolicy'
    BY <1>1, <1>2, <1>3, ReplaceRoutes DEF IInv
  <1>5. TypeOK'
    BY <1>1, <1>4 DEF IInv, TypeOK, Tokens
  <1>6. Ownership' /\ Table(binding, bucket, registration, cleanup)'
    BY <1>1, OwnershipKept DEF IInv
  <1> QED
    BY <1>4, <1>5, <1>6 DEF IInv

\* An instance that fails to load, or that Pi drops.
LEMMA PhaseSteps ==
    ASSUME IInv, NEW i \in Instances, LoadFails(i) \/ Drop(i)
    PROVE  IInv'
  <1>1. /\ UNCHANGED <<slot, hosted, refreshing, lease, binding, bucket, registration, cleanup,
                       policy, route, unregister>>
        /\ \/ phase[i] = "unloaded" /\ phase' = [phase EXCEPT ![i] = "failed"]
           \/ phase[i] = "open" /\ phase' = [phase EXCEPT ![i] = "dropped"]
    BY DEF LoadFails, Drop, leaseVars, routeVars
  <1>2. /\ phase' \in [Instances -> Loaded \cup {"unloaded", "failed"}]
        /\ phase'[i] \in {"failed", "dropped"} /\ \A j \in Instances : j # i => phase'[j] = phase[j]
        /\ \A j \in Instances : phase'[j] \in Loaded <=> phase[j] \in Loaded
    BY <1>1 DEF IInv, TypeOK, Loaded
  <1>3. \A j \in Instances : phase'[j] \in {"open", "closed"} => phase'[j] = phase[j]
    BY <1>2
  <1>4. TypeOK'
    BY <1>1, <1>2 DEF IInv, TypeOK, Tokens
  <1>5. Ownership'
    <2>1. OneLease'
      <3>1. \A t \in Tokens : binding[t].owner \in Instances
        <4>1. \A t \in Tokens : binding[t] \in BindingType
          BY Indices DEF IInv, TypeOK, Tokens
        <4> QED
          BY <4>1 DEF BindingType
      <3> QED
        BY <1>1, <1>2, <3>1 DEF IInv, Ownership, OneLease, Tokens
    <2>2. LeaseIsOwn'
      BY <1>1, <1>2 DEF IInv, Ownership, LeaseIsOwn, Tokens
    <2>3. OpenIsBound' /\ ClosedIsReleased'
      BY <1>1, <1>3 DEF IInv, Ownership, OpenIsBound, ClosedIsReleased
    <2> QED
      BY <2>1, <2>2, <2>3 DEF Ownership
  <1>6. RoutesFollowPolicy' /\ Table(binding, bucket, registration, cleanup)'
    BY <1>1, <1>2, RoutesKept DEF IInv
  <1> QED
    BY <1>4, <1>5, <1>6 DEF IInv

\* A step that takes entries out of the table, and nothing else.
LEMMA TableStep ==
    ASSUME IInv, UNCHANGED <<slot, phase, hosted, refreshing, lease, binding, registration, routeVars>>,
           Table(binding, bucket', registration, cleanup')
    PROVE  IInv'
  <1>1. UNCHANGED <<slot, phase, hosted, refreshing, lease, binding, registration,
                    policy, route, unregister>>
    BY DEF routeVars
  <1>2. bucket' \in [Sessions -> SUBSET Tokens] /\ cleanup' \subseteq Tokens \X Sessions
    BY DEF Table, TableTyped, Tokens
  <1>3. TypeOK'
    BY <1>1, <1>2 DEF IInv, TypeOK, Tokens
  <1>4. Table(binding, bucket, registration, cleanup)' /\ Ownership' /\ RoutesFollowPolicy'
    BY <1>1, OwnershipKept, RoutesKept DEF IInv
  <1> QED
    BY <1>3, <1>4 DEF IInv

LEMMA RequestStep ==
    ASSUME IInv, NEW i \in Instances, Request(i)
    PROVE  IInv'
  <1> DEFINE s == hosted[i]
  <1>1. /\ s \in Sessions /\ bucket' = [bucket EXCEPT ![s] = Kept(s)]
        /\ UNCHANGED <<slot, phase, hosted, refreshing, lease, binding, registration, cleanup, routeVars>>
    BY DEF Request
  <1>2. bucket \in [Sessions -> SUBSET Tokens]
    BY DEF IInv, TypeOK
  <1>3. Kept(s) \subseteq bucket[s] /\ \A t \in bucket[s] : IsLive(t, s) => t \in Kept(s)
    BY DEF Kept
  <1> HIDE DEF s
  <1>4. /\ bucket' \in [Sessions -> SUBSET Tokens]
        /\ \A u \in Sessions : bucket'[u] \subseteq bucket[u]
        /\ \A u \in Sessions : \A t \in bucket[u] : IsLive(t, u) => t \in bucket'[u]
    BY <1>1, <1>2, <1>3
  <1>5. Table(binding, bucket', registration, cleanup)
    BY <1>4, PruneTable DEF IInv
  <1> QED
    BY <1>1, <1>5, TableStep

LEMMA FinalizeStep ==
    ASSUME IInv, NEW r \in cleanup, Finalize(r)
    PROVE  IInv'
  <1>1. /\ cleanup' = cleanup \ {r} /\ bucket' = [bucket EXCEPT ![r[2]] = @ \ {r[1]}]
        /\ UNCHANGED <<slot, phase, hosted, refreshing, lease, binding, registration, routeVars>>
    BY DEF Finalize, FinalizedBuckets, RemoveToken
  <1>2. bucket \in [Sessions -> SUBSET Tokens] /\ r \in Tokens \X Sessions
    BY DEF IInv, TypeOK
  <1>3. r[1] \in Tokens /\ r[2] \in Sessions /\ r = <<r[1], r[2]>>
    BY <1>2
  <1>4. binding[r[1]].collected
    BY DEF IInv, Table, DueIsDead
  <1>5. /\ bucket' \in [Sessions -> SUBSET Tokens]
        /\ \A u \in Sessions : bucket'[u] = IF u = r[2] THEN bucket[u] \ {r[1]} ELSE bucket[u]
    BY <1>1, <1>2, <1>3
  <1>6. \A u \in Sessions : \A t \in bucket[u] : IsLive(t, u) => t \in bucket'[u]
    BY <1>4, <1>5 DEF IsLive
  <1>7. \A u \in Sessions : \A t \in bucket'[u] : <<t, u>> \in cleanup => <<t, u>> \in cleanup'
    <2> SUFFICES ASSUME NEW u \in Sessions, NEW t \in bucket'[u], <<t, u>> \in cleanup
                 PROVE  <<t, u>> # r
      BY <1>1
    <2>1. ~(u = r[2] /\ t = r[1])
      BY <1>5
    <2> QED
      BY <2>1
  <1>8. cleanup' \subseteq cleanup /\ \A u \in Sessions : bucket'[u] \subseteq bucket[u]
    BY <1>1, <1>5
  <1>9. Table(binding, bucket', registration, cleanup')
    BY <1>5, <1>6, <1>7, <1>8, PruneTable DEF IInv
  <1> QED
    BY <1>1, <1>9, TableStep

\* The collector takes a binding that nobody holds: never the lease of an open
\* instance.
LEMMA CollectStep ==
    ASSUME IInv, NEW t \in Tokens, Collect(t)
    PROVE  IInv'
  <1>1. /\ ~IsHeld(t) /\ binding' = Collected(t)
        /\ registration' = Unregistered(t)
        /\ cleanup' = cleanup \cup {r \in registration : r[1] = t}
        /\ UNCHANGED <<slot, phase, hosted, refreshing, lease, bucket, policy, route, unregister>>
    BY DEF Collect, Collected, routeVars
  <1>2. binding \in Seq(BindingType)
    BY DEF IInv, TypeOK
  <1>3. /\ binding' \in Seq(BindingType) /\ Len(binding') = Len(binding) /\ Tokens' = Tokens
        /\ \A u \in Tokens : u # t => binding'[u] = binding[u]
        /\ \A u \in Tokens : /\ binding'[u].owner = binding[u].owner
                             /\ binding'[u].released = binding[u].released
                             /\ binding'[u].sessionId = binding[u].sessionId
    <2>1. /\ binding' \in Seq(BindingType) /\ Len(binding') = Len(binding)
          /\ DOMAIN binding' = Tokens
          /\ \A u \in Tokens : u # t => binding'[u] = binding[u]
          /\ \A u \in Tokens : /\ binding'[u].owner = binding[u].owner
                               /\ binding'[u].released = binding[u].released
                               /\ binding'[u].sessionId = binding[u].sessionId
      BY <1>1, <1>2, CollectedBinding, Zenon
    <2>2. Tokens' = Tokens
      BY <2>1 DEF Tokens
    <2> QED
      BY <2>1, <2>2, Zenon
  <1>4. Table(binding, bucket, registration, cleanup)'
    BY <1>1, CollectTable DEF IInv
  <1>5. TypeOK'
    <2>1. /\ bucket' \in [Sessions -> SUBSET Tokens']
          /\ registration' \subseteq Tokens' \X Sessions /\ cleanup' \subseteq Tokens' \X Sessions
      BY <1>4 DEF Table, TableTyped, Tokens
    <2> QED
      BY <1>1, <1>3, <2>1 DEF IInv, TypeOK
  <1>6. Ownership'
    <2>1. OneLease' /\ LeaseIsOwn'
      BY <1>1, <1>3 DEF IInv, Ownership, OneLease, LeaseIsOwn
    <2>2. OpenIsBound'
      <3> SUFFICES ASSUME NEW j \in Instances, phase[j] = "open"
                   PROVE  /\ ~binding'[lease[j]].released /\ ~binding'[lease[j]].collected
                          /\ hosted[j] \in Sessions => binding'[lease[j]].sessionId = hosted[j]
        BY <1>1 DEF OpenIsBound
      <3>1. lease[j] \in Tokens /\ binding[lease[j]].owner = j
        BY OpenLease
      <3>2. lease[j] # t
        BY <1>1, <3>1 DEF IsHeld
      <3>3. binding'[lease[j]] = binding[lease[j]]
        BY <1>3, <3>1, <3>2
      <3> QED
        BY <3>3 DEF IInv, Ownership, OpenIsBound
    <2>3. ClosedIsReleased'
      BY <1>1, <1>3 DEF IInv, Ownership, LeaseIsOwn, ClosedIsReleased, Loaded
    <2> QED
      BY <2>1, <2>2, <2>3 DEF Ownership
  <1>7. RoutesFollowPolicy'
    BY <1>1, RoutesKept DEF IInv
  <1> QED
    BY <1>4, <1>5, <1>6, <1>7 DEF IInv

LEMMA NextIInv == IInv /\ [Next]_vars => IInv'
  <1> SUFFICES ASSUME IInv, [Next]_vars PROVE IInv'
    OBVIOUS
  <1>1. CASE UNCHANGED vars
    <2>1. UNCHANGED <<slot, phase, hosted, refreshing, lease, binding, registration, routeVars>>
      BY <1>1 DEF vars, leaseVars
    <2>2. Table(binding, bucket', registration, cleanup')
      BY <1>1 DEF vars, leaseVars, IInv
    <2> QED
      BY <2>1, <2>2, TableStep
  <1>2. CASE Next
    BY <1>2, LoadStep, SessionStartStep, SessionShutdownStep,
       ConfigurationStep, RefreshReplacesStep, RefreshRegistersStep, PhaseSteps, RequestStep,
       FinalizeStep, CollectStep DEF Next
  <1> QED
    BY <1>1, <1>2

-----------------------------------------------------------------------------
(* The theorems.                                                           *)

\* The inductive invariant holds of every behaviour of the router.
THEOREM IInvHolds == Spec => []IInv
  BY InitIInv, NextIInv, PTL DEF Spec

\* A lookup keeps exactly the live bindings of the session.
LEMMA KeptIsLive ==
    ASSUME IInv, NEW s \in Sessions
    PROVE  Kept(s) = LiveLeases(s)
  <1>1. bucket[s] \subseteq Tokens
    BY DEF IInv, TypeOK
  <1>2. \A t \in Tokens : IsLive(t, s) => t \in bucket[s]
    BY DEF IInv, Table, LiveIsEntered, IsLive, Tokens
  <1> QED
    BY <1>1, <1>2 DEF Kept, LiveLeases

\* However many instances are loaded, restarted, dropped and collected in whatever
\* order: a lookup answers by the live leases of the session, only different
\* instances make a session ambiguous, and entries of dead leases are removed.
THEOREM RoutingStaysCurrent == Spec => []RoutingIsCurrent
  <1>1. IInv => RoutingIsCurrent
    <2> SUFFICES ASSUME IInv PROVE RoutingIsCurrent
      OBVIOUS
    <2>1. ResolvesByLiveLeases
      BY KeptIsLive DEF ResolvesByLiveLeases
    <2>2. AmbiguityIsBetweenInstances
      BY DEF AmbiguityIsBetweenInstances, LiveLeases, IsLive, IInv, Ownership, OneLease
    <2>3. DeadEntriesAreDue
      BY DEF DeadEntriesAreDue, IInv, Table, EnteredIsWatched
    <2> QED
      BY <2>1, <2>2, <2>3 DEF IInv, RoutingIsCurrent
  <1> QED
    BY <1>1, IInvHolds, PTL

\* What a lookup finds is the only live lease of the session, and it fails to find
\* one only when there is none or more than one.
LEMMA ResolvedBinding ==
    ASSUME IInv, NEW s \in Sessions
    PROVE  /\ ResolveBinding(s).kind = "found" => LiveLeases(s) = {ResolveBinding(s).token}
           /\ ResolveBinding(s).kind # "found" /\ LiveLeases(s) # {} =>
                  /\ Cardinality(LiveLeases(s)) > 1
                  /\ \A t : LiveLeases(s) # {t}
           /\ (\E t : LiveLeases(s) = {t}) => ResolveBinding(s).kind = "found"
  <1>1. Kept(s) = LiveLeases(s)
    BY KeptIsLive
  <1>2. IsFiniteSet(LiveLeases(s))
    <2>1. IsFiniteSet(Tokens)
      <3>1. Len(binding) \in Int /\ Tokens = 1..Len(binding)
        BY Indices DEF IInv, TypeOK, Tokens
      <3> QED
        BY <3>1, FS_Interval
    <2>2. LiveLeases(s) \subseteq Tokens
      BY DEF LiveLeases
    <2> QED
      BY <2>1, <2>2, FS_Subset
  <1>3. Cardinality(LiveLeases(s)) \in Nat
    BY <1>2, FS_CardinalityType
  <1>4. Cardinality(LiveLeases(s)) = 0 <=> LiveLeases(s) = {}
    BY <1>2, FS_EmptySet
  <1>5. Cardinality(LiveLeases(s)) = 1 <=> \E t : LiveLeases(s) = {t}
    BY <1>2, FS_Singleton
  <1>6. CASE Cardinality(LiveLeases(s)) = 0
    <2>1. ResolveBinding(s) = [kind |-> "unavailable", token |-> 0]
      BY <1>1, <1>6 DEF ResolveBinding
    <2> QED
      BY <1>4, <1>6, <2>1
  <1>7. CASE Cardinality(LiveLeases(s)) > 1
    <2>1. ResolveBinding(s) = [kind |-> "ambiguous", token |-> 0]
      BY <1>1, <1>7 DEF ResolveBinding
    <2>2. \A t : LiveLeases(s) # {t}
      BY <1>3, <1>5, <1>7
    <2> QED
      BY <1>7, <2>1, <2>2
  <1>8. CASE Cardinality(LiveLeases(s)) = 1
    <2>1. PICK t : LiveLeases(s) = {t}
      BY <1>5, <1>8
    <2>2. (CHOOSE u \in LiveLeases(s) : TRUE) = t
      BY <2>1
    <2>3. ResolveBinding(s) = [kind |-> "found", token |-> CHOOSE u \in LiveLeases(s) : TRUE]
      BY <1>1, <1>8 DEF ResolveBinding
    <2> QED
      BY <2>1, <2>2, <2>3
  <1>9. \/ Cardinality(LiveLeases(s)) = 0 \/ Cardinality(LiveLeases(s)) = 1
        \/ Cardinality(LiveLeases(s)) > 1
    BY <1>3
  <1> QED
    BY <1>6, <1>7, <1>8, <1>9, Zenon

\* A request of an open instance's session is served by that instance or, while
\* another live lease has the session id, fails; nothing reaches a closed instance.
THEOREM ServedByOwnerAlways == Spec => []ServedByOwner
  <1>1. IInv => ServedByOwnInstance
    <2> SUFFICES ASSUME IInv, NEW i \in Instances, NEW p \in Providers,
                        phase[i] = "open", hosted[i] \in Sessions
                 PROVE  /\ Outcome(i, p).owner \in {i, None}
                        /\ Outcome(i, p).target = "adaptor" =>
                               p \in policy[i] /\ LiveLeases(hosted[i]) = {lease[i]}
                        /\ p \in policy[i] /\ LiveLeases(hosted[i]) = {lease[i]} =>
                               Outcome(i, p).target = "adaptor" \/ refreshing[i] = "replaced"
                        /\ Outcome(i, p).target = "error" =>
                               Cardinality(LiveLeases(hosted[i])) > 1
      BY DEF ServedByOwnInstance
    <2> DEFINE s == hosted[i]
               found == ResolveBinding(s)
    <2>1. lease[i] \in LiveLeases(s) /\ binding[lease[i]].owner = i
      BY OpenLease DEF IInv, Ownership, OpenIsBound, LiveLeases, IsLive
    <2>2. CASE route[i][p] = None
      <3>1. Outcome(i, p) = [target |-> "native", owner |-> None]
        BY <2>2 DEF Outcome
      <3>2. p \notin policy[i] \/ refreshing[i] = "replaced"
        <4>1. Api(p) # None
          BY RouterAssumption DEF Api, Apis
        <4> QED
          BY <2>2, <4>1 DEF IInv, RoutesFollowPolicy, Loaded
      <3> QED
        BY <3>1, <3>2
    <2>3. CASE route[i][p] # None /\ found.kind = "found"
      <3>1. Outcome(i, p) = Dispatcher(binding[found.token].owner, p)
        BY <2>3 DEF Outcome, Dispatch
      <3>2. LiveLeases(s) = {found.token}
        BY <2>3, ResolvedBinding
      <3>3. found.token = lease[i] /\ LiveLeases(s) = {lease[i]}
        BY <2>1, <3>2
      <3>4. Outcome(i, p) = [target |-> IF p \in policy[i] THEN "adaptor" ELSE "native", owner |-> i]
        BY <2>1, <3>1, <3>3 DEF Dispatcher
      <3> QED
        BY <3>3, <3>4
    <2>4. CASE route[i][p] # None /\ found.kind # "found"
      <3>1. Outcome(i, p) = [target |-> "error", owner |-> None]
        BY <2>4 DEF Outcome, Dispatch, RouteError
      <3>2. Cardinality(LiveLeases(s)) > 1 /\ LiveLeases(s) # {lease[i]}
        BY <2>1, <2>4, ResolvedBinding
      <3> QED
        BY <3>1, <3>2
    <2> QED
      BY <2>2, <2>3, <2>4
  <1>2. IInv => ClosedIsUnreachable
    <2> SUFFICES ASSUME IInv, NEW i \in Instances, NEW s \in Sessions, NEW p \in Providers,
                        phase[i] = "closed"
                 PROVE  Dispatch(s, p).owner # i
      BY DEF ClosedIsUnreachable
    <2> DEFINE found == ResolveBinding(s)
    <2>1. CASE found.kind = "found"
      <3>1. found.token \in LiveLeases(s)
        BY <2>1, ResolvedBinding
      <3>2. binding[found.token].owner # i
        BY <3>1 DEF LiveLeases, IsLive, IInv, Ownership, OneLease, ClosedIsReleased
      <3>3. Dispatch(s, p) = Dispatcher(binding[found.token].owner, p)
        BY <2>1 DEF Dispatch
      <3> QED
        BY <3>2, <3>3 DEF Dispatcher
    <2>2. CASE found.kind # "found"
      <3>1. Dispatch(s, p) = [target |-> "error", owner |-> None]
        BY <2>2 DEF Dispatch, RouteError
      <3> QED
        BY <3>1, RouterAssumption
    <2> QED
      BY <2>1, <2>2
  <1> QED
    BY <1>1, <1>2, IInvHolds, PTL DEF ServedByOwner
==============================================================================
