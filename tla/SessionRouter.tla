---------------------------- MODULE SessionRouter ----------------------------
(***************************************************************************)
(* How a provider request finds the extension instance of its session.     *)
(* Every instance that Pi loads (the main session, nested workflow         *)
(* sessions, reloads) shares one router, kept in a global slot of the      *)
(* process; it registers the router's two functions for the selected       *)
(* providers and holds a lease that session_start binds to the session id. *)
(* The router keeps weak references only: an instance that Pi drops        *)
(* without session_shutdown leaves its entry until it is collected, and a  *)
(* finalizer or the next lookup removes it.                                *)
(*                                                                         *)
(* JavaScript runs from one await to the next as one step.                 *)
(***************************************************************************)
EXTENDS Integers, Sequences, FiniteSets

CONSTANTS
    Instances, Sessions, None,
    Blank,           \* a session id that is empty or blank
    Codex, Others,   \* "openai-codex" and the other provider ids
    MaxLeases        \* bound: leases that are created

Providers == {Codex} \cup Others
\* activation.providers of a configuration
Selections == (SUBSET Providers) \ {{}}
Apis == {"openai-codex-responses", "openai-responses"}
Loaded == {"open", "closed", "dropped"}

ASSUME RouterAssumption ==
    /\ {None, Blank} \cap (Instances \cup Sessions \cup Providers \cup Apis) = {} /\ None # Blank
    /\ Codex \notin Others
    /\ MaxLeases \in Nat \ {0}

VARIABLES
    slot,          \* what globalThis holds under PROCESS_ROUTER_KEY
    phase,         \* of an instance: "unloaded", "failed", "open", "closed", "dropped"
    hosted,        \* the session id Pi has given to the instance
    lease,         \* providerSessionLease: the token of the current one
    binding,       \* the bindings, indexed by token
    bucket,        \* buckets: the tokens entered under a session id
    registration,  \* what the FinalizationRegistry watches: <<token, session id>>
    cleanup,       \* its callbacks that are due
    refreshing,    \* how far session_start is: "no", "loading" the file, "replaced" the policy
    policy,        \* the providers ProviderActivationPolicy holds
    route,         \* the API under which Pi has the instance's provider registered
    unregister     \* the host has unregisterProvider

leaseVars == <<lease, binding, bucket, registration, cleanup>>
routeVars == <<policy, route, unregister>>
vars == <<slot, phase, hosted, refreshing, leaseVars, routeVars>>

Tokens == DOMAIN binding
NoRoutes == [p \in Providers |-> None]

-----------------------------------------------------------------------------
(* Looking a session up.                                                   *)

\* The binding can still be dereferenced and belongs to the session.
IsLive(t, s) == ~binding[t].collected /\ ~binding[t].released /\ binding[t].sessionId = s

\* The entries a lookup keeps; it deletes the others.
Kept(s) == {t \in bucket[s] : IsLive(t, s)}

\* Mutant: the first live binding is taken.
ResolveBinding_First(s) ==
    IF Kept(s) = {} THEN [kind |-> "unavailable", token |-> 0]
    ELSE [kind |-> "found", token |-> CHOOSE t \in Kept(s) : \A u \in Kept(s) : t <= u]

ResolveBinding(s) ==
    CASE Cardinality(Kept(s)) = 0 -> [kind |-> "unavailable", token |-> 0]
      [] Cardinality(Kept(s)) > 1 -> [kind |-> "ambiguous", token |-> 0]
      [] OTHER -> [kind |-> "found", token |-> CHOOSE t \in Kept(s) : TRUE]

\* The decision of the owner's dispatcher, for a model with a supported API.
Dispatcher(owner, p) ==
    [target |-> IF p \in policy[owner] THEN "adaptor" ELSE "native", owner |-> owner]

\* The route error stream: no dispatcher is called.
RouteError == [target |-> "error", owner |-> None]

\* The stream function of the router, for the session id of the options.
Dispatch(s, p) ==
    IF s \notin Sessions THEN RouteError
    ELSE LET found == ResolveBinding(s) IN
         IF found.kind = "found" THEN Dispatcher(binding[found.token].owner, p) ELSE RouteError

\* Where a request of the instance's own session goes.
Outcome(i, p) ==
    IF route[i][p] = None THEN [target |-> "native", owner |-> None]
    ELSE Dispatch(hosted[i], p)

-----------------------------------------------------------------------------
(* Leases.                                                                 *)

RemoveToken(b, s, t) == [b EXCEPT ![s] = @ \ {t}]

\* The finalizer forgets every registration made with the token.
Unregistered(t) == {r \in registration : r[1] # t}

NewBinding(i) == [owner |-> i, sessionId |-> None, released |-> FALSE, collected |-> FALSE]

\* release of the instance's lease; nothing is left to do for a released one.
Released(t) == [binding EXCEPT ![t].released = TRUE, ![t].sessionId = None]
BucketsWithout(t) ==
    IF binding[t].sessionId = None THEN bucket ELSE RemoveToken(bucket, binding[t].sessionId, t)
\* Mutant: shutdown only stops the finalizer.
Release_OnlyUnregisters(t) ==
    /\ registration' = Unregistered(t)
    /\ UNCHANGED <<binding, bucket>>

Release(t) ==
    /\ binding' = Released(t)
    /\ bucket' = BucketsWithout(t)
    /\ registration' = Unregistered(t)

\* Only a session id that is not blank can be bound.
Bindable(s) == s \in Sessions

\* Mutant: the lease before is not released.
ReplaceLease_KeepsOld(i, s) ==
    LET new == Len(binding) + 1 IN
    /\ lease' = [lease EXCEPT ![i] = new]
    /\ binding' = Append(binding, [NewBinding(i) EXCEPT !.sessionId = IF s = Blank THEN None ELSE s])
    /\ bucket' = [t \in Sessions |-> IF t = s THEN bucket[t] \cup {new} ELSE bucket[t]]
    /\ registration' = registration \cup ({<<new, s>>} \cap ({new} \X Sessions))

\* Mutant: the new binding is not watched.
ReplaceLease_Unwatched(i, s) ==
    LET new == Len(binding) + 1 IN
    /\ lease' = [lease EXCEPT ![i] = new]
    /\ binding' = Append(Released(lease[i]),
                         [NewBinding(i) EXCEPT !.sessionId = IF s = Blank THEN None ELSE s])
    /\ bucket' = [t \in Sessions |->
                   BucketsWithout(lease[i])[t] \cup (IF t = s THEN {new} ELSE {})]
    /\ registration' = Unregistered(lease[i])

\* createLease and bind, after the release of the lease before: the new binding is
\* entered under the session id and watched with its token.
ReplaceLease(i, s) ==
    LET old == lease[i]
        new == Len(binding) + 1
        bound == IF Bindable(s) THEN s ELSE None
    IN  /\ lease' = [lease EXCEPT ![i] = new]
        /\ binding' = Append(Released(old), [NewBinding(i) EXCEPT !.sessionId = bound])
        /\ bucket' = IF bound \in Sessions
                     THEN [BucketsWithout(old) EXCEPT ![bound] = @ \cup {new}]
                     ELSE BucketsWithout(old)
        /\ registration' = Unregistered(old) \cup
                           (IF bound = None THEN {} ELSE {<<new, bound>>})

-----------------------------------------------------------------------------
(* Provider routes.                                                        *)

SelectedCodexProviderIds(selection) == {Codex} \cup selection

Api(p) == IF p = Codex THEN "openai-codex-responses" ELSE "openai-responses"

\* Providers that are no longer selected are unregistered where the host can, and
\* the selected ones are registered again.
ReconcileCodexProviderRoutes(current, selection) ==
    [p \in Providers |->
        IF p \in SelectedCodexProviderIds(selection) THEN Api(p)
        ELSE IF unregister THEN None ELSE current[p]]

\* Mutant: the route listener runs before the policy listener.
Replace_RoutesFirst(i, selection) ==
    /\ policy' = [policy EXCEPT ![i] = selection]
    /\ route' = [route EXCEPT ![i] = ReconcileCodexProviderRoutes(@, policy[i])]
    /\ UNCHANGED unregister

\* The policy listener and the route listener, in the order they were added.
Replace(i, selection) ==
    /\ policy' = [policy EXCEPT ![i] = selection]
    /\ route' = [route EXCEPT ![i] = ReconcileCodexProviderRoutes(@, selection)]
    /\ UNCHANGED unregister

-----------------------------------------------------------------------------
Init ==
    /\ slot \in {"empty", "foreign"}
    /\ phase = [i \in Instances |-> "unloaded"]
    /\ hosted = [i \in Instances |-> None]
    /\ lease = [i \in Instances |-> 0]
    /\ binding = <<>>
    /\ bucket = [s \in Sessions |-> {}]
    /\ registration = {} /\ cleanup = {}
    /\ refreshing = [i \in Instances |-> "no"]
    /\ policy = [i \in Instances |-> {Codex}]
    /\ route = [i \in Instances |-> NoRoutes]
    /\ unregister \in BOOLEAN

\* The slot is installed once and shared by independently evaluated modules.
IsCompatibleSlot == slot \in {"empty", "router"}
GetProcessProviderSessionRouter ==
    /\ IsCompatibleSlot
    /\ slot' = "router"

\* Pi loads the extension: the policy has been read (or keeps its default), a lease
\* is made that is bound to no session yet, and the routes are registered.
Load(i) ==
    /\ phase[i] = "unloaded" /\ Len(binding) < MaxLeases
    /\ GetProcessProviderSessionRouter
    /\ phase' = [phase EXCEPT ![i] = "open"]
    /\ binding' = Append(binding, NewBinding(i))
    /\ lease' = [lease EXCEPT ![i] = Len(binding) + 1]
    /\ \E selection \in Selections : Replace(i, selection)
    /\ UNCHANGED <<hosted, refreshing, bucket, registration, cleanup>>

\* The slot holds something else: loading throws.
LoadFails(i) ==
    /\ phase[i] = "unloaded" /\ ~IsCompatibleSlot
    /\ phase' = [phase EXCEPT ![i] = "failed"]
    /\ UNCHANGED <<slot, hosted, refreshing, leaseVars, routeVars>>

\* session_start: a blank session id makes bind, and with it the handler, throw.
SessionStart(i, s) ==
    /\ phase[i] = "open" /\ refreshing[i] = "no" /\ Len(binding) < MaxLeases
    /\ hosted' = [hosted EXCEPT ![i] = s]
    /\ ReplaceLease(i, s)
    /\ refreshing' = [refreshing EXCEPT ![i] = IF Bindable(s) THEN "loading" ELSE "no"]
    /\ UNCHANGED <<slot, phase, cleanup, routeVars>>

\* activation.refresh ends, perhaps after shutdown: the policy holds what was read.
\* The file may have been changed by another process, or replaced since the read;
\* a failed read keeps the policy.
RefreshReplaces(i) ==
    /\ refreshing[i] = "loading" /\ phase[i] # "dropped"
    /\ refreshing' = [refreshing EXCEPT ![i] = "replaced"]
    /\ \E selection \in Selections : policy' = [policy EXCEPT ![i] = selection]
    /\ UNCHANGED <<slot, phase, hosted, leaseVars, route, unregister>>

\* Mutant: session_start leaves the routes as they are.
RegisteredRoutes_Kept(i) == route[i]

\* registerSelectedProviderRoutes reads the policy as it is now.
RegisteredRoutes(i) == ReconcileCodexProviderRoutes(route[i], policy[i])

\* After the await of the refresh session_start registers the routes; a
\* configuration change may have come first.
RefreshRegisters(i) ==
    /\ refreshing[i] = "replaced" /\ phase[i] # "dropped"
    /\ refreshing' = [refreshing EXCEPT ![i] = "no"]
    /\ route' = [route EXCEPT ![i] = RegisteredRoutes(i)]
    /\ UNCHANGED <<slot, phase, hosted, leaseVars, policy, unregister>>

\* A save of the instance's own configuration service notifies its listeners.
ConfigurationChanges(i, selection) ==
    /\ phase[i] = "open"
    /\ Replace(i, selection)
    /\ UNCHANGED <<slot, phase, hosted, refreshing, leaseVars>>

\* session_shutdown; Pi keeps the routes.
SessionShutdown(i) ==
    /\ phase[i] = "open"
    /\ phase' = [phase EXCEPT ![i] = "closed"]
    /\ Release(lease[i])
    /\ UNCHANGED <<slot, hosted, refreshing, lease, cleanup, routeVars>>

\* A request of the instance's session: the router prunes the entries it looks at.
Request(i) ==
    /\ phase[i] \in Loaded /\ hosted[i] \in Sessions
    /\ bucket' = [bucket EXCEPT ![hosted[i]] = Kept(hosted[i])]
    /\ UNCHANGED <<slot, phase, hosted, refreshing, lease, binding, registration, cleanup, routeVars>>

\* Pi disposes of an instance without session_shutdown.
Drop(i) ==
    /\ phase[i] = "open"
    /\ phase' = [phase EXCEPT ![i] = "dropped"]
    /\ UNCHANGED <<slot, hosted, refreshing, leaseVars, routeVars>>

\* A binding is held by the lease of an instance that is still there.
IsHeld(t) == phase[binding[t].owner] = "open" /\ lease[binding[t].owner] = t

\* The collector takes an unreachable binding; its callbacks become due.
Collect(t) ==
    /\ t \in Tokens /\ ~binding[t].collected /\ ~IsHeld(t)
    /\ binding' = [binding EXCEPT ![t].collected = TRUE]
    /\ registration' = Unregistered(t)
    /\ cleanup' = cleanup \cup {r \in registration : r[1] = t}
    /\ UNCHANGED <<slot, phase, hosted, refreshing, lease, bucket, routeVars>>

\* Mutant: the callback removes everything entered under the session id.
FinalizedBuckets_WholeSession(r) == [bucket EXCEPT ![r[2]] = {}]

\* The callback of the FinalizationRegistry.
FinalizedBuckets(r) == RemoveToken(bucket, r[2], r[1])
Finalize(r) ==
    /\ r \in cleanup
    /\ cleanup' = cleanup \ {r}
    /\ bucket' = FinalizedBuckets(r)
    /\ UNCHANGED <<slot, phase, hosted, refreshing, lease, binding, registration, routeVars>>

Next ==
    \/ \E i \in Instances :
        \/ Load(i) \/ LoadFails(i) \/ RefreshReplaces(i) \/ RefreshRegisters(i) \/ SessionShutdown(i) \/ Drop(i)
        \/ Request(i)
        \/ \E s \in Sessions \cup {Blank} : SessionStart(i, s)
        \/ \E selection \in Selections : ConfigurationChanges(i, selection)
    \/ \E t \in Tokens : Collect(t)
    \/ \E r \in cleanup : Finalize(r)

Spec == Init /\ [][Next]_vars

-----------------------------------------------------------------------------
(* Properties.                                                             *)

BindingType ==
    [owner : Instances, sessionId : Sessions \cup {None}, released : BOOLEAN, collected : BOOLEAN]

\* Every variable has its type; in particular no blank session id is ever bound, and
\* a released binding (ProviderSessionLease.release) names no session.
TypeOK ==
    /\ slot \in {"empty", "foreign", "router"}
    /\ phase \in [Instances -> Loaded \cup {"unloaded", "failed"}]
    /\ hosted \in [Instances -> Sessions \cup {None, Blank}]
    /\ binding \in Seq(BindingType) /\ Len(binding) <= MaxLeases
    /\ lease \in [Instances -> 0..Len(binding)]
    /\ bucket \in [Sessions -> SUBSET Tokens]
    /\ registration \subseteq Tokens \X Sessions /\ cleanup \subseteq Tokens \X Sessions
    /\ refreshing \in [Instances -> {"no", "loading", "replaced"}]
    /\ policy \in [Instances -> Selections]
    /\ route \in [Instances -> [Providers -> Apis \cup {None}]]
    /\ unregister \in BOOLEAN

\* The bindings a request of the session could be meant for.
LiveLeases(s) == {t \in Tokens : IsLive(t, s)}

\* What a lookup says is decided by the live bindings alone: one is found exactly
\* when it is the only one, and "unavailable" means there is none.  No release,
\* finalizer or pruning of another binding takes an entry away (removeToken).
ResolvesByLiveLeases ==
    \A s \in Sessions : Kept(s) = LiveLeases(s)

\* An ambiguous session has live leases of different instances: an instance never
\* competes with a lease of its own earlier session_start (extension.ts).
AmbiguityIsBetweenInstances ==
    \A s \in Sessions : \A t, u \in LiveLeases(s) :
        t # u => binding[t].owner # binding[u].owner

\* A request of an open instance's session is served by that instance (its adaptor
\* for a selected provider, Pi's stream for another), or fails; it never reaches
\* another instance, and it fails only while another live lease has the session id.
\* Only between the refresh of the policy and the registration of its routes may
\* the request for a newly selected provider still go to Pi's own stream: whatever
\* was selected before, and however saves, refreshes and shutdowns interleave.
ServedByOwnInstance ==
    \A i \in Instances, p \in Providers :
        phase[i] = "open" /\ hosted[i] \in Sessions =>
            LET o == Outcome(i, p) IN
            /\ o.owner \in {i, None}
            /\ o.target = "adaptor" => p \in policy[i] /\ LiveLeases(hosted[i]) = {lease[i]}
            /\ p \in policy[i] /\ LiveLeases(hosted[i]) = {lease[i]} =>
                  o.target = "adaptor" \/ refreshing[i] = "replaced"
            /\ o.target = "error" => Cardinality(LiveLeases(hosted[i])) > 1

\* After session_shutdown nothing is dispatched to the instance any more, whatever
\* is still under way.
ClosedIsUnreachable ==
    \A i \in Instances, s \in Sessions, p \in Providers :
        phase[i] = "closed" => Dispatch(s, p).owner # i

\* Entries of collected bindings do not stay for ever: the callback that removes
\* them is due (FinalizationRegistry).
DeadEntriesAreDue ==
    \A s \in Sessions : \A t \in bucket[s] : binding[t].collected => <<t, s>> \in cleanup

\* The process-wide table answers for the leases that live now: the state is
\* typed, a session resolves by its live leases, only different instances make
\* it ambiguous, and what is left of dead leases is due to a finalizer.
RoutingIsCurrent ==
    /\ TypeOK /\ ResolvesByLiveLeases /\ AmbiguityIsBetweenInstances /\ DeadEntriesAreDue

\* A session is served by its own instance while that is open, or by none.
ServedByOwner == ServedByOwnInstance /\ ClosedIsUnreachable
=============================================================================
