--------------------------- MODULE ToolActivation ---------------------------
(***************************************************************************)
(* How the extension switches Pi's tools: while the selected model is      *)
(* activated, Pi's core tools are suppressed and, once the capabilities    *)
(* are resolved, the managed Codex tools installed; when it is not, the    *)
(* captured selection is restored.  Activations are started by sessions,   *)
(* model changes and configuration changes; each awaits the configuration  *)
(* and the capabilities, and a later one, or shutdown, may overtake it.    *)
(*                                                                         *)
(* JavaScript runs from one await to the next as one step.  Pi and its     *)
(* user change the registered and active tools between any two steps.      *)
(***************************************************************************)
EXTENDS Integers, Sequences, SequencesExt

CONSTANTS
    Models, NoModel,
    Options,          \* the settings that enter the capability key
    Configs,          \* the configurations that occur
    DefaultSelected,  \* the models of the default configuration's providers
    Core, Additive,   \* names of Pi's core tools and of other extensions' tools
    ManagedOrder,     \* MANAGED_TOOL_NAMES
    InitialTools,     \* the active tools when the extension is loaded
    MaxOverlapping,   \* bound: activations in flight at a time
    MaxGeneration,    \* bound: activations of one session
    MaxHostChanges    \* bound: changes Pi or its user make to the tools

Managed == ToSet(ManagedOrder)
AllNames == Core \cup Additive \cup Managed

ASSUME ActivationAssumption ==
    /\ NoModel \notin Models
    /\ Configs \subseteq [selected : SUBSET Models, option : Options]
    /\ DefaultSelected \subseteq Models
    /\ ToSet(InitialTools) \subseteq AllNames
    /\ MaxOverlapping \in Nat \ {0} /\ MaxGeneration \in Nat /\ MaxHostChanges \in Nat

\* A configuration says which models' providers are selected for activation, and
\* which options apply; a capability key is a model, options and the managed
\* tools the host has registered.
Keys == Models \X Options \X SUBSET Managed
NoKey == <<>>
Slots == 1..MaxOverlapping

VARIABLES
    phase,       \* of the extension: "loading", "open", "closing", "closed"
    model,       \* ctx.model
    stored,      \* the configuration file
    saving,      \* a save has written the file and not yet notified
    policy,      \* the selection ProviderActivationPolicy holds
    behind,      \* history: it is the default's, or was read before the last save
    session,     \* how far session_start has come
    generation,  \* activationGeneration
    act,         \* the activations in flight
    surface,     \* the active tools, the tool profile and the status
    registry,    \* what getAllTools returns ...
    foreign,     \* ... which of them another extension owns ...
    readable,    \* ... and whether it throws
    wanted,      \* the core tools the user has active, in order
    changes

hostVars == <<registry, foreign, readable, wanted, changes>>
configVars == <<stored, saving, policy, behind>>
vars == <<phase, model, configVars, session, generation, act, surface, hostVars>>

-----------------------------------------------------------------------------
(* The tool profile: each operation maps a surface to the next.            *)

Keep(names, set) == SelectSeq(names, LAMBDA n : n \in set)

\* A registry that cannot be read filters nothing.
Available == IF readable THEN registry ELSE AllNames

\* setActiveTools ignores what is not registered.
Apply(s, names) == [s EXCEPT !.active = Keep(names, registry)]

ReconcileCodexActiveToolNames_KeepsCore(active, managed) ==
    Keep(active, Available \ Managed) \o Keep(ManagedOrder, managed \cap Available)
\* Additive tools keep their order, managed ones follow.
ReconcileCodexActiveToolNames(active, managed) ==
    Keep(active, Available \cap Additive) \o Keep(ManagedOrder, managed \cap Available)

\* The captured core tools and the additive ones that are still active, in the
\* order of the baseline; then the additive ones that came later.
RestorePiActiveToolNames(s) ==
    LET additives == Keep(s.active, Available \cap Additive)
        walked == Keep(s.baseline, (s.captured \cap Available) \cup ToSet(additives))
    IN IF s.kind = "pi" THEN Keep(s.active, Available \ Managed)
       ELSE walked \o Keep(additives, Additive \ ToSet(walked))

Captured_Everything(s) == ToSet(s.active) \cap Available
Captured(s) == Core \cap ToSet(s.active) \cap Available

EnsureCodexState_Recaptures(s) ==
    [s EXCEPT !.kind = "codex", !.baseline = s.active, !.captured = Captured(s), !.managed = {}]
\* The selection is captured once, on the way from Pi's tools to Codex tools.
EnsureCodexState(s) ==
    IF s.kind = "codex" THEN s
    ELSE [s EXCEPT !.kind = "codex", !.baseline = s.active, !.captured = Captured(s), !.managed = {}]

SuppressManagedTools(s) ==
    [Apply(s, ReconcileCodexActiveToolNames(s.active, {})) EXCEPT !.managed = {}]

EnterPending(s, key) ==
    [SuppressManagedTools(EnsureCodexState(s)) EXCEPT
        !.readiness = "pending", !.key = key, !.status = "none"]

InstallUnavailable(s, key) ==
    [SuppressManagedTools(EnsureCodexState(s)) EXCEPT
        !.readiness = "unavailable", !.key = key, !.status = "unavailable", !.lastHealthy = NoModel]

\* validateManagedToolOwnership: registered, and by this extension.
Owned(managed) == readable /\ managed \subseteq registry \ foreign

InstallHealthy(s, key, managed) ==
    LET codex == EnsureCodexState(s) IN
    IF ~Owned(managed) THEN InstallUnavailable(s, key)
    ELSE [Apply(codex, ReconcileCodexActiveToolNames(codex.active, managed)) EXCEPT
            !.managed = managed, !.readiness = "healthy", !.key = key,
            !.status = "ready", !.lastHealthy = key[1]]

RevalidateHealthyOwnership(s) ==
    IF Owned(s.managed) THEN Apply(s, ReconcileCodexActiveToolNames(s.active, s.managed))
    ELSE InstallUnavailable(s, s.key)

IsHealthy(s, key) == s.readiness = "healthy" /\ s.key = key

RestorePi(s) ==
    [Apply(s, RestorePiActiveToolNames(s)) EXCEPT
        !.kind = "pi", !.readiness = "inactive", !.key = NoKey,
        !.baseline = <<>>, !.captured = {}, !.managed = {}]

Deactivate_KeepsStatus(s) == [RestorePi(s) EXCEPT !.lastHealthy = NoModel]
\* restorePi as registerCodexTools calls it.
Deactivate(s) == [RestorePi(s) EXCEPT !.status = "none", !.lastHealthy = NoModel]

-----------------------------------------------------------------------------
(* activate.                                                               *)

Selected(m, models) == m \in models

\* capabilityCacheKey.
Key(m, config, hostTools) == <<m, config.option, hostTools>>

\* The synchronous beginning: restore at once what is not active, suppress at
\* once what is not known to be healthy for this model (and configuration).
Entered(s, m, active, key) ==
    IF ~active THEN Deactivate(s)
    ELSE IF \/ s.readiness # "healthy"
            \/ s.lastHealthy # m
            \/ key # NoKey /\ ~IsHealthy(s, key)
         THEN EnterPending(s, key)
         ELSE s

\* With the configuration at hand, up to the await of the capabilities.
Configured(s, m, config, hostTools) ==
    LET key == Key(m, config, hostTools) IN
    IF ~Selected(m, config.selected) THEN Deactivate(s)
    ELSE IF IsHealthy(s, key) THEN RevalidateHealthyOwnership(s)
         ELSE EnterPending(s, key)

\* Whether Configured returned early or goes on to resolve the capabilities.
GoesOn(s, m, config, hostTools) ==
    /\ Selected(m, config.selected)
    /\ Configured(s, m, config, hostTools).readiness # "unavailable"

Idle == [step |-> "idle"]
FreeSlots == {a \in Slots : act[a] = Idle}
NextSlot == CHOOSE a \in FreeSlots : \A b \in FreeSlots : a <= b

MayBegin == FreeSlots # {} /\ generation < MaxGeneration

\* registeredManagedTools.
HostTools == IF readable THEN Managed \cap registry ELSE {}

Loading(m, active) ==
    [step |-> "loading", model |-> m, generation |-> generation + 1, failClosed |-> active,
     hostTools |-> HostTools]
Resolving(a, config) ==
    [step |-> "resolving", model |-> a.model, generation |-> a.generation, failClosed |-> TRUE,
     hostTools |-> a.hostTools, key |-> Key(a.model, config, a.hostTools)]

\* activate(ctx): the configuration is still to be loaded.
BeginLoading(m) ==
    LET active == Selected(m, policy) IN
    /\ MayBegin
    /\ generation' = generation + 1
    /\ surface' = Entered(surface, m, active, NoKey)
    /\ act' = [act EXCEPT ![NextSlot] = Loading(m, active)]

\* activate(ctx, config): no await before the capabilities.
BeginConfigured(m, config) ==
    LET active == Selected(m, config.selected)
        key == IF active THEN Key(m, config, HostTools) ELSE NoKey
        entered == Entered(surface, m, active, key)
    IN /\ MayBegin
       /\ generation' = generation + 1
       /\ surface' = Configured(entered, m, config, HostTools)
       /\ act' = IF GoesOn(entered, m, config, HostTools)
                 THEN [act EXCEPT ![NextSlot] = Resolving(Loading(m, active), config)]
                 ELSE act

Current_Unchecked(a) == TRUE
\* The generation check after every await.
Current(a) == act[a].generation = generation

End(a) == act' = [act EXCEPT ![a] = Idle]

\* The file is read; the activation resumes later.
LoadReads(a) ==
    /\ act[a].step = "loading"
    /\ act' = [act EXCEPT ![a] = [step |-> "loaded", config |-> stored, model |-> @.model,
                 generation |-> @.generation, failClosed |-> @.failClosed, hostTools |-> @.hostTools]]
    /\ UNCHANGED <<phase, model, configVars, session, generation, surface, hostVars>>

LoadResumes(a) ==
    /\ act[a].step = "loaded"
    /\ LET m == act[a].model
           config == act[a].config
           hostTools == act[a].hostTools
       IN IF ~Current(a) THEN End(a) /\ UNCHANGED surface
          ELSE /\ surface' = Configured(surface, m, config, hostTools)
               /\ act' = [act EXCEPT ![a] =
                            IF GoesOn(surface, m, config, hostTools) THEN Resolving(@, config) ELSE Idle]
    /\ UNCHANGED <<phase, model, configVars, session, generation, hostVars>>

\* The capabilities enable some of the tools the host has.
ResolveSucceeds(a) ==
    /\ act[a].step = "resolving"
    /\ \E localTools \in SUBSET act[a].hostTools :
          surface' = IF Current(a) THEN InstallHealthy(surface, act[a].key, localTools) ELSE surface
    /\ End(a)
    /\ UNCHANGED <<phase, model, configVars, session, generation, hostVars>>

AfterFailure_KeepsProfile(s, failClosed) == s
\* The catch block: an active model fails closed, any other restores Pi.
AfterFailure(s, failClosed) == IF failClosed THEN InstallUnavailable(s, NoKey) ELSE Deactivate(s)

\* The configuration cannot be loaded, or the capabilities not resolved.
AwaitFails(a) ==
    /\ act[a].step \in {"loading", "resolving"}
    /\ surface' = IF Current(a) THEN AfterFailure(surface, act[a].failClosed) ELSE surface
    /\ End(a)
    /\ UNCHANGED <<phase, model, configVars, session, generation, hostVars>>

-----------------------------------------------------------------------------
(* What starts activations, and shutdown.                                  *)

\* session_start reaches the composition root, which refreshes the policy ...
SessionStart ==
    /\ phase \in {"loading", "open"}
    /\ session.step = "idle"
    /\ generation < MaxGeneration
    /\ phase' = "open"
    /\ session' = [step |-> "refreshing"]
    /\ UNCHANGED <<model, configVars, generation, act, surface, hostVars>>

\* ... from the file; between the read and the replacement a save may pass ...
RefreshReads ==
    /\ session.step = "refreshing"
    /\ session' = [step |-> "read", selected |-> stored.selected, stale |-> FALSE]
    /\ UNCHANGED <<phase, model, configVars, generation, act, surface, hostVars>>

RefreshReplaces ==
    /\ session.step = "read"
    /\ policy' = session.selected
    /\ behind' = session.stale
    /\ session' = [step |-> "refreshed"]
    /\ UNCHANGED <<phase, model, stored, saving, generation, act, surface, hostVars>>

\* ... or keeps its last snapshot when the file cannot be read.
RefreshFails ==
    /\ session.step = "refreshing"
    /\ session' = [step |-> "refreshed"]
    /\ UNCHANGED <<phase, model, configVars, generation, act, surface, hostVars>>

\* Then session_start reaches registerCodexTools, which activates.
SessionActivates ==
    /\ session.step = "refreshed"
    /\ session' = Idle
    /\ BeginLoading(model)
    /\ UNCHANGED <<phase, model, configVars, hostVars>>

ModelSelect(m) ==
    /\ phase = "open" /\ session = Idle
    /\ model' = m
    /\ BeginLoading(m)
    /\ UNCHANGED <<phase, configVars, session, hostVars>>

\* applyDraft, resetToDefaults and restoreBackup: the file is replaced ...
SaveWrites(config) ==
    /\ phase # "closed"
    /\ ~saving /\ config # stored
    /\ generation < MaxGeneration
    /\ stored' = config
    /\ saving' = TRUE
    /\ session' = IF session.step = "read" THEN [session EXCEPT !.stale = TRUE] ELSE session
    /\ UNCHANGED <<phase, model, policy, behind, generation, act, surface, hostVars>>

\* activeContext, from the first activation until shutdown.
HasContext == generation > 0 /\ phase # "closed"

\* Mutant: the policy is not told while a session begins.
Told_NotWhileRefreshing(selected) ==
    IF phase \in {"closing", "closed"} \/ session # Idle THEN policy ELSE selected
\* The policy listens until it is disposed.
Told(selected) == IF phase \in {"closing", "closed"} THEN policy ELSE selected

\* ... and the listeners run: the policy's and that of registerCodexTools.
SaveNotifies ==
    /\ saving
    /\ saving' = FALSE
    /\ policy' = Told(stored.selected)
    /\ behind' = FALSE
    /\ IF HasContext
       THEN BeginConfigured(model, stored)
       ELSE UNCHANGED <<generation, act, surface>>
    /\ UNCHANGED <<phase, model, stored, session, hostVars>>

\* session_shutdown reaches the composition root, which then awaits the runtime.
ShutdownRoot ==
    /\ phase = "open" /\ session = Idle
    /\ phase' = "closing"
    /\ surface' = RestorePi(surface)
    /\ UNCHANGED <<model, configVars, session, generation, act, hostVars>>

Invalidated_NotBumped == generation
\* In-flight activations are superseded.
Invalidated == generation + 1

\* session_shutdown reaches registerCodexTools.
ShutdownTools ==
    /\ phase = "closing"
    /\ phase' = "closed"
    /\ generation' = Invalidated
    /\ surface' = Deactivate(surface)
    /\ UNCHANGED <<model, configVars, session, act, hostVars>>

-----------------------------------------------------------------------------
(* Pi and its user.  The user does not turn on what the profile suppresses. *)

HostChange ==
    /\ phase # "closed"
    /\ changes < MaxHostChanges
    /\ changes' = changes + 1
    /\ UNCHANGED <<phase, model, configVars, session, generation, act>>

Toggled(names, n) == IF n \in ToSet(names) THEN Keep(names, AllNames \ {n}) ELSE Append(names, n)

UserToggles(n) ==
    /\ n \in registry \cap (Additive \cup IF surface.kind = "pi" THEN Core ELSE {})
    /\ HostChange
    /\ surface' = [surface EXCEPT !.active = Toggled(@, n)]
    /\ wanted' = IF n \in Core THEN Toggled(wanted, n) ELSE wanted
    /\ UNCHANGED <<registry, foreign, readable>>

HostUnregisters(n) ==
    /\ n \in registry
    /\ HostChange
    /\ registry' = registry \ {n}
    /\ surface' = [surface EXCEPT !.active = Keep(@, registry')]
    /\ wanted' = Keep(wanted, registry')
    /\ UNCHANGED <<foreign, readable>>

\* Another extension's tool takes a managed name.
HostConflicts(n) ==
    /\ n \in Managed \ foreign
    /\ HostChange
    /\ foreign' = foreign \cup {n}
    /\ UNCHANGED <<surface, registry, readable, wanted>>

HostUnreadable ==
    /\ HostChange
    /\ readable' = ~readable
    /\ UNCHANGED <<surface, registry, foreign, wanted>>

-----------------------------------------------------------------------------

Init ==
    /\ phase = "loading"
    /\ model \in Models \cup {NoModel}
    /\ stored \in Configs
    /\ saving = FALSE
    /\ policy \in {stored.selected, DefaultSelected} /\ behind = (policy # stored.selected)
    /\ session = Idle
    /\ generation = 0
    /\ act = [a \in Slots |-> Idle]
    /\ registry = AllNames /\ foreign = {} /\ readable = TRUE
    /\ wanted = Keep(InitialTools, Core)
    /\ changes = 0
    /\ surface = [active |-> InitialTools, kind |-> "pi", baseline |-> <<>>, captured |-> {},
                  managed |-> {}, readiness |-> "inactive", key |-> NoKey, status |-> "none",
                  lastHealthy |-> NoModel]

Next ==
    \/ \E a \in Slots : LoadReads(a) \/ LoadResumes(a) \/ ResolveSucceeds(a) \/ AwaitFails(a)
    \/ SessionStart \/ RefreshReads \/ RefreshReplaces \/ RefreshFails \/ SessionActivates
    \/ SaveNotifies
    \/ ShutdownRoot \/ ShutdownTools
    \/ \E m \in Models : ModelSelect(m)
    \/ \E config \in Configs : SaveWrites(config)
    \/ \E n \in AllNames : UserToggles(n) \/ HostUnregisters(n) \/ HostConflicts(n)
    \/ HostUnreadable

Spec == Init /\ [][Next]_vars

\* Fairness: loads and capability resolutions settle, one way or the other.
\* Nobody has to start a session, save a configuration or shut down.
Fairness ==
    \A a \in Slots :
        WF_vars(LoadReads(a) \/ LoadResumes(a) \/ ResolveSucceeds(a) \/ AwaitFails(a))

FairSpec == Spec /\ Fairness

-----------------------------------------------------------------------------
(* Properties.                                                             *)

\* Every variable keeps its type; only core tools are captured.
TypeOK ==
    /\ phase \in {"loading", "open", "closing", "closed"}
    /\ model \in Models \cup {NoModel}
    /\ stored \in Configs /\ policy \subseteq Models
    /\ {saving, readable, behind} \subseteq BOOLEAN
    /\ session.step \in {"idle", "refreshing", "read", "refreshed"}
    /\ generation \in 0..(MaxGeneration + 1)
    /\ \A a \in Slots : act[a].step \in {"idle", "loading", "loaded", "resolving"}
    /\ ToSet(surface.active) \subseteq registry
    /\ surface.kind \in {"pi", "codex"}
    /\ surface.captured \subseteq Core /\ surface.managed \subseteq Managed
    /\ surface.readiness \in {"inactive", "pending", "healthy", "unavailable"}
    /\ surface.key \in Keys \cup {NoKey}
    /\ surface.status \in {"none", "ready", "unavailable"}

\* ADR 0013: a pending, unavailable or healthy profile keeps every Pi core tool
\* out of the active set, and only a healthy one has managed tools in it,
\* whichever activation, failure or configuration change came last.
IsolatedWhileActive ==
    surface.kind = "codex" =>
        /\ ToSet(surface.active) \cap Core = {}
        /\ ToSet(surface.active) \cap Managed =
              IF surface.readiness = "healthy" THEN surface.managed \cap registry ELSE {}

\* ADR 0013: when the profile is left, exactly the core tools the user had active
\* are back, in their order, and no managed tool remains, however many
\* activations passed in between.
RestoredSelection ==
    surface.kind = "pi" /\ generation > 0 =>
        /\ Keep(surface.active, Core) = wanted
        /\ ToSet(surface.active) \cap Managed = {}

Settled ==
    /\ ~saving /\ session = Idle
    /\ \A a \in Slots : act[a] # Idle => act[a].generation # generation

\* When the last activation has settled, a healthy profile is that of the selected
\* model and the stored configuration: none that was overtaken while it awaited
\* has installed its tools.
HealthyIsCurrent ==
    phase = "open" /\ Settled /\ surface.readiness = "healthy" =>
        /\ Selected(model, stored.selected)
        /\ <<surface.key[1], surface.key[2]>> = <<model, stored.option>>

\* The dispatcher serves the models the stored configuration selects, however saves
\* and beginning sessions interleave, unless no session could read the file yet or the
\* last one read it before a save and replaced the policy after it (refresh).
PolicyFollowsFile ==
    phase \in {"loading", "open"} /\ ~saving /\ ~behind => policy = stored.selected

\* After shutdown Pi's tools are back and stay: an activation or a configuration
\* change that comes late does not install anything.
ClosedStaysRestored ==
    phase = "closed" => surface.kind = "pi" /\ surface.readiness = "inactive" /\ surface.status = "none"

\* The status line says "unavailable" exactly when the profile is, and does not
\* describe capabilities that are not installed.
StatusMatchesProfile ==
    phase # "closing" =>
        /\ surface.status = "ready" => surface.readiness = "healthy"
        /\ surface.status = "unavailable" <=> surface.readiness = "unavailable"

\* A pending profile does not stay pending, although the activation that entered
\* it may be overtaken and give up: the one that overtook it settles the profile.
PendingEnds == surface.readiness = "pending" ~> surface.readiness # "pending"

\* The installed profile is the one of the latest decision: the state is typed,
\* Pi's core tools are suppressed while it is active, a healthy profile belongs
\* to the current model and configuration, the dispatcher follows the stored
\* configuration, and the status line agrees with the profile.
ProfileIsCurrent ==
    TypeOK /\ IsolatedWhileActive /\ HealthyIsCurrent /\ PolicyFollowsFile /\ StatusMatchesProfile

\* Pi gets its own tools back: the selection from before, and for good once the
\* session is over.
PiIsRestored == RestoredSelection /\ ClosedStaysRestored
=============================================================================
