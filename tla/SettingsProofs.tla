--------------------------- MODULE SettingsProofs ---------------------------
(***************************************************************************)
(* Proofs about the settings overlay, the capability cache and the files   *)
(* of the configuration repository, for any number of concurrent tasks,    *)
(* any documents on disk, any configurations another process saves and any *)
(* model and bridge.                                                       *)
(*                                                                         *)
(* Most facts are about one task: what its operation, its step and the     *)
(* configuration it carries say about the file, the cache and the consent  *)
(* of the user.  Those of TaskFact hold always; those of SoloTask only     *)
(* while operations do not overlap, when at most one task runs and nobody  *)
(* else touches the files between its steps.                               *)
(***************************************************************************)
EXTENDS Settings, FiniteSetTheorems, TLAPS

-----------------------------------------------------------------------------
(* The inductive invariant.                                                *)

Configs == {c \in CodexConfig : ParseConfig(c)}
Writes == {"save", "save-and-close", "reset"}
Saves == {"save", "save-and-close"}
Policies == {"never", "unrestricted"}
Kinds == {"none", "help", "reset-confirm", "dirty-close", "approval-never-confirm",
          "filesystem-unrestricted-confirm"}
Clean == {"pristine", "saved"}
\* The rows that can be disabled with a reason.
Disablable == {"backgroundSessions", "viewImage", "imageGeneration", "transport", "webSearch",
               "compaction", "autoCompactTokenLimit", "compactNow"}

TaskRecord ==
    [op : {"none", "load", "restore"} \cup Writes,
     step : {"idle", "load", "create", "fill", "loaded", "resolving", "unresolved", "current",
             "backup", "write", "written", "restore", "failed", "rejected"},
     by : {"nobody", "self", "other"}, config : Configs, read : Contents, live : BOOLEAN,
     base : CodexConfig]
Overlay ==
    [phase : {"closed", "opening", "open", "disposed"}, draft : CodexConfig, saved : Configs,
     state : {"pristine", "dirty", "saving", "saved", "validation-error", "write-error"},
     dialog : [kind : Kinds, focus : 0..2],
     prompt : {"none", "autoCompactTokenLimit", "providers", "export", "compactNow"},
     disabled : SUBSET Disablable, active : BOOLEAN, checked : BOOLEAN]

\* A backup, or what a save read, is missing or whole.
Kept(f) == f \in Contents /\ (f = Absent \/ Whole(f))

Typed ==
    /\ file \in Contents /\ Kept(backup) /\ Kept(prev)
    /\ tasks \in [TaskIds -> TaskRecord]
    /\ told \subseteq Configs
    /\ overlapped \in BOOLEAN /\ damaged \in BOOLEAN
    /\ ui \in Overlay
    /\ confirmed \subseteq Policies /\ consented \subseteq Policies
    /\ overwritten \in BOOLEAN /\ seen \in BOOLEAN
    /\ DOMAIN bound = {"rows", "env", "file", "backup", "keys", "faults", "others"}

\* A resolution is filed under the key of the configuration it was made for.
CacheFiled ==
    /\ cache \in [DOMAIN cache -> [ready : BOOLEAN, config : Configs]]
    /\ \A k \in DOMAIN cache : CapabilityCacheKey(cache[k].config) = k

\* The steps an operation goes through, and what it carries along.
TaskShape(k) ==
    /\ \/ k = Idle
       \/ k.op = "load" /\ k.step \in {"load", "create", "fill", "loaded", "resolving",
                                       "unresolved", "failed"}
       \/ k.op \in Saves /\ k.step \in {"resolving", "current", "backup", "write", "written",
                                        "failed", "rejected"}
       \/ k.op = "reset" /\ k.step \in {"current", "backup", "write", "written", "failed"}
       \/ k.op = "restore" /\ k.step \in {"restore", "write", "written", "failed"}
    /\ k # Idle => k.by \in {"self", "other"}
    /\ k.op \in {"save-and-close", "reset", "restore"} => k.by = "self"
    /\ k.step \in {"resolving", "unresolved", "rejected"} => k.by = "self"
    /\ k.by = "other" => ~k.live
    /\ k.op \in Saves => k.base = k.config
    /\ k.op = "reset" => k.config = CreateDefaultConfig
    /\ Kept(k.read)
    /\ k.step = "backup" => Whole(k.read)

\* The settings a save of c would be refused for in the environment e.
Issues(c, e) == CollectCapabilityIssues(c, CapabilityContextFromSnapshot(Resolve(c, e), e))
Explicable(c, e) ==
    Issues(c, e) \ Unexplained(c, CapabilityContextFromSnapshot(Resolve(c, e), e))

\* What holds of a task k given the file f, the keys of the cache, the policies
\* consented to and the environment e.
TaskFact(k, f, keys, policies, e) ==
    /\ TaskShape(k)
    /\ k.step = "fill" => f = Torn \/ Whole(f)
    /\ k.step \in {"loaded", "unresolved", "written"} => Whole(f)
    /\ k.step = "resolving" /\ k.op = "load" => Whole(f) /\ e.selected
    /\ k.step = "resolving" /\ e.selected => CapabilityCacheKey(k.config) \in keys
    /\ /\ k.op \in Saves /\ k.by = "self" /\ e.selected
       /\ k.step \in {"current", "backup", "write", "written"}
       => Issues(k.config, e) = {}
    /\ Danger(k.config) \subseteq policies /\ Danger(k.read.config) \subseteq policies
TaskFacts == \A t \in TaskIds : TaskFact(tasks[t], file, DOMAIN cache, consented, Env)

\* A file that no task is creating, and that was not damaged, is not torn.
FileFacts ==
    /\ file.is = "torn" /\ ~damaged => file = Torn /\ \E t \in TaskIds : At(t, "fill")
    /\ ui.phase = "open" \/ told # {} => Whole(file)

\* What the overlay says about itself, and that its tasks are dropped with it.
OverlayFacts ==
    /\ ui.dialog # None => ui.phase = "open" /\ ui.prompt = "none"
    /\ ui.dialog.kind = "none" => ui.dialog = None
    /\ ui.phase # "open" => \A t \in TaskIds : tasks[t].op \in Writes => ~tasks[t].live
    /\ ui.phase = "open" /\ ui.state \in Clean => ui.draft = ui.saved

\* One load at a time brings the overlay up.
SelfLoad(k) == k.op = "load" /\ k.by = "self"
LoadFacts ==
    /\ \A t \in TaskIds : SelfLoad(tasks[t]) => ui.phase = "opening"
    /\ \A t, u \in TaskIds : SelfLoad(tasks[t]) /\ SelfLoad(tasks[u]) => t = u

\* Every setting a save of the saved configuration would be refused for has a
\* disabled row.
RefusalFacts ==
    ui.phase = "open" /\ ui.checked => Env.selected /\ Explicable(ui.saved, Env) \subseteq ui.disabled

\* The policies of the draft, of the files and of the focused choice of a dialog.
DangerFacts ==
    /\ ui.phase = "open" /\ ~overwritten => Danger(ui.draft) \subseteq confirmed
    /\ ui.phase = "open" => Danger(ui.draft) \subseteq consented
    /\ ui.dialog # None => {Selected} \cap Policies \subseteq consented
    /\ Whole(file) => Danger(file.config) \subseteq consented
    /\ Danger(backup.config) \subseteq consented

\* What holds of the only running task k.
SoloTask(k, f, b, p, w, phase) ==
    /\ k.step = "fill" => f = Torn
    /\ k.step = "backup" => k.read = f
    /\ k.step = "write" /\ k.op # "restore" => (Whole(f) => b = f)
    /\ k.step = "write" /\ k.op = "restore" => b = Json(k.config)
    /\ k.step = "written" => f = Json(k.config) /\ w = k.by /\ (k.op # "restore" => b = p)
    /\ k.step \in {"loaded", "resolving", "unresolved"} /\ k.op = "load" => f = Json(k.config)
    /\ k.op \in {"load", "restore"} /\ k.by = "self" => phase # "open"
    /\ k.op \in Writes /\ k.by = "self" /\ phase = "open" => k.live

Alone == \A t, u \in TaskIds : tasks[t] # Idle /\ tasks[u] # Idle => t = u
SoloTasks == \A t \in TaskIds : SoloTask(tasks[t], file, backup, prev, writer, ui.phase)
BackupFacts == backup \in {prev, file} /\ (~Whole(file) => backup = prev)
ShownFacts ==
    /\ ui.phase = "open" /\ ui.state \in Clean /\ seen
    /\ ~\E t \in TaskIds : At(t, "written") /\ tasks[t].by = "self"
    => file = Json(ui.saved)
ToldFacts ==
    told # {} /\ writer = "self" /\ (~\E t \in TaskIds : At(t, "written")) => told = {file.config}
SoloFacts == ~overlapped => Alone /\ SoloTasks /\ BackupFacts /\ ShownFacts /\ ToldFacts

IInv == /\ Typed /\ CacheFiled /\ TaskFacts /\ FileFacts /\ OverlayFacts /\ LoadFacts
        /\ RefusalFacts /\ DangerFacts /\ SoloFacts

-----------------------------------------------------------------------------
(* The rules.                                                              *)

\* Whatever a save refuses, the evaluation of the same configuration in the same
\* context shows as unsupported, for every configuration and every context, except
\* a limit below a context window that is no safe integer (config.ts checks that in
\* collectCapabilityIssues and not in evaluateAutoCompactTokenLimit).
THEOREM RefusalsExplained ==
    ASSUME NEW c, NEW x, c.autoCompactTokenLimit \in Nat
    PROVE  CollectCapabilityIssues(c, x) \subseteq Unsupported(c, x) \cup Unexplained(c, x)
  <1> DEFINE shown == EvaluateConfigSettings(c, x)
  <1>1. SUFFICES ASSUME NEW r \in CollectCapabilityIssues(c, x), r \notin Unexplained(c, x)
                 PROVE  r \in DOMAIN shown /\ shown[r] = "unsupported"
    BY DEF Unsupported
  <1>2. CASE r = "backgroundSessions"
    <2>1. c.backgroundSessions /\ x.backgroundSessions = "false"
      BY <1>2, <1>1 DEF CollectCapabilityIssues
    <2> QED BY <1>2, <2>1 DEF EvaluateConfigSettings, EvaluateBackgroundSessions
  <1>3. CASE r = "webSearch"
    <2>1. c.webSearch # "disabled" /\ (x.webSearch = "false" \/ Lacks(x, WebNames))
      BY <1>3, <1>1 DEF CollectCapabilityIssues
    <2>2. EvaluateWebSearch(c, x) = "unsupported"
      BY <2>1 DEF EvaluateWebSearch
    <2> QED BY <1>3, <2>2 DEF EvaluateConfigSettings
  <1>4. CASE r = "compaction"
    <2>1. /\ c.compaction = "auto"
          /\ \/ x.manual = "false" \/ Lacks(x, CompactionNames)
             \/ x.v2 = "false" /\ x.endpoint = "false"
      BY <1>4, <1>1 DEF CollectCapabilityIssues
    <2>2. EvaluateCompaction(c, x) = "unsupported"
      BY <2>1 DEF EvaluateCompaction
    <2> QED BY <1>4, <2>2 DEF EvaluateConfigSettings
  <1>5. CASE r = "transport"
    <2>1. \/ x.transport = "false"
          \/ /\ x.transport = "undefined"
             /\ Lacks(x, IF c.transport = "sse" \/ x.websockets = "false"
                         THEN {"responses_sse"} ELSE TransportNames)
      BY <1>5, <1>1 DEF CollectCapabilityIssues
    <2>2. EvaluateTransport(c, x) = "unsupported"
      BY <2>1 DEF EvaluateTransport
    <2> QED BY <1>5, <2>2 DEF EvaluateConfigSettings
  <1>6. CASE r = "autoCompactTokenLimit"
    <2> DEFINE limit == c.autoCompactTokenLimit
    <2>1. /\ c.compaction = "auto"
          /\ \/ /\ limit # ModelLimit /\ x.window.kind # "none"
                /\ \/ x.window.kind = "other" \/ x.window.size = 0
                   \/ limit >= x.window.size
             \/ limit = ModelLimit /\ x.modelLimit = "null"
      BY <1>6, <1>1 DEF CollectCapabilityIssues
    <2>2. limit # ModelLimit /\ x.window.kind = "other" => Reaches(limit, x.window)
      BY <1>6, <1>1 DEF Unexplained
    <2>3. x.window.size = 0 => limit >= x.window.size
      OBVIOUS
    <2>4. /\ c.compaction = "auto"
          /\ \/ limit # ModelLimit /\ Reaches(limit, x.window)
             \/ limit = ModelLimit /\ x.modelLimit = "null"
      BY <2>1, <2>2, <2>3 DEF Reaches
    <2>5. EvaluateAutoCompactTokenLimit(c, x) = "unsupported"
      BY <2>4 DEF EvaluateAutoCompactTokenLimit
    <2> QED BY <1>6, <2>4, <2>5 DEF EvaluateConfigSettings
  <1>7. r \in {"backgroundSessions", "webSearch", "compaction", "transport",
               "autoCompactTokenLimit"}
    BY <1>1 DEF CollectCapabilityIssues
  <1> QED BY <1>2, <1>3, <1>4, <1>5, <1>6, <1>7

\* Configurations with the same key have the same effective capabilities: the key
\* leaves out nothing the resolution reads.
LEMMA SameKeySameSnapshot ==
    ASSUME NEW c, NEW d, NEW e, CapabilityCacheKey(c) = CapabilityCacheKey(d)
    PROVE  Resolve(c, e) = Resolve(d, e)
  <1>1. /\ c.webSearch = d.webSearch /\ c.viewImage = d.viewImage
        /\ c.imageGeneration = d.imageGeneration
        /\ c.backgroundSessions = d.backgroundSessions /\ c.compaction = d.compaction
        /\ c.autoCompactTokenLimit = d.autoCompactTokenLimit
    BY DEF CapabilityCacheKey
  <1>2. BuildToolsResolveParams(c, e) = BuildToolsResolveParams(d, e)
    BY <1>1 DEF BuildToolsResolveParams
  <1>3. ManualCompaction(c, e) = ManualCompaction(d, e)
    BY <1>1 DEF ManualCompaction
  <1>4. ResolveThreshold(c, e) = ResolveThreshold(d, e)
    BY <1>1 DEF ResolveThreshold
  <1>5. AutomaticCompaction(c, e) = AutomaticCompaction(d, e)
    BY <1>3, <1>4 DEF AutomaticCompaction
  <1> QED BY <1>1, <1>2, <1>3, <1>4, <1>5, Zenon DEF Resolve

\* Whether a setting is refused depends on that setting alone, for the limit also on
\* the compaction mode.
LEMMA IssuesAreLocal ==
    ASSUME NEW c, NEW d, NEW e, NEW r \in Issues(c, e), c[r] = d[r],
           r = "autoCompactTokenLimit" => c.compaction = d.compaction
    PROVE  r \in Issues(d, e)
  <1> DEFINE X(z) == CapabilityContextFromSnapshot(Resolve(z, e), e)
  <1>1. /\ X(c).window = X(d).window /\ X(c).modelLimit = X(d).modelLimit
        /\ X(c).transport = X(d).transport /\ X(c).transport # "undefined"
    BY DEF CapabilityContextFromSnapshot, Resolve, Truth
  <1>2. ASSUME c.backgroundSessions = d.backgroundSessions
        PROVE  X(c).backgroundSessions = X(d).backgroundSessions
    <2>1. Resolve(c, e).sessionSurface = Resolve(d, e).sessionSurface
      BY <1>2 DEF Resolve, SessionSurface, BuildToolsResolveParams
    <2> QED BY <2>1 DEF CapabilityContextFromSnapshot
  <1>3. ASSUME c.webSearch = d.webSearch
        PROVE  X(c).webSearch = X(d).webSearch /\ X(c).webSearch # "undefined"
    <2>1. WebSurface(BuildToolsResolveParams(c, e), e) = WebSurface(BuildToolsResolveParams(d, e), e)
      BY <1>3 DEF WebSurface, BuildToolsResolveParams
    <2>2. Resolve(c, e).webSearch = Resolve(d, e).webSearch
      BY <2>1 DEF Resolve
    <2> QED BY <2>2 DEF CapabilityContextFromSnapshot, Truth
  <1>4. ASSUME c.compaction = d.compaction
        PROVE  X(c).manual = X(d).manual /\ X(c).manual # "undefined"
    <2>1. Resolve(c, e).manual = Resolve(d, e).manual
      BY <1>4 DEF Resolve, ManualCompaction
    <2> QED BY <2>1 DEF CapabilityContextFromSnapshot, Truth
  <1>5. r \in {"backgroundSessions", "webSearch", "compaction", "transport",
               "autoCompactTokenLimit"}
    BY DEF Issues, CollectCapabilityIssues
  <1> HIDE DEF X
  <1>6. r \in CollectCapabilityIssues(c, X(c))
    BY DEF Issues, X
  <1>7. r \in CollectCapabilityIssues(d, X(d))
    <2>1. CASE r = "backgroundSessions"
      BY <2>1, <1>2, <1>6 DEF CollectCapabilityIssues
    <2>2. CASE r = "webSearch"
      BY <2>2, <1>3, <1>6 DEF CollectCapabilityIssues
    <2>3. CASE r = "compaction"
      BY <2>3, <1>4, <1>6 DEF CollectCapabilityIssues
    <2>4. CASE r = "transport"
      BY <2>4, <1>1, <1>6 DEF CollectCapabilityIssues
    <2>5. CASE r = "autoCompactTokenLimit"
      BY <2>5, <1>1, <1>6 DEF CollectCapabilityIssues
    <2> QED BY <1>5, <2>1, <2>2, <2>3, <2>4, <2>5
  <1> QED BY <1>7 DEF Issues, X

\* The same holds of the refusals that have an explanation.
LEMMA ExplicableIsLocal ==
    ASSUME NEW c, NEW d, NEW e, NEW r \in Explicable(c, e), c[r] = d[r],
           r = "autoCompactTokenLimit" => c.compaction = d.compaction
    PROVE  r \in Explicable(d, e)
  <1> DEFINE X(z) == CapabilityContextFromSnapshot(Resolve(z, e), e)
  <1>1. X(c).window = X(d).window
    BY DEF CapabilityContextFromSnapshot
  <1> HIDE DEF X
  <1>2. r \in Issues(c, e) /\ r \notin Unexplained(c, X(c))
    BY DEF Explicable, X
  <1>3. r \in Issues(d, e)
    BY <1>2, IssuesAreLocal
  <1>4. r \notin Unexplained(d, X(d))
    BY <1>1, <1>2 DEF Unexplained
  <1> QED BY <1>3, <1>4 DEF Explicable, X

-----------------------------------------------------------------------------
(* Configurations and files.                                               *)

LEMMA DefaultIsValid ==
    /\ CreateDefaultConfig \in Configs
    /\ Danger(CreateDefaultConfig) = {}
  <1>1. CreateDefaultConfig \in CodexConfig
    BY ProviderAssumption DEF CreateDefaultConfig, CodexConfig, ModelLimit
  <1>2. ParseConfig(CreateDefaultConfig)
    BY ProviderAssumption
    DEF CreateDefaultConfig, ParseConfig, ParseActivation, ParseTools, ParseSecurity,
        ParseCodex, ParseUi, ParseCompaction, NestedMode, ModelLimit
  <1>3. Danger(CreateDefaultConfig) = {}
    BY DEF Danger, CreateDefaultConfig
  <1> QED BY <1>1, <1>2, <1>3 DEF Configs

LEMMA DangerBounded == \A c : Danger(c) \subseteq Policies
  BY DEF Danger, Policies

LEMMA JsonIsWhole ==
    ASSUME NEW c \in Configs
    PROVE  /\ Json(c) \in Contents /\ Whole(Json(c)) /\ Kept(Json(c))
           /\ Json(c).config = c /\ Json(c).is = "json"
  BY DEF Json, Content, Contents, Whole, Kept, Configs

LEMMA WholeIsJson ==
    ASSUME NEW f \in Contents, Whole(f)
    PROVE  f.config \in Configs /\ f = Json(f.config) /\ Kept(f) /\ f # Absent /\ f # Torn
  <1>1. f.config \in Configs
    BY ForeignIsInvalid DEF Contents, Whole, Configs
  <1>2. f = Json(f.config)
    BY DEF Contents, Whole, Json, Content
  <1>3. f # Absent /\ f # Torn
    BY DEF Whole, Absent, Torn, Content
  <1> QED BY <1>1, <1>2, <1>3 DEF Kept

LEMMA PlainContents ==
    /\ Absent \in Contents /\ ~Whole(Absent) /\ Kept(Absent)
    /\ Torn \in Contents /\ ~Whole(Torn)
    /\ Absent # Torn /\ Absent.is = "absent" /\ Torn.is = "torn"
    /\ Absent.config = CreateDefaultConfig
  BY DefaultIsValid DEF Absent, Torn, Content, Contents, Whole, Kept, Configs

LEMMA NewTask ==
    ASSUME NEW op, NEW step, NEW by, NEW c, NEW d
    PROVE  LET k == Task(op, step, by, c, d)
           IN  /\ k.op = op /\ k.step = step /\ k.by = by /\ k.config = c /\ k.read = Absent
               /\ k.live = (by = "self") /\ k.base = d
  BY DEF Task

LEMMA NewTaskTyped ==
    ASSUME NEW op \in {"none", "load", "restore"} \cup Writes,
           NEW step \in {"idle", "load", "resolving", "current", "restore"},
           NEW by \in {"nobody", "self", "other"}, NEW c \in Configs, NEW d \in CodexConfig
    PROVE  Task(op, step, by, c, d) \in TaskRecord
  BY PlainContents DEF Task, TaskRecord

LEMMA IdleTask ==
    /\ Idle \in TaskRecord /\ Idle.op = "none" /\ Idle.step = "idle" /\ Idle.by = "nobody"
    /\ Idle.config = CreateDefaultConfig /\ Idle.read = Absent /\ Idle.live = FALSE
  <1>1. CreateDefaultConfig \in CodexConfig
    BY DefaultIsValid DEF Configs
  <1>2. Idle \in TaskRecord
    BY <1>1, DefaultIsValid, NewTaskTyped DEF Idle
  <1> QED BY <1>2 DEF Idle, Task

LEMMA IdleFacts ==
    ASSUME NEW f, NEW keys, NEW policies, NEW e
    PROVE  TaskFact(Idle, f, keys, policies, e)
  <1>1. TaskShape(Idle)
    BY IdleTask, PlainContents DEF TaskShape, Saves
  <1>2. Danger(Idle.config) = {} /\ Danger(Idle.read.config) = {}
    BY IdleTask, PlainContents, DefaultIsValid
  <1> QED BY <1>1, <1>2, IdleTask DEF TaskFact, Saves

LEMMA IdleSolo ==
    ASSUME NEW f, NEW b, NEW p, NEW w, NEW phase
    PROVE  SoloTask(Idle, f, b, p, w, phase)
  BY IdleTask DEF SoloTask, Writes

\* A fact about a task survives whatever does not take the file, its key or the
\* consent away.
LEMMA TaskFactStays ==
    ASSUME NEW k, NEW f, NEW keys, NEW policies, NEW e, TaskFact(k, f, keys, policies, e),
           NEW g, NEW others, NEW more,
           Whole(f) => Whole(g), f = Torn => g = Torn \/ Whole(g),
           k.step = "resolving" /\ e.selected /\ CapabilityCacheKey(k.config) \in keys
               => CapabilityCacheKey(k.config) \in others,
           policies \subseteq more
    PROVE  TaskFact(k, g, others, more, e)
  BY DEF TaskFact

\* The tasks after a step that changes one of them.
LEMMA TaskFactsMove ==
    ASSUME Typed, TaskFacts, NEW t \in TaskIds, NEW k, tasks' = [tasks EXCEPT ![t] = k],
           Whole(file) => Whole(file'), file = Torn => file' = Torn \/ Whole(file'),
           DOMAIN cache \subseteq DOMAIN cache', consented \subseteq consented', Env' = Env,
           TaskFact(k, file', DOMAIN cache', consented', Env)
    PROVE  TaskFacts'
  <1>1. SUFFICES ASSUME NEW u \in TaskIds
                 PROVE  TaskFact(tasks'[u], file', DOMAIN cache', consented', Env)
    BY DEF TaskFacts
  <1>2. CASE u = t
    BY <1>2 DEF Typed
  <1>3. CASE u # t
    <2>1. tasks'[u] = tasks[u]
      BY <1>3 DEF Typed
    <2>2. TaskFact(tasks[u], file, DOMAIN cache, consented, Env)
      BY DEF TaskFacts
    <2> HIDE DEF Env
    <2> QED BY <2>1, <2>2, TaskFactStays
  <1> QED BY <1>2, <1>3

\* The only task after a step of it, or after it began.
LEMMA SoloMove ==
    ASSUME Typed, Alone, NEW t \in TaskIds, NEW k, tasks' = [tasks EXCEPT ![t] = k],
           \A u \in TaskIds : u # t => tasks[u] = Idle,
           SoloTask(k, file', backup', prev', writer', ui'.phase)
    PROVE  Alone' /\ SoloTasks'
  <1>1. \A u \in TaskIds : u # t => tasks'[u] = Idle
    BY DEF Typed
  <1>2. tasks'[t] = k
    BY DEF Typed
  <1>3. Alone'
    BY <1>1 DEF Alone
  <1>4. ASSUME NEW u \in TaskIds
        PROVE  SoloTask(tasks'[u], file', backup', prev', writer', ui'.phase)
    <2>1. CASE u = t BY <2>1, <1>2
    <2>2. CASE u # t BY <2>2, <1>1, IdleSolo
    <2> QED BY <2>1, <2>2
  <1> QED BY <1>3, <1>4 DEF SoloTasks

-----------------------------------------------------------------------------
(* The initial states.                                                     *)

LEMMA ClosedOverlay ==
    /\ Closed \in Overlay /\ Closed.phase = "closed" /\ Closed.dialog = None
    /\ Closed.prompt = "none" /\ Closed.dialog.kind = "none"
  <1>1. CreateDefaultConfig \in CodexConfig /\ CreateDefaultConfig \in Configs
    BY DefaultIsValid DEF Configs
  <1>2. None \in [kind : Kinds, focus : 0..2] /\ None.kind = "none"
    BY DEF None, Kinds
  <1> QED BY <1>1, <1>2 DEF Closed, Overlay

LEMMA InitIInv == Init => IInv
  <1> SUFFICES ASSUME Init PROVE IInv
    OBVIOUS
  <1>1. /\ bound \in Bounds /\ file = bound.file /\ backup = bound.backup /\ prev = backup
        /\ tasks = [t \in TaskIds |-> Idle] /\ told = {} /\ writer = "self"
        /\ overlapped = FALSE /\ damaged = (file.is = "torn")
        /\ ui = Closed /\ cache = <<>> /\ confirmed = {} /\ overwritten = FALSE /\ seen = TRUE
    BY DEF Init, StoreInit
  <1>2. DOMAIN cache = {} /\ cache \in [DOMAIN cache -> [ready : BOOLEAN, config : Configs]]
    BY <1>1
  <1>3. consented = UNION {Danger(f.config) : f \in {g \in {file, backup} : Whole(g)}}
    BY DEF Init
  <1>4. consented \subseteq Policies
    BY <1>3, DangerBounded
  <1>5. Whole(file) => Danger(file.config) \subseteq consented
    BY <1>3
  <1>6. Kept(backup) /\ file \in Contents
    BY <1>1, BoundsAssumption DEF Kept
  <1>7. Danger(backup.config) \subseteq consented
    BY <1>3, <1>6, PlainContents, DefaultIsValid DEF Kept
  <1>8. Typed
    BY <1>1, <1>4, <1>6, IdleTask, ClosedOverlay, BoundsAssumption DEF Typed
  <1>9. CacheFiled
    BY <1>2 DEF CacheFiled
  <1>10. TaskFacts
    BY <1>1, IdleFacts DEF TaskFacts
  <1>11. FileFacts
    BY <1>1, ClosedOverlay DEF FileFacts
  <1>12. OverlayFacts /\ RefusalFacts
    BY <1>1, ClosedOverlay, IdleTask DEF OverlayFacts, RefusalFacts, Writes
  <1>13. DangerFacts
    BY <1>1, <1>5, <1>7, ClosedOverlay DEF DangerFacts
  <1>14. SoloFacts
    <2>1. Alone /\ SoloTasks
      BY <1>1, IdleSolo DEF Alone, SoloTasks
    <2> QED BY <2>1, <1>1, ClosedOverlay DEF SoloFacts, BackupFacts, ShownFacts, ToldFacts
  <1>15. LoadFacts
    BY <1>1, IdleTask DEF LoadFacts, SelfLoad
  <1> QED BY <1>8, <1>9, <1>10, <1>11, <1>12, <1>13, <1>14, <1>15 DEF IInv

-----------------------------------------------------------------------------
(* Keys and prompts: steps that change only the overlay and what the user  *)
(* has consented to.                                                       *)

StoreStays == UNCHANGED <<file, backup, told, prev, writer, damaged>>
EnvStays == DOMAIN bound' = DOMAIN bound /\ Env' = Env

UiStep ==
    /\ ui.phase = "open" /\ ui' \in Overlay /\ ui'.phase = "open"
    /\ ui'.saved = ui.saved /\ ui'.disabled = ui.disabled /\ ui'.checked = ui.checked
    /\ ui'.state \in Clean => ui'.state = ui.state /\ ui'.draft = ui.draft
    /\ ui'.dialog # None => ui'.prompt = "none" /\ {Selected'} \cap Policies \subseteq consented'
    /\ ui'.dialog.kind = "none" => ui'.dialog = None
    /\ consented \subseteq consented' /\ consented' \subseteq Policies /\ confirmed' \subseteq Policies
    /\ Danger(ui'.draft) \subseteq Danger(ui.draft) \cup consented'
    /\ Danger(ui.draft) \subseteq confirmed => Danger(ui'.draft) \subseteq confirmed'
    /\ EnvStays /\ StoreStays
    /\ UNCHANGED <<cache, seen, tasks, overlapped, overwritten>>

LEMMA UiStepKeeps == IInv /\ UiStep => IInv'
  <1> SUFFICES ASSUME IInv, UiStep PROVE IInv'
    OBVIOUS
  <1> USE DEF EnvStays, StoreStays
  <1>1. Typed'
    BY DEF IInv, Typed, UiStep
  <1>2. CacheFiled'
    BY DEF IInv, CacheFiled, UiStep
  <1>3. TaskFacts'
    <2>1. ASSUME NEW t \in TaskIds
          PROVE  TaskFact(tasks'[t], file', DOMAIN cache', consented', Env')
      <3>1. TaskFact(tasks[t], file, DOMAIN cache, consented, Env)
        BY DEF IInv, TaskFacts
      <3>2. /\ tasks' = tasks /\ file' = file /\ cache' = cache /\ Env' = Env
            /\ consented \subseteq consented'
        BY DEF UiStep
      <3> HIDE DEF Env
      <3> QED BY <3>1, <3>2, TaskFactStays
    <2> QED BY <2>1 DEF TaskFacts
  <1>4. FileFacts'
    BY DEF IInv, FileFacts, UiStep, At
  <1>5. OverlayFacts'
    BY DEF IInv, OverlayFacts, UiStep
  <1>6. RefusalFacts'
    <2> HIDE DEF Env
    <2> QED BY DEF IInv, RefusalFacts, UiStep
  <1>7. DangerFacts'
    BY DEF IInv, DangerFacts, UiStep
  <1>8. SoloFacts'
    <2>1. SUFFICES ASSUME ~overlapped PROVE Alone' /\ SoloTasks' /\ BackupFacts' /\ ShownFacts' /\ ToldFacts'
      BY DEF SoloFacts, UiStep
    <2>2. Alone /\ SoloTasks /\ BackupFacts /\ ShownFacts /\ ToldFacts
      BY <2>1 DEF IInv, SoloFacts
    <2>3. /\ UNCHANGED <<file, backup, told, prev, writer, tasks, seen>> /\ ui'.phase = ui.phase
      BY DEF UiStep
    <2>4. Alone' /\ SoloTasks' /\ BackupFacts' /\ ToldFacts'
      BY <2>2, <2>3 DEF Alone, SoloTasks, BackupFacts, ToldFacts, At
    <2>5. ShownFacts'
      BY <2>2, <2>3 DEF ShownFacts, UiStep, At
    <2> QED BY <2>4, <2>5
  <1>9. LoadFacts'
    BY DEF IInv, LoadFacts, UiStep
  <1> QED BY <1>1, <1>2, <1>3, <1>4, <1>5, <1>6, <1>7, <1>8, <1>9 DEF IInv

LEMMA Spent ==
    ASSUME Typed, NEW field \in {"keys", "faults", "others"}, Spend(field)
    PROVE  EnvStays
  BY DEF Typed, Spend, EnvStays, Env

LEMMA EnvSame == ASSUME UNCHANGED bound PROVE EnvStays
  BY DEF EnvStays, Env

\* A cycled value is one of the values.
LEMMA CycleStays ==
    ASSUME NEW n \in {2, 3, 4}, NEW s, DOMAIN s = 1..n, NEW v, \E j \in 1..n : s[j] = v
    PROVE  \E j \in 1..n : CycleThrough(v, s) = s[j]
  <1>1. PICK i \in 1..n : i = (CHOOSE j \in DOMAIN s : s[j] = v)
    OBVIOUS
  <1>2. Cardinality(DOMAIN s) = n
    BY FS_Interval
  <1>3. (i % n) + 1 \in 1..n
    <2>1. CASE n = 2 BY <2>1
    <2>2. CASE n = 3 BY <2>2
    <2>3. CASE n = 4 BY <2>3
    <2> QED BY <2>1, <2>2, <2>3
  <1> QED BY <1>1, <1>2, <1>3 DEF CycleThrough

\* Editing a setting other than the two policies keeps the draft a document of the
\* schema and its policies as they are.
LEMMA CycledDraft ==
    ASSUME NEW c \in CodexConfig,
           NEW r \in {"viewImage", "imageGeneration", "serviceTier", "verbosity", "transport",
                      "webSearch", "compaction"}
    PROVE  CycleFocused(c, r) \in CodexConfig /\ Danger(CycleFocused(c, r)) = Danger(c)
  <1>1. CASE r \in {"viewImage", "imageGeneration"}
    <2>1. CycleFocused(c, r) = [c EXCEPT ![r] = FlipAutoOff(c[r])]
      BY <1>1 DEF CycleFocused, CodexConfig
    <2>2. FlipAutoOff(c[r]) \in {"auto", "off"}
      BY DEF FlipAutoOff
    <2> QED BY <1>1, <2>1, <2>2 DEF CodexConfig, Danger
  <1>2. CASE r = "serviceTier"
    <2>1. CycleThrough(c[r], <<"default", "priority", "flex">>) \in {"default", "priority", "flex"}
      <3> DEFINE s == <<"default", "priority", "flex">>
      <3>1. DOMAIN s = 1..3 /\ s[1] = "default" /\ s[2] = "priority" /\ s[3] = "flex"
        OBVIOUS
      <3>2. c[r] \in {"default", "priority", "flex"}
        BY <1>2 DEF CodexConfig
      <3> HIDE DEF s
      <3>3. \E j \in 1..3 : CycleThrough(c[r], s) = s[j]
        BY <3>1, <3>2, CycleStays
      <3> QED BY <3>1, <3>3 DEF s
    <2>2. CycleFocused(c, r) = [c EXCEPT ![r] = CycleThrough(c[r], <<"default", "priority", "flex">>)]
      BY <1>2 DEF CycleFocused, CodexConfig
    <2> QED BY <1>2, <2>1, <2>2 DEF CodexConfig, Danger
  <1>3. CASE r = "verbosity"
    <2>1. CycleThrough(c[r], <<"low", "medium", "high">>) \in {"low", "medium", "high"}
      <3> DEFINE s == <<"low", "medium", "high">>
      <3>1. DOMAIN s = 1..3 /\ s[1] = "low" /\ s[2] = "medium" /\ s[3] = "high"
        OBVIOUS
      <3>2. c[r] \in {"low", "medium", "high"}
        BY <1>3 DEF CodexConfig
      <3> HIDE DEF s
      <3>3. \E j \in 1..3 : CycleThrough(c[r], s) = s[j]
        BY <3>1, <3>2, CycleStays
      <3> QED BY <3>1, <3>3 DEF s
    <2>2. CycleFocused(c, r) = [c EXCEPT ![r] = CycleThrough(c[r], <<"low", "medium", "high">>)]
      BY <1>3 DEF CycleFocused, CodexConfig
    <2> QED BY <1>3, <2>1, <2>2 DEF CodexConfig, Danger
  <1>4. CASE r = "transport"
    <2>1. CycleThrough(c[r], <<"auto", "sse">>) \in {"auto", "sse"}
      <3> DEFINE s == <<"auto", "sse">>
      <3>1. DOMAIN s = 1..2 /\ s[1] = "auto" /\ s[2] = "sse"
        OBVIOUS
      <3>2. c[r] \in {"auto", "sse"}
        BY <1>4 DEF CodexConfig
      <3> HIDE DEF s
      <3>3. \E j \in 1..2 : CycleThrough(c[r], s) = s[j]
        BY <3>1, <3>2, CycleStays
      <3> QED BY <3>1, <3>3 DEF s
    <2>2. CycleFocused(c, r) = [c EXCEPT ![r] = CycleThrough(c[r], <<"auto", "sse">>)]
      BY <1>4 DEF CycleFocused, CodexConfig
    <2> QED BY <1>4, <2>1, <2>2 DEF CodexConfig, Danger
  <1>5. CASE r = "webSearch"
    <2>1. CycleThrough(c[r], <<"disabled", "cached", "indexed", "live">>)
              \in {"disabled", "cached", "indexed", "live"}
      <3> DEFINE s == <<"disabled", "cached", "indexed", "live">>
      <3>1. /\ DOMAIN s = 1..4 /\ s[1] = "disabled" /\ s[2] = "cached" /\ s[3] = "indexed"
            /\ s[4] = "live"
        OBVIOUS
      <3>2. c[r] \in {"disabled", "cached", "indexed", "live"}
        BY <1>5 DEF CodexConfig
      <3> HIDE DEF s
      <3>3. \E j \in 1..4 : CycleThrough(c[r], s) = s[j]
        BY <3>1, <3>2, CycleStays
      <3> QED BY <3>1, <3>3 DEF s
    <2>2. CycleFocused(c, r)
            = [c EXCEPT ![r] = CycleThrough(c[r], <<"disabled", "cached", "indexed", "live">>)]
      BY <1>5 DEF CycleFocused, CodexConfig
    <2> QED BY <1>5, <2>1, <2>2 DEF CodexConfig, Danger
  <1>6. CASE r = "compaction"
    <2>1. CycleFocused(c, r)
            = [c EXCEPT !.compaction = IF c.compaction = "off" THEN "auto" ELSE "off",
                        !.autoCompactTokenLimit = ModelLimit]
      BY <1>6 DEF CycleFocused, CodexConfig
    <2>2. (IF c.compaction = "off" THEN "auto" ELSE "off") \in {"auto", "off"} /\ ModelLimit \in Nat
      BY DEF ModelLimit
    <2> DEFINE v == IF c.compaction = "off" THEN "auto" ELSE "off"
               d == [c EXCEPT !.compaction = v, !.autoCompactTokenLimit = ModelLimit]
    <2>3. v \in {"auto", "off"} /\ CycleFocused(c, r) = d
      BY <2>1, <2>2
    <2> HIDE DEF v
    <2>4. d \in CodexConfig
      <3> DEFINE b == [c EXCEPT !.compaction = v]
      <3>1. b \in CodexConfig
        BY <2>3 DEF CodexConfig
      <3>2. d = [b EXCEPT !.autoCompactTokenLimit = ModelLimit]
        OBVIOUS
      <3> HIDE DEF b, d
      <3> QED BY <2>2, <3>1, <3>2 DEF CodexConfig
    <2>5. d.approvalPolicy = c.approvalPolicy /\ d.filesystemAccessPolicy = c.filesystemAccessPolicy
      BY DEF CodexConfig
    <2> HIDE DEF d
    <2> QED BY <2>3, <2>4, <2>5 DEF Danger
  <1> QED BY <1>1, <1>2, <1>3, <1>4, <1>5, <1>6

LEMMA ToggledDraft ==
    ASSUME NEW c \in CodexConfig, NEW r \in {"backgroundSessions", "status"}
    PROVE  ToggleFocused(c, r) \in CodexConfig /\ Danger(ToggleFocused(c, r)) = Danger(c)
  <1>1. CASE r = "backgroundSessions" BY <1>1 DEF ToggleFocused, CodexConfig, Danger
  <1>2. CASE r = "status" BY <1>2 DEF ToggleFocused, CodexConfig, Danger
  <1> QED BY <1>1, <1>2

\* The overlay after a change of its draft, its state, its dialog or its prompt.
LEMMA EditedOverlay ==
    ASSUME NEW m \in Overlay, NEW c \in CodexConfig
    PROVE  LET n == Edited(m, c)
           IN  /\ n \in Overlay /\ n.phase = m.phase /\ n.saved = m.saved /\ n.disabled = m.disabled
               /\ n.checked = m.checked /\ n.state = "dirty" /\ n.draft = c
               /\ n.dialog = m.dialog /\ n.prompt = m.prompt
  BY DEF Edited, MarkDirty, Overlay
LEMMA DialogOverlay ==
    ASSUME NEW m \in Overlay, NEW d \in [kind : Kinds, focus : 0..2]
    PROVE  LET n == [m EXCEPT !.dialog = d]
           IN  /\ n \in Overlay /\ n.phase = m.phase /\ n.saved = m.saved /\ n.disabled = m.disabled
               /\ n.checked = m.checked /\ n.state = m.state /\ n.draft = m.draft
               /\ n.dialog = d /\ n.prompt = m.prompt
  BY DEF Overlay
LEMMA PromptOverlay ==
    ASSUME NEW m \in Overlay,
           NEW p \in {"none", "autoCompactTokenLimit", "providers", "export", "compactNow"}
    PROVE  LET n == [m EXCEPT !.prompt = p]
           IN  /\ n \in Overlay /\ n.phase = m.phase /\ n.saved = m.saved /\ n.disabled = m.disabled
               /\ n.checked = m.checked /\ n.state = m.state /\ n.draft = m.draft
               /\ n.dialog = m.dialog /\ n.prompt = p
  BY DEF Overlay
LEMMA ErrorOverlay ==
    ASSUME NEW m \in Overlay, NEW s \in {"validation-error", "write-error"}
    PROVE  LET n == MarkError(m, TRUE, s)
           IN  /\ n \in Overlay /\ n.phase = m.phase /\ n.saved = m.saved /\ n.disabled = m.disabled
               /\ n.checked = m.checked /\ n.state = s /\ n.draft = m.draft
               /\ n.dialog = m.dialog /\ n.prompt = m.prompt
  BY DEF Overlay, MarkError
LEMMA NoDialog == None \in [kind : Kinds, focus : 0..2] /\ None.kind = "none"
  BY DEF None, Kinds

LEMMA ToggleUi == ASSUME IInv, NEW r, Toggle(r) PROVE UiStep
  <1>1. ui \in Overlay /\ ui.draft \in CodexConfig /\ consented \subseteq Policies /\ confirmed \subseteq Policies
    BY DEF IInv, Typed, Overlay
  <1>2. /\ r \in {"backgroundSessions", "status"} /\ ui.phase = "open" /\ ui.prompt = "none"
        /\ ui.dialog = None /\ ui' = Edited(ui, ToggleFocused(ui.draft, r)) /\ UNCHANGED confirmed
        /\ Spend("keys")
    BY DEF Toggle, Focused, Interactive
  <1>3. EnvStays
    BY <1>2, Spent DEF IInv
  <1>4. StoreStays /\ UNCHANGED <<cache, seen, tasks, overlapped, overwritten, consented>>
    BY DEF Toggle, ModelOnly, UntouchedByKeys, StoreStays
  <1> DEFINE c == ToggleFocused(ui.draft, r)
  <1>5. c \in CodexConfig /\ Danger(c) = Danger(ui.draft)
    BY <1>1, <1>2, ToggledDraft
  <1>6. ui' = Edited(ui, c)
    BY <1>2
  <1> HIDE DEF EnvStays, StoreStays, c
  <1> QED BY <1>1, <1>2, <1>3, <1>4, <1>5, <1>6, EditedOverlay, NoDialog DEF UiStep, Clean

LEMMA CycleUi == ASSUME IInv, NEW r, Cycle(r) PROVE UiStep
  <1>1. ui \in Overlay /\ ui.draft \in CodexConfig /\ consented \subseteq Policies /\ confirmed \subseteq Policies
    BY DEF IInv, Typed, Overlay
  <1>2. /\ r \in {"viewImage", "imageGeneration", "serviceTier", "verbosity", "transport",
                  "webSearch", "compaction"}
        /\ ui.phase = "open" /\ ui.prompt = "none" /\ ui.dialog = None
        /\ ui' = Edited(ui, CycleFocused(ui.draft, r)) /\ UNCHANGED confirmed /\ Spend("keys")
    BY DEF Cycle, Focused, Interactive
  <1>3. EnvStays
    BY <1>2, Spent DEF IInv
  <1>4. StoreStays /\ UNCHANGED <<cache, seen, tasks, overlapped, overwritten, consented>>
    BY DEF Cycle, ModelOnly, UntouchedByKeys, StoreStays
  <1> DEFINE c == CycleFocused(ui.draft, r)
  <1>5. c \in CodexConfig /\ Danger(c) = Danger(ui.draft)
    BY <1>1, <1>2, CycledDraft
  <1>6. ui' = Edited(ui, c)
    BY <1>2
  <1> HIDE DEF EnvStays, StoreStays, c
  <1> QED BY <1>1, <1>2, <1>3, <1>4, <1>5, <1>6, EditedOverlay, NoDialog DEF UiStep, Clean

LEMMA OpenPromptUi == ASSUME IInv, NEW r, OpenPrompt(r) PROVE UiStep
  <1>1. ui \in Overlay /\ ui.draft \in CodexConfig /\ consented \subseteq Policies /\ confirmed \subseteq Policies
    BY DEF IInv, Typed, Overlay
  <1>2. /\ r \in {"autoCompactTokenLimit", "providers", "export", "compactNow"}
        /\ ui.phase = "open" /\ ui.prompt = "none" /\ ui.dialog = None
        /\ ui' = [ui EXCEPT !.prompt = r] /\ UNCHANGED confirmed /\ Spend("keys")
    BY DEF OpenPrompt, Focused, Interactive
  <1>3. EnvStays
    BY <1>2, Spent DEF IInv
  <1>4. StoreStays /\ UNCHANGED <<cache, seen, tasks, overlapped, overwritten, consented>>
    BY DEF OpenPrompt, ModelOnly, UntouchedByKeys, StoreStays
  <1>5. /\ ui' \in Overlay /\ ui'.phase = ui.phase /\ ui'.saved = ui.saved
        /\ ui'.disabled = ui.disabled /\ ui'.checked = ui.checked /\ ui'.state = ui.state
        /\ ui'.draft = ui.draft /\ ui'.dialog = ui.dialog
    <2>1. /\ r \in {"none", "autoCompactTokenLimit", "providers", "export", "compactNow"}
          /\ ui' = [ui EXCEPT !.prompt = r]
      BY <1>2
    <2> QED BY <1>1, <2>1 DEF Overlay
  <1> HIDE DEF EnvStays, StoreStays
  <1> QED BY <1>1, <1>2, <1>3, <1>4, <1>5, NoDialog DEF UiStep, Clean

\* No dialog opens on a choice that lifts a restriction.
LEMMA FirstOptionIsSafe ==
    ASSUME NEW kind \in Kinds \ {"none"}
    PROVE  Options(kind)[1] \notin Policies
  <1>1. CASE kind = "dirty-close" BY <1>1 DEF Options, Policies
  <1>2. CASE kind = "reset-confirm" BY <1>2 DEF Options, Policies
  <1>3. CASE kind = "approval-never-confirm" BY <1>3 DEF Options, Policies
  <1>4. CASE kind = "filesystem-unrestricted-confirm" BY <1>4 DEF Options, Policies
  <1>5. CASE kind = "help" BY <1>5 DEF Options, Policies
  <1> QED BY <1>1, <1>2, <1>3, <1>4, <1>5 DEF Kinds

\* A dialog that opens on its first choice.
LEMMA DialogOpens ==
    ASSUME IInv, NEW kind \in Kinds \ {"none"}, ui.phase = "open", ui.prompt = "none",
           ui' = [ui EXCEPT !.dialog = Dialog(kind)], EnvStays, StoreStays,
           UNCHANGED <<cache, seen, tasks, overlapped, overwritten, consented, confirmed>>
    PROVE  UiStep
  <1>1. ui \in Overlay /\ ui.draft \in CodexConfig /\ consented \subseteq Policies /\ confirmed \subseteq Policies
    BY DEF IInv, Typed, Overlay
  <1>2. /\ Dialog(kind) \in [kind : Kinds, focus : 0..2] /\ Dialog(kind).kind = kind
        /\ Dialog(kind).focus = 0
    BY DEF Dialog
  <1>3. Selected' \notin Policies
    <2>1. ui'.dialog.kind = kind /\ ui'.dialog.focus + 1 = 1
      BY <1>1, <1>2, DialogOverlay
    <2> QED BY <2>1, FirstOptionIsSafe DEF Selected
  <1> HIDE DEF EnvStays, StoreStays, Selected
  <1> QED BY <1>1, <1>2, <1>3, DialogOverlay, NoDialog DEF UiStep, Clean

LEMMA CyclePolicyUi ==
    ASSUME IInv, NEW r, NEW safe, NEW dangerous, NEW kind, CyclePolicy(r, safe, dangerous, kind),
           \/ /\ r = "approvalPolicy" /\ safe = "on-request" /\ dangerous = "never"
              /\ kind = "approval-never-confirm"
           \/ /\ r = "filesystemAccessPolicy" /\ safe = "workspace" /\ dangerous = "unrestricted"
              /\ kind = "filesystem-unrestricted-confirm"
    PROVE  UiStep
  <1>1. ui \in Overlay /\ ui.draft \in CodexConfig /\ consented \subseteq Policies /\ confirmed \subseteq Policies
    BY DEF IInv, Typed, Overlay
  <1>2. ui.phase = "open" /\ ui.prompt = "none" /\ ui.dialog = None /\ Spend("keys")
    BY DEF CyclePolicy, Focused, Interactive
  <1>3. EnvStays
    BY <1>2, Spent DEF IInv
  <1>4. StoreStays /\ UNCHANGED <<cache, seen, tasks, overlapped, overwritten, consented>>
    BY DEF CyclePolicy, ModelOnly, UntouchedByKeys, StoreStays
  <1>5. CASE ui.draft[r] = safe
    <2>1. ui' = [ui EXCEPT !.dialog = Dialog(kind)] /\ UNCHANGED confirmed
      BY <1>5 DEF CyclePolicy, SecurityDialog
    <2>2. kind \in Kinds \ {"none"}
      BY DEF Kinds
    <2> QED BY <1>2, <1>3, <1>4, <2>1, <2>2, DialogOpens
  <1>6. CASE ui.draft[r] # safe
    <2> DEFINE c == [ui.draft EXCEPT ![r] = safe]
    <2>1. ui' = Edited(ui, c) /\ confirmed' = confirmed \ {dangerous}
      BY <1>6 DEF CyclePolicy
    <2>2. c \in CodexConfig /\ Danger(c) = Danger(ui.draft) \ {dangerous}
      <3>1. CASE r = "approvalPolicy" /\ safe = "on-request" /\ dangerous = "never"
        BY <3>1, <1>1 DEF CodexConfig, Danger
      <3>2. CASE r = "filesystemAccessPolicy" /\ safe = "workspace" /\ dangerous = "unrestricted"
        BY <3>2, <1>1 DEF CodexConfig, Danger
      <3> QED BY <3>1, <3>2
    <2> HIDE DEF c, EnvStays, StoreStays
    <2> QED BY <1>1, <1>2, <1>3, <1>4, <2>1, <2>2, EditedOverlay, NoDialog DEF UiStep, Clean
  <1> QED BY <1>5, <1>6

LEMMA OpenDialogUi == ASSUME IInv, NEW kind, OpenDialog(kind) PROVE UiStep
  <1>1. /\ kind \in Kinds \ {"none"} /\ ui.phase = "open" /\ ui.prompt = "none"
        /\ ui' = [ui EXCEPT !.dialog = Dialog(kind)] /\ Spend("keys")
    BY DEF OpenDialog, Interactive, Kinds
  <1>2. EnvStays
    BY <1>1, Spent DEF IInv
  <1>3. StoreStays /\ UNCHANGED <<cache, seen, tasks, overlapped, overwritten, consented, confirmed>>
    BY DEF OpenDialog, ModelOnly, UntouchedByKeys, StoreStays
  <1> QED BY <1>1, <1>2, <1>3, DialogOpens

\* Moving to the confirming choice is what consents to it.
LEMMA DialogMoveUi == ASSUME IInv, NEW f \in 0..2, DialogMove(f) PROVE UiStep
  <1>1. ui \in Overlay /\ ui.draft \in CodexConfig /\ consented \subseteq Policies /\ confirmed \subseteq Policies
    BY DEF IInv, Typed, Overlay
  <1>2. /\ ui.phase = "open" /\ ui.prompt = "none" /\ ui.dialog # None
        /\ ui' = [ui EXCEPT !.dialog.focus = f]
        /\ consented' = consented \cup ({Options(ui.dialog.kind)[f + 1]} \cap Policies)
        /\ UNCHANGED <<confirmed, bound>>
    BY DEF DialogMove, InDialog, Policies
  <1>3. EnvStays
    BY <1>2, EnvSame
  <1>4. StoreStays /\ UNCHANGED <<cache, seen, tasks, overlapped, overwritten>>
    BY DEF DialogMove, UntouchedByKeys, StoreStays
  <1> DEFINE d == [ui.dialog EXCEPT !.focus = f]
  <1>5. /\ d \in [kind : Kinds, focus : 0..2] /\ d.kind = ui.dialog.kind /\ d.focus = f
        /\ ui' = [ui EXCEPT !.dialog = d]
    BY <1>1, <1>2 DEF Overlay
  <1> HIDE DEF d
  <1>6. /\ ui' \in Overlay /\ ui'.phase = ui.phase /\ ui'.saved = ui.saved
        /\ ui'.disabled = ui.disabled /\ ui'.checked = ui.checked /\ ui'.state = ui.state
        /\ ui'.draft = ui.draft /\ ui'.dialog = d /\ ui'.prompt = ui.prompt
    BY <1>1, <1>5, DialogOverlay
  <1>7. Selected' = Options(ui.dialog.kind)[f + 1]
    BY <1>5, <1>6 DEF Selected
  <1>8. d.kind # "none"
    BY <1>2, <1>5 DEF IInv, OverlayFacts
  <1> HIDE DEF EnvStays, StoreStays, Selected
  <1> QED BY <1>1, <1>2, <1>3, <1>4, <1>5, <1>6, <1>7, <1>8, NoDialog DEF UiStep, Clean

LEMMA DialogCancelUi == ASSUME IInv, DialogCancel PROVE UiStep
  <1>1. ui \in Overlay /\ ui.draft \in CodexConfig /\ consented \subseteq Policies /\ confirmed \subseteq Policies
    BY DEF IInv, Typed, Overlay
  <1>2. /\ ui.phase = "open" /\ ui' = [ui EXCEPT !.dialog = None]
        /\ UNCHANGED <<confirmed, bound>>
    BY DEF DialogCancel, InDialog
  <1>3. EnvStays
    BY <1>2, EnvSame
  <1>4. StoreStays /\ UNCHANGED <<cache, seen, tasks, overlapped, overwritten, consented>>
    BY DEF DialogCancel, ModelOnly, UntouchedByKeys, StoreStays
  <1>5. /\ ui' \in Overlay /\ ui'.phase = ui.phase /\ ui'.saved = ui.saved
        /\ ui'.disabled = ui.disabled /\ ui'.checked = ui.checked /\ ui'.state = ui.state
        /\ ui'.draft = ui.draft /\ ui'.dialog = None /\ ui'.prompt = ui.prompt
    BY <1>1, <1>2, NoDialog, DialogOverlay
  <1> HIDE DEF EnvStays, StoreStays
  <1> QED BY <1>1, <1>2, <1>3, <1>4, <1>5 DEF UiStep, Clean

\* A dangerous policy enters the draft when it is the focused choice.
LEMMA ConfirmPolicyUi == ASSUME IInv, ConfirmPolicy PROVE UiStep
  <1>1. ui \in Overlay /\ ui.draft \in CodexConfig /\ consented \subseteq Policies /\ confirmed \subseteq Policies
    BY DEF IInv, Typed, Overlay
  <1> DEFINE c == [ui.draft EXCEPT ![IF Selected = "never" THEN "approvalPolicy"
                                     ELSE "filesystemAccessPolicy"] = Selected]
  <1>2. /\ ui.phase = "open" /\ ui.dialog # None /\ Selected \in Policies
        /\ ui' = [Edited(ui, c) EXCEPT !.dialog = None]
        /\ confirmed' = confirmed \cup {Selected} /\ UNCHANGED bound
    BY DEF ConfirmPolicy, InDialog, Policies
  <1>3. EnvStays
    BY <1>2, EnvSame
  <1>4. StoreStays /\ UNCHANGED <<cache, seen, tasks, overlapped, overwritten, consented>>
    BY DEF ConfirmPolicy, ModelOnly, UntouchedByKeys, StoreStays
  <1>5. Selected \in consented
    BY <1>2 DEF IInv, DangerFacts
  <1> HIDE DEF Selected
  <1>6. c \in CodexConfig /\ Danger(c) \subseteq Danger(ui.draft) \cup {Selected}
    <2>1. CASE Selected = "never"
      BY <2>1, <1>1 DEF CodexConfig, Danger
    <2>2. CASE Selected = "unrestricted"
      BY <2>2, <1>1 DEF CodexConfig, Danger
    <2> QED BY <1>2, <2>1, <2>2 DEF Policies
  <1> HIDE DEF c
  <1>7. Edited(ui, c) \in Overlay
    BY <1>1, <1>6, EditedOverlay
  <1>8. /\ ui' \in Overlay /\ ui'.phase = ui.phase /\ ui'.saved = ui.saved
        /\ ui'.disabled = ui.disabled /\ ui'.checked = ui.checked /\ ui'.state = "dirty"
        /\ ui'.draft = c /\ ui'.dialog = None
    <2> DEFINE m == Edited(ui, c)
    <2>1. /\ m \in Overlay /\ m.phase = ui.phase /\ m.saved = ui.saved /\ m.disabled = ui.disabled
          /\ m.checked = ui.checked /\ m.state = "dirty" /\ m.draft = c
      BY <1>1, <1>6, EditedOverlay
    <2>2. ui' = [m EXCEPT !.dialog = None]
      BY <1>2
    <2> HIDE DEF m
    <2> QED BY <2>1, <2>2, NoDialog, DialogOverlay
  <1> HIDE DEF EnvStays, StoreStays
  <1> QED BY <1>1, <1>2, <1>3, <1>4, <1>5, <1>6, <1>8 DEF UiStep, Clean

\* An answered prompt.
LEMMA AnsweredUi ==
    ASSUME IInv, NEW m \in Overlay, Answered(m), ui.phase = "open", ui.prompt # "none",
           m.phase = ui.phase, m.saved = ui.saved, m.disabled = ui.disabled,
           m.checked = ui.checked, m.dialog = ui.dialog,
           m.state \in Clean => m.state = ui.state /\ m.draft = ui.draft,
           Danger(m.draft) = Danger(ui.draft)
    PROVE  UiStep
  <1>1. consented \subseteq Policies /\ confirmed \subseteq Policies
    BY DEF IInv, Typed
  <1>2. /\ ui' = [m EXCEPT !.prompt = "none"] /\ UNCHANGED <<confirmed, bound>>
    BY DEF Answered
  <1>3. EnvStays
    BY <1>2, EnvSame
  <1>4. StoreStays /\ UNCHANGED <<cache, seen, tasks, overlapped, overwritten, consented>>
    BY DEF Answered, ModelOnly, UntouchedByKeys, StoreStays
  <1>5. ui.dialog = None
    BY DEF IInv, OverlayFacts
  <1>6. /\ ui' \in Overlay /\ ui'.phase = m.phase /\ ui'.saved = m.saved
        /\ ui'.disabled = m.disabled /\ ui'.checked = m.checked /\ ui'.state = m.state
        /\ ui'.draft = m.draft /\ ui'.dialog = m.dialog
    BY <1>2, PromptOverlay
  <1> HIDE DEF EnvStays, StoreStays
  <1> QED BY <1>1, <1>2, <1>3, <1>4, <1>5, <1>6 DEF UiStep, Clean

LEMMA PromptsUi ==
    ASSUME IInv, CancelPrompt \/ (\E r \in {"compactNow", "export"} : Confirm(r))
                 \/ EditAutoCompactTokenLimit \/ EditProviders
    PROVE  UiStep
  <1>1. ui \in Overlay /\ ui.draft \in CodexConfig
    BY DEF IInv, Typed, Overlay
  <1>2. ui.phase = "open" /\ ui.prompt # "none"
    BY DEF CancelPrompt, Confirm, EditAutoCompactTokenLimit, EditProviders, Prompting
  <1>3. ASSUME Answered(ui) PROVE UiStep
    BY <1>1, <1>2, <1>3, AnsweredUi
  <1>4. ASSUME Answered(MarkError(ui, TRUE, "validation-error")) PROVE UiStep
    <2> DEFINE m == MarkError(ui, TRUE, "validation-error")
    <2>1. /\ m \in Overlay /\ m.phase = ui.phase /\ m.saved = ui.saved /\ m.disabled = ui.disabled
          /\ m.checked = ui.checked /\ m.dialog = ui.dialog /\ m.state = "validation-error"
          /\ m.draft = ui.draft
      BY <1>1, ErrorOverlay
    <2>2. Answered(m) BY <1>4
    <2> HIDE DEF m
    <2> QED BY <1>2, <2>1, <2>2, AnsweredUi DEF Clean
  <1>5. ASSUME NEW c \in CodexConfig, Danger(c) = Danger(ui.draft), Answered(Edited(ui, c))
        PROVE  UiStep
    <2> DEFINE m == Edited(ui, c)
    <2>1. /\ m \in Overlay /\ m.phase = ui.phase /\ m.saved = ui.saved /\ m.disabled = ui.disabled
          /\ m.checked = ui.checked /\ m.dialog = ui.dialog /\ m.state = "dirty" /\ m.draft = c
      BY <1>1, EditedOverlay
    <2>2. Answered(m) BY <1>5
    <2> HIDE DEF m
    <2> QED BY <1>2, <1>5, <2>1, <2>2, AnsweredUi DEF Clean
  <1>6. CASE EditAutoCompactTokenLimit
    <2>1. ASSUME NEW n \in Limits \cup {ModelLimit}, Answered(SetAutoCompactTokenLimit(ui, n))
          PROVE  UiStep
      <3> DEFINE c == [ui.draft EXCEPT !.autoCompactTokenLimit = n]
      <3>1. n \in Nat
        BY InputsAssumption DEF ModelLimit
      <3>2. c \in CodexConfig /\ Danger(c) = Danger(ui.draft)
        BY <1>1, <3>1 DEF CodexConfig, Danger
      <3>3. CASE ui.draft.compaction = "auto"
        <4>1. Answered(Edited(ui, c))
          BY <3>3, <2>1 DEF SetAutoCompactTokenLimit
        <4> HIDE DEF c
        <4> QED BY <1>5, <3>2, <4>1
      <3>4. CASE ui.draft.compaction # "auto"
        BY <3>4, <2>1, <1>3 DEF SetAutoCompactTokenLimit
      <3> QED BY <3>3, <3>4
    <2> QED BY <1>6, <1>4, <2>1 DEF EditAutoCompactTokenLimit
  <1>7. CASE EditProviders
    <2>1. ASSUME NEW p \in ProviderInputs, Answered(Edited(ui, [ui.draft EXCEPT !.providers = p]))
          PROVE  UiStep
      <3> DEFINE c == [ui.draft EXCEPT !.providers = p]
      <3>1. p \in SUBSET STRING
        BY InputsAssumption
      <3>2. c \in CodexConfig /\ Danger(c) = Danger(ui.draft)
        BY <1>1, <3>1 DEF CodexConfig, Danger
      <3>3. Answered(Edited(ui, c)) BY <2>1
      <3> HIDE DEF c
      <3> QED BY <1>5, <3>2, <3>3
    <2> QED BY <1>7, <1>4, <2>1 DEF EditProviders
  <1>8. CASE CancelPrompt \/ (\E r \in {"compactNow", "export"} : Confirm(r))
    BY <1>8, <1>3 DEF CancelPrompt, Confirm
  <1> QED BY <1>6, <1>7, <1>8

-----------------------------------------------------------------------------
(* Closing: the overlay is disposed and its tasks are detached.            *)

Detached(k) == [k EXCEPT !.live = FALSE]

LEMMA DetachedTask ==
    ASSUME NEW k \in TaskRecord
    PROVE  /\ Detached(k) \in TaskRecord /\ Detached(k).op = k.op /\ Detached(k).step = k.step
           /\ Detached(k).by = k.by /\ Detached(k).config = k.config /\ Detached(k).read = k.read
           /\ Detached(k).base = k.base /\ Detached(k).live = FALSE
           /\ (k = Idle => Detached(k) = Idle)
  <1>1. ASSUME k = Idle PROVE Detached(k) = Idle
    <2>1. k.live = FALSE
      BY <1>1, IdleTask
    <2>2. [k EXCEPT !.live = FALSE] = k
      BY <2>1 DEF TaskRecord
    <2> QED BY <1>1, <2>2 DEF Detached
  <1> QED BY <1>1 DEF Detached, TaskRecord

LEMMA DetachedFact ==
    ASSUME NEW k \in TaskRecord, NEW f, NEW keys, NEW policies, NEW e,
           TaskFact(k, f, keys, policies, e)
    PROVE  TaskFact(Detached(k), f, keys, policies, e)
  <1> DEFINE j == Detached(k)
  <1>1. /\ j.op = k.op /\ j.step = k.step /\ j.by = k.by /\ j.config = k.config
        /\ j.read = k.read /\ j.base = k.base /\ ~j.live /\ (k = Idle => j = Idle)
    BY DetachedTask
  <1>2. TaskShape(k)
    BY DEF TaskFact
  <1> HIDE DEF j
  <1>3. TaskShape(j)
    BY <1>1, <1>2, IdleTask DEF TaskShape
  <1>4. TaskFact(j, f, keys, policies, e)
    BY <1>1, <1>3 DEF TaskFact
  <1> QED BY <1>4 DEF j

LEMMA DetachedSolo ==
    ASSUME NEW k \in TaskRecord, NEW f, NEW b, NEW p, NEW w, NEW phase, NEW after,
           SoloTask(k, f, b, p, w, phase), after # "open"
    PROVE  SoloTask(Detached(k), f, b, p, w, after)
  <1> DEFINE j == Detached(k)
  <1>1. /\ j.op = k.op /\ j.step = k.step /\ j.by = k.by /\ j.config = k.config
        /\ j.read = k.read
    BY DetachedTask
  <1> HIDE DEF j
  <1>2. SoloTask(j, f, b, p, w, after)
    BY <1>1 DEF SoloTask
  <1> QED BY <1>2 DEF j

CloseStep ==
    /\ ui.phase = "open" /\ ui' \in Overlay /\ ui'.phase = "disposed" /\ ui'.dialog = None
    /\ tasks' = Detach(tasks) /\ confirmed' \subseteq Policies
    /\ EnvStays /\ StoreStays /\ UNCHANGED <<cache, seen, overlapped, overwritten, consented>>

LEMMA CloseStepKeeps == IInv /\ CloseStep => IInv'
  <1> SUFFICES ASSUME IInv, CloseStep PROVE IInv'
    OBVIOUS
  <1>1. \A t \in TaskIds : tasks[t] \in TaskRecord /\ tasks'[t] = Detached(tasks[t])
    BY DEF IInv, Typed, CloseStep, Detach, Detached
  <1>2. \A t \in TaskIds : /\ tasks'[t] \in TaskRecord /\ tasks'[t].step = tasks[t].step
                           /\ tasks'[t].by = tasks[t].by /\ ~tasks'[t].live
                           /\ (tasks[t] = Idle => tasks'[t] = Idle)
    <2>1. SUFFICES ASSUME NEW t \in TaskIds
                   PROVE  /\ tasks'[t] \in TaskRecord /\ tasks'[t].step = tasks[t].step
                          /\ tasks'[t].by = tasks[t].by /\ ~tasks'[t].live
                          /\ (tasks[t] = Idle => tasks'[t] = Idle)
      OBVIOUS
    <2>2. tasks[t] \in TaskRecord /\ tasks'[t] = Detached(tasks[t])
      BY <1>1
    <2> QED BY <2>2, DetachedTask
  <1>3. Typed'
    <2>1. tasks' \in [TaskIds -> TaskRecord]
      <3>1. tasks' = [t \in TaskIds |-> tasks'[t]]
        BY DEF CloseStep, Detach
      <3> QED BY <3>1, <1>2
    <2> QED BY <2>1 DEF IInv, Typed, CloseStep, EnvStays, StoreStays
  <1>4. CacheFiled'
    BY DEF IInv, CacheFiled, CloseStep
  <1>5. TaskFacts'
    <2>1. ASSUME NEW t \in TaskIds
          PROVE  TaskFact(tasks'[t], file', DOMAIN cache', consented', Env')
      <3>1. TaskFact(tasks[t], file, DOMAIN cache, consented, Env) /\ tasks[t] \in TaskRecord
        BY <1>1 DEF IInv, TaskFacts
      <3>2. UNCHANGED <<file, cache, consented, Env>>
        BY DEF CloseStep, EnvStays, StoreStays
      <3> HIDE DEF Env
      <3> QED BY <1>1, <3>1, <3>2, DetachedFact
    <2> QED BY <2>1 DEF TaskFacts
  <1>6. FileFacts'
    BY <1>2 DEF IInv, FileFacts, CloseStep, StoreStays, At
  <1>7. OverlayFacts' /\ RefusalFacts'
    BY <1>2, NoDialog DEF OverlayFacts, RefusalFacts, CloseStep
  <1>8. DangerFacts'
    BY DEF IInv, DangerFacts, CloseStep, StoreStays
  <1>9. SoloFacts'
    <2>1. SUFFICES ASSUME ~overlapped
                   PROVE  Alone' /\ SoloTasks' /\ BackupFacts' /\ ShownFacts' /\ ToldFacts'
      BY DEF SoloFacts, CloseStep
    <2>2. Alone /\ SoloTasks /\ BackupFacts /\ ToldFacts
      BY <2>1 DEF IInv, SoloFacts
    <2>3. Alone'
      BY <1>2, <2>2 DEF Alone
    <2>4. SoloTasks'
      <3>1. ASSUME NEW t \in TaskIds
            PROVE  SoloTask(tasks'[t], file', backup', prev', writer', ui'.phase)
        <4>1. SoloTask(tasks[t], file, backup, prev, writer, ui.phase) /\ tasks[t] \in TaskRecord
          BY <1>1, <2>2 DEF SoloTasks
        <4>2. UNCHANGED <<file, backup, prev, writer>> /\ ui'.phase # "open"
          BY DEF CloseStep, StoreStays
        <4> QED BY <1>1, <4>1, <4>2, DetachedSolo
      <3> QED BY <3>1 DEF SoloTasks
    <2>5. BackupFacts' /\ ShownFacts' /\ ToldFacts'
      BY <1>2, <2>2 DEF BackupFacts, ShownFacts, ToldFacts, CloseStep, StoreStays, At
    <2> QED BY <2>3, <2>4, <2>5
  <1>10. LoadFacts'
    <2>1. ASSUME NEW t \in TaskIds PROVE tasks'[t].op = tasks[t].op /\ tasks'[t].by = tasks[t].by
      <3>1. tasks[t] \in TaskRecord /\ tasks'[t] = Detached(tasks[t])
        BY <1>1
      <3> QED BY <3>1, DetachedTask
    <2> QED BY <2>1 DEF IInv, LoadFacts, SelfLoad, CloseStep
  <1> QED BY <1>3, <1>4, <1>5, <1>6, <1>7, <1>8, <1>9, <1>10 DEF IInv

LEMMA DisposedOverlay ==
    ASSUME NEW m \in Overlay
    PROVE  LET n == Dispose(m)
           IN  n \in Overlay /\ n.phase = "disposed" /\ n.dialog = None /\ n.prompt = "none"
  BY NoDialog DEF Dispose, Overlay
LEMMA DiscardedOverlay == ASSUME NEW m \in Overlay PROVE Discard(m) \in Overlay
  <1>1. m.saved \in CodexConfig
    BY DEF Overlay, Configs
  <1> QED BY <1>1, NoDialog DEF Discard, Overlay

LEMMA ClosesKeep ==
    ASSUME IInv, PiDisposes \/ DiscardAndClose \/ (Interactive /\ Close /\ UNCHANGED bound)
    PROVE  CloseStep
  <1>1. ui \in Overlay /\ confirmed \subseteq Policies
    BY DEF IInv, Typed
  <1>2. CASE PiDisposes \/ (Interactive /\ Close /\ UNCHANGED bound)
    <2>1. EnvStays
      BY <1>2, Spent, EnvSame DEF PiDisposes, IInv
    <2>2. ui.phase = "open" /\ Close
      BY <1>2 DEF PiDisposes, Interactive
    <2>3. /\ ui' = Dispose(ui) /\ tasks' = Detach(tasks) /\ StoreStays
          /\ UNCHANGED <<cache, seen, overlapped, overwritten, consented, confirmed>>
      BY <2>2 DEF Close, UntouchedByKeys, StoreStays
    <2> HIDE DEF EnvStays, StoreStays
    <2> QED BY <1>1, <2>1, <2>2, <2>3, DisposedOverlay DEF CloseStep
  <1>3. CASE DiscardAndClose
    <2>1. EnvStays
      BY <1>3, EnvSame DEF DiscardAndClose
    <2>2. ui.phase = "open"
      BY <1>3 DEF DiscardAndClose, InDialog
    <2>3. /\ ui' = Dispose(Discard(ui)) /\ tasks' = Detach(tasks) /\ StoreStays
          /\ UNCHANGED <<cache, seen, overlapped, overwritten, consented>>
          /\ confirmed' = Danger(ui.saved)
      BY <1>3 DEF DiscardAndClose, UntouchedByKeys, StoreStays
    <2>4. Discard(ui) \in Overlay
      BY <1>1, DiscardedOverlay
    <2> HIDE DEF EnvStays, StoreStays
    <2> QED BY <2>1, <2>2, <2>3, <2>4, DisposedOverlay, DangerBounded DEF CloseStep
  <1> QED BY <1>2, <1>3

\* Every key and every answer to a prompt keeps the invariant.
LEMMA UserKeysKeep == IInv /\ UserKeys => IInv'
  <1> SUFFICES ASSUME IInv, UserKeys PROVE UiStep \/ CloseStep
    BY UiStepKeeps, CloseStepKeeps
  <1>1. CASE \E r \in bound.rows : Toggle(r) \/ Cycle(r) \/ OpenPrompt(r)
    BY <1>1, ToggleUi, CycleUi, OpenPromptUi
  <1>2. CASE CyclePolicy("approvalPolicy", "on-request", "never", "approval-never-confirm")
    BY <1>2, CyclePolicyUi
  <1>3. CASE CyclePolicy("filesystemAccessPolicy", "workspace", "unrestricted",
                         "filesystem-unrestricted-confirm")
    BY <1>3, CyclePolicyUi
  <1>4. CASE \E kind \in {"help", "reset-confirm"} : OpenDialog(kind)
    BY <1>4, OpenDialogUi
  <1>5. CASE \E f \in 0..2 : DialogMove(f)
    BY <1>5, DialogMoveUi
  <1>6. CASE Escape
    <2>1. CASE Interactive /\ Close /\ UNCHANGED bound
      BY <2>1, ClosesKeep
    <2>2. CASE /\ Interactive /\ ui' = [ui EXCEPT !.dialog = Dialog("dirty-close")]
               /\ UNCHANGED <<confirmed, bound>> /\ ModelOnly
      <3>1. EnvStays BY <2>2, EnvSame
      <3>2. StoreStays /\ UNCHANGED <<cache, seen, tasks, overlapped, overwritten, consented, confirmed>>
        BY <2>2 DEF ModelOnly, UntouchedByKeys, StoreStays
      <3>3. ui.phase = "open" /\ ui.prompt = "none" /\ "dirty-close" \in Kinds \ {"none"}
        BY <2>2 DEF Interactive, Kinds
      <3> QED BY <2>2, <3>1, <3>2, <3>3, DialogOpens
    <2> QED BY <1>6, <2>1, <2>2 DEF Escape
  <1>7. CASE DialogCancel BY <1>7, DialogCancelUi
  <1>8. CASE DiscardAndClose BY <1>8, ClosesKeep
  <1>9. CASE ConfirmPolicy BY <1>9, ConfirmPolicyUi
  <1>10. CASE CancelPrompt \/ (\E r \in {"compactNow", "export"} : Confirm(r))
              \/ EditAutoCompactTokenLimit \/ EditProviders
    BY <1>10, PromptsUi
  <1> QED BY <1>1, <1>2, <1>3, <1>4, <1>5, <1>6, <1>7, <1>8, <1>9, <1>10 DEF UserKeys

-----------------------------------------------------------------------------
(* Tasks begin.                                                            *)

LEMMA RequestFiles ==
    ASSUME CacheFiled, NEW c \in Configs, Request(c)
    PROVE  /\ CacheFiled' /\ DOMAIN cache \subseteq DOMAIN cache'
           /\ CapabilityCacheKey(c) \in DOMAIN cache'
  <1> DEFINE k == CapabilityCacheKey(c)
  <1>1. cache' = [l \in DOMAIN cache \cup {k} |->
                    IF l \in DOMAIN cache THEN cache[l] ELSE [ready |-> FALSE, config |-> c]]
    BY DEF Request
  <1>2. k = CapabilityCacheKey(c)
    OBVIOUS
  <1> HIDE DEF k
  <1>3. DOMAIN cache' = DOMAIN cache \cup {k}
    BY <1>1
  <1>4. ASSUME NEW l \in DOMAIN cache'
        PROVE  /\ cache'[l] \in [ready : BOOLEAN, config : Configs]
               /\ CapabilityCacheKey(cache'[l].config) = l
    <2>1. CASE l \in DOMAIN cache
      <3>1. cache'[l] = cache[l]
        BY <1>1, <2>1
      <3> QED BY <2>1, <3>1 DEF CacheFiled
    <2>2. CASE l \notin DOMAIN cache
      <3>1. l = k /\ cache'[l] = [ready |-> FALSE, config |-> c]
        BY <1>1, <1>3, <2>2
      <3> QED BY <3>1, <1>2
    <2> QED BY <2>1, <2>2
  <1>5. cache' \in [DOMAIN cache' -> [ready : BOOLEAN, config : Configs]]
    BY <1>1, <1>3, <1>4
  <1> QED BY <1>2, <1>3, <1>4, <1>5 DEF CacheFiled

\* How the overlay may change when a task k begins.
OverlayKeeps(k) ==
    /\ ui' \in Overlay
    /\ ui'.phase = "open" =>
          /\ ui.phase = "open" /\ ui'.saved = ui.saved /\ ui'.draft = ui.draft
          /\ ui'.disabled = ui.disabled /\ ui'.checked = ui.checked
          /\ ui'.state \in Clean => ui'.state = ui.state
    /\ ui'.phase # "open" => ui.phase # "open" /\ (k.op \in Writes => ~k.live)
    /\ ui.phase = "opening" => ui'.phase = "opening" /\ ~SelfLoad(k)
    /\ SelfLoad(k) => ui'.phase = "opening"
    /\ ui'.dialog = None \/ (ui'.dialog = ui.dialog /\ ui'.phase = ui.phase /\ ui'.prompt = ui.prompt)

BeginStep(t, k) ==
    /\ Begin(t, k) /\ k \in TaskRecord /\ k.step \notin {"fill", "written"}
    /\ TaskFact(k, file, DOMAIN cache', consented', Env)
    /\ Running = {} => SoloTask(k, file, backup, prev, writer, ui'.phase)
    /\ StoreStays /\ EnvStays /\ CacheFiled' /\ DOMAIN cache \subseteq DOMAIN cache'
    /\ consented \subseteq consented' /\ consented' \subseteq Policies
    /\ UNCHANGED <<confirmed, overwritten, seen>>
    /\ OverlayKeeps(k)

LEMMA BeginStepKeeps == ASSUME IInv, NEW t \in TaskIds, NEW k, BeginStep(t, k) PROVE IInv'
  <1>1. tasks[t] = Idle /\ tasks' = [tasks EXCEPT ![t] = k] /\ k \in TaskRecord
    BY DEF BeginStep, Begin
  <1>2. /\ tasks'[t] = k /\ \A u \in TaskIds : u # t => tasks'[u] = tasks[u]
    BY <1>1 DEF IInv, Typed
  <1>3. Typed'
    BY <1>1 DEF IInv, Typed, BeginStep, Begin, StoreStays, EnvStays, OverlayKeeps
  <1>4. TaskFacts'
    <2>1. /\ Typed /\ TaskFacts /\ file' = file /\ DOMAIN cache \subseteq DOMAIN cache'
          /\ consented \subseteq consented' /\ Env' = Env
          /\ TaskFact(k, file', DOMAIN cache', consented', Env)
      BY DEF IInv, BeginStep, StoreStays, EnvStays
    <2> HIDE DEF Env
    <2> QED BY <1>1, <2>1, TaskFactsMove
  <1>5. FileFacts'
    <2>1. \A u \in TaskIds : tasks[u].step = "fill" => tasks'[u].step = "fill"
      BY <1>1, <1>2, IdleTask
    <2> QED BY <2>1 DEF IInv, FileFacts, BeginStep, StoreStays, OverlayKeeps, At
  <1>6. OverlayFacts'
    <2>1. ui'.dialog # None => ui'.phase = "open" /\ ui'.prompt = "none"
      BY DEF IInv, OverlayFacts, BeginStep, OverlayKeeps
    <2>2. ui'.dialog.kind = "none" => ui'.dialog = None
      BY DEF IInv, OverlayFacts, BeginStep, OverlayKeeps
    <2>3. ui'.phase # "open" => \A u \in TaskIds : tasks'[u].op \in Writes => ~tasks'[u].live
      BY <1>2 DEF IInv, OverlayFacts, BeginStep, OverlayKeeps
    <2>4. ui'.phase = "open" /\ ui'.state \in Clean => ui'.draft = ui'.saved
      BY DEF IInv, OverlayFacts, BeginStep, OverlayKeeps
    <2> QED BY <2>1, <2>2, <2>3, <2>4 DEF OverlayFacts
  <1>7. RefusalFacts'
    <2>1. Env' = Env BY DEF BeginStep, EnvStays
    <2> HIDE DEF Env
    <2> QED BY <2>1 DEF IInv, RefusalFacts, BeginStep, OverlayKeeps
  <1>8. DangerFacts'
    <2>1. ui'.dialog # None => Selected' = Selected /\ ui.dialog # None
      BY DEF Selected, BeginStep, OverlayKeeps
    <2> HIDE DEF Selected
    <2> QED BY <2>1 DEF IInv, DangerFacts, BeginStep, OverlayKeeps, StoreStays
  <1>9. SoloFacts'
    <2>1. SUFFICES ASSUME ~overlapped'
                   PROVE  Alone' /\ SoloTasks' /\ BackupFacts' /\ ShownFacts' /\ ToldFacts'
      BY DEF SoloFacts
    <2>2. ~overlapped /\ Running = {}
      BY <2>1 DEF BeginStep, Begin, IInv, Typed
    <2>3. Alone /\ SoloTasks /\ BackupFacts /\ ShownFacts /\ ToldFacts
      BY <2>2 DEF IInv, SoloFacts
    <2>4. \A u \in TaskIds : tasks[u] = Idle
      BY <2>2 DEF Running
    <2>5. UNCHANGED <<file, backup, prev, writer, told, seen>>
      BY DEF BeginStep, StoreStays
    <2>6. SoloTask(k, file', backup', prev', writer', ui'.phase)
      BY <2>2, <2>5 DEF BeginStep
    <2>7. Alone' /\ SoloTasks'
      BY <1>1, <2>3, <2>4, <2>6, SoloMove DEF IInv
    <2>8. \A u \in TaskIds : tasks[u].step # "written"
      BY <2>4, IdleTask
    <2>9. BackupFacts' /\ ToldFacts'
      BY <2>3, <2>5, <2>8 DEF BackupFacts, ToldFacts, At
    <2>10. ShownFacts'
      BY <2>3, <2>5, <2>8 DEF ShownFacts, At, BeginStep, OverlayKeeps
    <2> QED BY <2>7, <2>9, <2>10
  <1>10. CacheFiled'
    BY DEF BeginStep
  <1>11. LoadFacts'
    BY <1>1, <1>2, IdleTask DEF IInv, LoadFacts, SelfLoad, BeginStep, OverlayKeeps
  <1> QED BY <1>3, <1>4, <1>5, <1>6, <1>7, <1>8, <1>9, <1>10, <1>11 DEF IInv

\* What holds of a task that has just begun.
LEMMA NewTaskFact ==
    ASSUME NEW op, NEW step, NEW by \in {"self", "other"}, NEW c \in Configs, NEW d \in CodexConfig,
           NEW f, NEW keys, NEW policies, NEW e, Danger(c) \subseteq policies,
           \/ op = "load" /\ step = "load"
           \/ op \in Saves /\ step = "resolving" /\ by = "self" /\ c = d
           \/ op = "reset" /\ step = "current" /\ by = "self" /\ c = CreateDefaultConfig
           \/ op = "restore" /\ step = "restore" /\ by = "self"
           \/ op = "save" /\ step = "current" /\ by = "other" /\ c = d,
           step = "resolving" /\ e.selected => CapabilityCacheKey(c) \in keys
    PROVE  /\ Task(op, step, by, c, d) \in TaskRecord
           /\ TaskFact(Task(op, step, by, c, d), f, keys, policies, e)
           /\ \A b, p, w, phase :
                 (op \in {"load", "restore"} /\ by = "self" => phase # "open") =>
                 SoloTask(Task(op, step, by, c, d), f, b, p, w, phase)
  <1> DEFINE k == Task(op, step, by, c, d)
  <1>1. /\ k.op = op /\ k.step = step /\ k.by = by /\ k.config = c /\ k.read = Absent
        /\ k.live = (by = "self") /\ k.base = d
    BY NewTask
  <1>2. k \in TaskRecord
    <2>1. /\ op \in {"none", "load", "restore"} \cup Writes
          /\ step \in {"idle", "load", "resolving", "current", "restore"}
      BY DEF Writes, Saves
    <2> QED BY <2>1, NewTaskTyped
  <1> HIDE DEF k
  <1>3. TaskShape(k)
    BY <1>1, PlainContents, IdleTask DEF TaskShape, Saves
  <1>4. Danger(k.read.config) = {}
    BY <1>1, PlainContents, DefaultIsValid
  <1>5. TaskFact(k, f, keys, policies, e)
    BY <1>1, <1>3, <1>4 DEF TaskFact, Saves
  <1>6. ASSUME NEW b, NEW p, NEW w, NEW phase,
               op \in {"load", "restore"} /\ by = "self" => phase # "open"
        PROVE  SoloTask(k, f, b, p, w, phase)
    BY <1>1, <1>6 DEF SoloTask, Writes, Saves
  <1> QED BY <1>2, <1>5, <1>6 DEF k

\* A step in which no key of the cache and no overlay changes.
LEMMA BeginAlone ==
    ASSUME IInv, NEW k, UNCHANGED <<ui, cache>>, k.op \in Writes => ~k.live, ~SelfLoad(k)
    PROVE  OverlayKeeps(k) /\ CacheFiled' /\ DOMAIN cache \subseteq DOMAIN cache'
  <1>1. CacheFiled'
    BY DEF IInv, CacheFiled
  <1>2. OverlayKeeps(k)
    BY DEF IInv, Typed, OverlayKeeps
  <1> QED BY <1>1, <1>2

LEMMA OpenSettingsBegins ==
    ASSUME IInv, NEW t \in TaskIds, OpenSettings(t) PROVE \E k : BeginStep(t, k)
  <1> DEFINE c == CreateDefaultConfig
             k == Task("load", "load", "self", c, c)
  <1>1. c \in Configs /\ c \in CodexConfig /\ Danger(c) \subseteq consented
    BY DefaultIsValid DEF Configs
  <1>2. /\ Begin(t, k) /\ StoreStays /\ Spend("keys") /\ ui' = [Closed EXCEPT !.phase = "opening"]
        /\ UNCHANGED <<cache, confirmed, consented, overwritten, seen>>
        /\ ui.phase \in {"closed", "disposed"}
    BY DEF OpenSettings, StoreStays
  <1>3. EnvStays
    BY <1>2, Spent DEF IInv
  <1>4. ui' \in Overlay /\ ui'.phase = "opening" /\ ui'.dialog = None
    BY <1>2, ClosedOverlay DEF Overlay
  <1>5. /\ k \in TaskRecord /\ TaskFact(k, file, DOMAIN cache', consented', Env)
        /\ SoloTask(k, file, backup, prev, writer, ui'.phase)
    BY <1>1, <1>2, <1>4, NewTaskFact
  <1>6. k.op = "load" /\ k.step = "load" /\ k.by = "self"
    BY NewTask
  <1>7. CacheFiled' /\ DOMAIN cache \subseteq DOMAIN cache'
    BY <1>2 DEF IInv, CacheFiled
  <1>8. consented \subseteq Policies
    BY DEF IInv, Typed
  <1> HIDE DEF k, EnvStays, StoreStays
  <1>9. OverlayKeeps(k)
    BY <1>2, <1>4, <1>6 DEF OverlayKeeps, Writes, SelfLoad
  <1>10. BeginStep(t, k)
    BY <1>2, <1>3, <1>5, <1>6, <1>7, <1>8, <1>9 DEF BeginStep
  <1> QED BY <1>10

LEMMA BeginSaveKeeps ==
    ASSUME IInv, NEW t \in TaskIds, NEW op \in Saves, BeginSave(t, op), EnvStays,
           ui.phase = "open", ui.prompt = "none"
    PROVE  IInv'
  <1>1. ui \in Overlay /\ ui.draft \in CodexConfig /\ consented \subseteq Policies /\ confirmed \subseteq Policies
    BY DEF IInv, Typed, Overlay
  <1>2. StoreStays /\ UNCHANGED <<confirmed, consented, overwritten, seen>>
    BY DEF BeginSave, StoreStays
  <1>3. CASE ~ParseConfig(ui.draft)
    <2> DEFINE m == MarkError(ui, TRUE, "validation-error")
    <2>1. /\ m \in Overlay /\ m.phase = ui.phase /\ m.saved = ui.saved /\ m.disabled = ui.disabled
          /\ m.checked = ui.checked /\ m.state = "validation-error" /\ m.draft = ui.draft
      BY <1>1, ErrorOverlay
    <2>2. ui' = [m EXCEPT !.dialog = None] /\ UNCHANGED <<cache, tasks, overlapped>>
      BY <1>3 DEF BeginSave
    <2> HIDE DEF m
    <2>3. /\ ui' \in Overlay /\ ui'.phase = m.phase /\ ui'.saved = m.saved
          /\ ui'.disabled = m.disabled /\ ui'.checked = m.checked /\ ui'.state = m.state
          /\ ui'.draft = m.draft /\ ui'.dialog = None
      BY <2>1, <2>2, NoDialog, DialogOverlay
    <2> HIDE DEF EnvStays, StoreStays
    <2>4. UiStep
      BY <1>1, <1>2, <2>1, <2>2, <2>3 DEF UiStep, Clean
    <2> QED BY <2>4, UiStepKeeps
  <1>4. CASE ParseConfig(ui.draft)
    <2> DEFINE c == ui.draft
               k == Task(op, "resolving", "self", c, c)
    <2>1. /\ ui' = [ui EXCEPT !.state = "saving", !.dialog = None] /\ Begin(t, k)
          /\ IF Env.selected THEN Request(c) ELSE UNCHANGED cache
      BY <1>4 DEF BeginSave
    <2>2. c \in Configs
      BY <1>1, <1>4 DEF Configs
    <2>3. /\ CacheFiled' /\ DOMAIN cache \subseteq DOMAIN cache'
          /\ Env.selected => CapabilityCacheKey(c) \in DOMAIN cache'
      <3>1. CacheFiled BY DEF IInv
      <3>2. CASE Env.selected
        BY <2>1, <2>2, <3>1, <3>2, RequestFiles
      <3>3. CASE ~Env.selected
        BY <2>1, <3>1, <3>3 DEF CacheFiled
      <3> QED BY <3>2, <3>3
    <2>4. /\ ui' \in Overlay /\ ui'.phase = ui.phase /\ ui'.saved = ui.saved
          /\ ui'.disabled = ui.disabled /\ ui'.checked = ui.checked /\ ui'.state = "saving"
          /\ ui'.draft = ui.draft /\ ui'.dialog = None /\ ui'.prompt = ui.prompt
      BY <1>1, <2>1, NoDialog DEF Overlay
    <2>5. Danger(c) \subseteq consented'
      BY <1>2 DEF IInv, DangerFacts
    <2>6. /\ k \in TaskRecord /\ TaskFact(k, file, DOMAIN cache', consented', Env)
          /\ SoloTask(k, file, backup, prev, writer, ui'.phase)
      <3>1. c \in CodexConfig /\ op \notin {"load", "restore"} BY <1>1 DEF Saves
      <3> HIDE DEF Env
      <3> QED BY <2>2, <2>3, <2>5, <3>1, NewTaskFact
    <2>7. k.step = "resolving" /\ ~SelfLoad(k)
      BY NewTask DEF SelfLoad, Saves
    <2> HIDE DEF k, c, EnvStays, StoreStays
    <2>8. OverlayKeeps(k)
      BY <2>4, <2>7, <1>1 DEF OverlayKeeps, Clean
    <2>9. BeginStep(t, k)
      BY <1>1, <1>2, <2>1, <2>3, <2>6, <2>7, <2>8 DEF BeginStep
    <2> QED BY <2>9, BeginStepKeeps
  <1> QED BY <1>3, <1>4

LEMMA ConfirmResetBegins ==
    ASSUME IInv, NEW t \in TaskIds, ConfirmReset(t) PROVE \E k : BeginStep(t, k)
  <1> DEFINE k == Task("reset", "current", "self", CreateDefaultConfig, ui.draft)
  <1>1. ui \in Overlay /\ ui.draft \in CodexConfig /\ consented \subseteq Policies
    BY DEF IInv, Typed, Overlay
  <1>2. /\ Begin(t, k) /\ StoreStays /\ ui' = [ui EXCEPT !.dialog = None] /\ ui.phase = "open"
        /\ UNCHANGED <<cache, confirmed, consented, overwritten, seen, bound>>
    BY DEF ConfirmReset, StoreStays, InDialog
  <1>3. EnvStays
    BY <1>2, EnvSame
  <1>4. /\ ui' \in Overlay /\ ui'.phase = ui.phase /\ ui'.saved = ui.saved
        /\ ui'.disabled = ui.disabled /\ ui'.checked = ui.checked /\ ui'.state = ui.state
        /\ ui'.draft = ui.draft /\ ui'.dialog = None
    BY <1>1, <1>2, NoDialog, DialogOverlay
  <1>5. /\ k \in TaskRecord /\ TaskFact(k, file, DOMAIN cache', consented', Env)
        /\ SoloTask(k, file, backup, prev, writer, ui'.phase)
    BY <1>1, DefaultIsValid, NewTaskFact
  <1>6. k.step = "current" /\ ~SelfLoad(k)
    BY NewTask DEF SelfLoad
  <1>7. CacheFiled' /\ DOMAIN cache \subseteq DOMAIN cache'
    BY <1>2 DEF IInv, CacheFiled
  <1> HIDE DEF k, EnvStays, StoreStays
  <1>8. OverlayKeeps(k)
    BY <1>2, <1>4, <1>6 DEF OverlayKeeps
  <1>9. BeginStep(t, k)
    BY <1>1, <1>2, <1>3, <1>5, <1>6, <1>7, <1>8 DEF BeginStep
  <1> QED BY <1>9

\* A restore is offered only while the file is invalid, so the overlay is not open.
LEMMA RestoreBegins ==
    ASSUME IInv, NEW t \in TaskIds, Restore(t) PROVE \E k : BeginStep(t, k)
  <1> DEFINE k == Task("restore", "restore", "self", CreateDefaultConfig, CreateDefaultConfig)
  <1>1. /\ Begin(t, k) /\ StoreStays /\ Spend("keys") /\ ~Whole(file)
        /\ UNCHANGED <<ui, cache, confirmed, consented, overwritten, seen>>
    BY DEF Restore, StoreStays, uiVars
  <1>2. EnvStays
    BY <1>1, Spent DEF IInv
  <1>3. ui'.phase # "open"
    BY <1>1 DEF IInv, FileFacts
  <1>4. /\ k \in TaskRecord /\ TaskFact(k, file, DOMAIN cache', consented', Env)
        /\ SoloTask(k, file, backup, prev, writer, ui'.phase)
    <2>1. CreateDefaultConfig \in CodexConfig BY DefaultIsValid DEF Configs
    <2> QED BY <1>3, <2>1, DefaultIsValid, NewTaskFact
  <1>5. k.step = "restore" /\ k.op = "restore"
    BY NewTask
  <1>6. consented \subseteq Policies
    BY DEF IInv, Typed
  <1> HIDE DEF k, EnvStays, StoreStays
  <1>7. OverlayKeeps(k) /\ CacheFiled' /\ DOMAIN cache \subseteq DOMAIN cache'
    BY <1>1, <1>5, BeginAlone DEF Writes, SelfLoad
  <1>8. BeginStep(t, k)
    BY <1>1, <1>2, <1>4, <1>5, <1>6, <1>7 DEF BeginStep
  <1> QED BY <1>8

LEMMA OtherBeginsBegins ==
    ASSUME IInv, NEW t \in TaskIds, OtherBegins(t) PROVE \E k : BeginStep(t, k)
  <1>1. /\ StoreStays /\ Spend("others") /\ UNCHANGED <<ui, cache, confirmed, overwritten, seen>>
    BY DEF OtherBegins, StoreStays
  <1>2. EnvStays
    BY <1>1, Spent DEF IInv
  <1>3. consented \subseteq Policies
    BY DEF IInv, Typed
  <1>4. ASSUME NEW c \in OtherConfigs, Begin(t, Task("save", "current", "other", c, c)),
               consented' = consented \cup Danger(c)
        PROVE  \E k : BeginStep(t, k)
    <2> DEFINE k == Task("save", "current", "other", c, c)
    <2>1. c \in Configs /\ c \in CodexConfig
      BY InputsAssumption DEF Configs
    <2>2. /\ k \in TaskRecord /\ TaskFact(k, file, DOMAIN cache', consented', Env)
          /\ SoloTask(k, file, backup, prev, writer, ui'.phase)
      <3>1. Danger(c) \subseteq consented' BY <1>4
      <3> QED BY <2>1, <3>1, NewTaskFact
    <2>3. k.step = "current" /\ k.live = FALSE /\ ~SelfLoad(k)
      <3>1. k.step = "current" /\ k.op = "save" /\ k.live = ("other" = "self") BY NewTask
      <3> QED BY <3>1 DEF SelfLoad
    <2>4. consented \subseteq consented' /\ consented' \subseteq Policies
      BY <1>3, <1>4, DangerBounded
    <2>5. Begin(t, k) BY <1>4
    <2> HIDE DEF k, EnvStays, StoreStays
    <2>6. OverlayKeeps(k) /\ CacheFiled' /\ DOMAIN cache \subseteq DOMAIN cache'
      BY <1>1, <2>3, BeginAlone
    <2>7. BeginStep(t, k)
      BY <1>1, <1>2, <2>2, <2>3, <2>4, <2>5, <2>6 DEF BeginStep
    <2> QED BY <2>7
  <1>5. ASSUME Begin(t, Task("load", "load", "other", CreateDefaultConfig, CreateDefaultConfig)),
               UNCHANGED consented
        PROVE  \E k : BeginStep(t, k)
    <2> DEFINE k == Task("load", "load", "other", CreateDefaultConfig, CreateDefaultConfig)
    <2>1. CreateDefaultConfig \in Configs /\ CreateDefaultConfig \in CodexConfig
      BY DefaultIsValid DEF Configs
    <2>2. /\ k \in TaskRecord /\ TaskFact(k, file, DOMAIN cache', consented', Env)
          /\ SoloTask(k, file, backup, prev, writer, ui'.phase)
      BY <2>1, DefaultIsValid, NewTaskFact
    <2>3. k.step = "load" /\ k.op = "load" /\ ~SelfLoad(k)
      BY NewTask DEF SelfLoad
    <2>4. Begin(t, k) BY <1>5
    <2> HIDE DEF k, EnvStays, StoreStays
    <2>5. OverlayKeeps(k) /\ CacheFiled' /\ DOMAIN cache \subseteq DOMAIN cache'
      BY <1>1, <2>3, BeginAlone DEF Writes
    <2>6. BeginStep(t, k)
      BY <1>1, <1>2, <1>3, <1>5, <2>2, <2>3, <2>4, <2>5 DEF BeginStep
    <2> QED BY <2>6
  <1> QED BY <1>4, <1>5 DEF OtherBegins

LEMMA BeginsKeep ==
    ASSUME IInv, NEW t \in TaskIds,
           \/ OpenSettings(t) \/ Save(t) \/ SaveAndClose(t) \/ ConfirmReset(t) \/ Restore(t)
           \/ OtherBegins(t)
    PROVE  IInv'
  <1>1. CASE OpenSettings(t) BY <1>1, OpenSettingsBegins, BeginStepKeeps
  <1>2. CASE Save(t)
    <2>1. /\ EnvStays /\ ui.phase = "open" /\ ui.prompt = "none" /\ BeginSave(t, "save")
          /\ "save" \in Saves
      BY <1>2, Spent DEF Save, Interactive, IInv, Saves
    <2> QED BY <2>1, BeginSaveKeeps
  <1>3. CASE SaveAndClose(t)
    <2>1. /\ EnvStays /\ ui.phase = "open" /\ ui.prompt = "none" /\ BeginSave(t, "save-and-close")
          /\ "save-and-close" \in Saves
      BY <1>3, EnvSame DEF SaveAndClose, InDialog, Saves
    <2> QED BY <2>1, BeginSaveKeeps
  <1>4. CASE ConfirmReset(t) BY <1>4, ConfirmResetBegins, BeginStepKeeps
  <1>5. CASE Restore(t) BY <1>5, RestoreBegins, BeginStepKeeps
  <1>6. CASE OtherBegins(t) BY <1>6, OtherBeginsBegins, BeginStepKeeps
  <1> QED BY <1>1, <1>2, <1>3, <1>4, <1>5, <1>6

-----------------------------------------------------------------------------
(* A running task makes a step; the overlay stays as it is.                *)

TaskStep(t, k) ==
    /\ tasks[t] # Idle /\ tasks' = [tasks EXCEPT ![t] = k] /\ k \in TaskRecord
    /\ k.op = tasks[t].op /\ k.by = tasks[t].by /\ k.live = tasks[t].live
    /\ Whole(file) => Whole(file')
    /\ file = Torn => file' = Torn \/ Whole(file')
    /\ TaskFact(k, file', DOMAIN cache', consented, Env)
    /\ CacheFiled' /\ DOMAIN cache \subseteq DOMAIN cache' /\ EnvStays
    /\ UNCHANGED <<ui, confirmed, consented, overwritten, told, overlapped>>

FilesStep(t, k) ==
    /\ file' \in Contents /\ Kept(backup') /\ Kept(prev')
    /\ damaged' \in BOOLEAN /\ seen' \in BOOLEAN
    /\ file'.is = "torn" /\ ~damaged' =>
          /\ file' = Torn
          /\ k.step = "fill" \/ (file' = file /\ ~damaged /\ tasks[t].step # "fill")
    /\ Whole(file') => Danger(file'.config) \subseteq consented
    /\ Danger(backup'.config) \subseteq consented
    /\ ~overlapped => /\ SoloTask(k, file', backup', prev', writer', ui.phase)
                      /\ BackupFacts' /\ ShownFacts' /\ ToldFacts'

LEMMA TaskStepKeeps ==
    ASSUME IInv, NEW t \in TaskIds, NEW k, TaskStep(t, k), FilesStep(t, k) PROVE IInv'
  <1>1. tasks' = [tasks EXCEPT ![t] = k] /\ k \in TaskRecord
    BY DEF TaskStep
  <1>2. /\ tasks'[t] = k /\ \A u \in TaskIds : u # t => tasks'[u] = tasks[u]
    BY <1>1 DEF IInv, Typed
  <1>3. UNCHANGED <<ui, confirmed, consented, overwritten, told, overlapped>>
    BY DEF TaskStep
  <1>4. Typed'
    <2>1. tasks' \in [TaskIds -> TaskRecord]
      BY <1>1 DEF IInv, Typed
    <2> QED BY <2>1, <1>3 DEF IInv, Typed, TaskStep, FilesStep, EnvStays
  <1>5. TaskFacts'
    <2>1. /\ Typed /\ TaskFacts /\ DOMAIN cache \subseteq DOMAIN cache'
          /\ consented \subseteq consented' /\ Env' = Env
          /\ (Whole(file) => Whole(file')) /\ (file = Torn => file' = Torn \/ Whole(file'))
          /\ TaskFact(k, file', DOMAIN cache', consented', Env)
      BY <1>3 DEF IInv, TaskStep, EnvStays
    <2> HIDE DEF Env
    <2> QED BY <1>1, <2>1, TaskFactsMove
  <1>6. FileFacts'
    <2>1. ui'.phase = "open" \/ told' # {} => Whole(file')
      BY <1>3 DEF IInv, FileFacts, TaskStep
    <2>2. ASSUME file'.is = "torn", ~damaged' PROVE file' = Torn /\ \E u \in TaskIds : At(u, "fill")'
      <3>1. CASE k.step = "fill"
        BY <1>2, <2>2, <3>1 DEF FilesStep, At
      <3>2. CASE k.step # "fill"
        <4>1. file' = file /\ file' = Torn /\ ~damaged /\ tasks[t].step # "fill"
          BY <2>2, <3>2 DEF FilesStep
        <4>2. PICK u \in TaskIds : tasks[u].step = "fill"
          BY <2>2, <4>1 DEF IInv, FileFacts, At
        <4> QED BY <1>2, <4>1, <4>2 DEF At
      <3> QED BY <3>1, <3>2
    <2> QED BY <2>1, <2>2 DEF FileFacts
  <1>7. OverlayFacts'
    BY <1>2, <1>3 DEF IInv, OverlayFacts, TaskStep
  <1>8. RefusalFacts'
    <2>1. Env' = Env BY DEF TaskStep, EnvStays
    <2> HIDE DEF Env
    <2> QED BY <1>3, <2>1 DEF IInv, RefusalFacts
  <1>9. DangerFacts'
    BY <1>3 DEF IInv, DangerFacts, FilesStep, Selected
  <1>10. SoloFacts'
    <2>1. SUFFICES ASSUME ~overlapped
                   PROVE  Alone' /\ SoloTasks' /\ BackupFacts' /\ ShownFacts' /\ ToldFacts'
      BY <1>3 DEF SoloFacts
    <2>2. Alone
      BY <2>1 DEF IInv, SoloFacts
    <2>3. \A u \in TaskIds : u # t => tasks[u] = Idle
      BY <2>2 DEF Alone, TaskStep
    <2>4. SoloTask(k, file', backup', prev', writer', ui'.phase)
      BY <1>3, <2>1 DEF FilesStep
    <2>5. Alone' /\ SoloTasks'
      BY <1>1, <2>2, <2>3, <2>4, SoloMove DEF IInv
    <2> QED BY <2>1, <2>5 DEF FilesStep
  <1>11. CacheFiled'
    BY DEF TaskStep
  <1>12. LoadFacts'
    <2>1. \A u \in TaskIds : tasks'[u].op = tasks[u].op /\ tasks'[u].by = tasks[u].by
      BY <1>2 DEF TaskStep
    <2> QED BY <1>3, <2>1 DEF IInv, LoadFacts, SelfLoad
  <1> QED BY <1>4, <1>5, <1>6, <1>7, <1>8, <1>9, <1>10, <1>11, <1>12 DEF IInv

\* What is known of a running task.
LEMMA TaskKnown ==
    ASSUME IInv, NEW t \in TaskIds
    PROVE  /\ tasks[t] \in TaskRecord /\ TaskShape(tasks[t])
           /\ TaskFact(tasks[t], file, DOMAIN cache, consented, Env)
           /\ ~overlapped => SoloTask(tasks[t], file, backup, prev, writer, ui.phase)
           /\ ~overlapped /\ tasks[t] # Idle => \A u \in TaskIds : u # t => tasks[u] = Idle
           /\ tasks[t].step # "idle" => tasks[t] # Idle
  <1>1. tasks[t] \in TaskRecord BY DEF IInv, Typed
  <1>2. TaskFact(tasks[t], file, DOMAIN cache, consented, Env) BY DEF IInv, TaskFacts
  <1>3. TaskShape(tasks[t]) BY <1>2 DEF TaskFact
  <1>4. ~overlapped => SoloTask(tasks[t], file, backup, prev, writer, ui.phase)
    BY DEF IInv, SoloFacts, SoloTasks
  <1>5. ~overlapped /\ tasks[t] # Idle => \A u \in TaskIds : u # t => tasks[u] = Idle
    BY DEF IInv, SoloFacts, Alone
  <1> QED BY <1>1, <1>2, <1>3, <1>4, <1>5, IdleTask

\* What is shown and told stays true while the file is not written.
LEMMA ShownAndTold ==
    ASSUME IInv, NEW t \in TaskIds, NEW k, TaskStep(t, k), UNCHANGED <<file, writer>>, ~overlapped,
           tasks[t].step # "written", k.step # "written",
           ui.phase = "open" => (seen' => seen)
    PROVE  ShownFacts' /\ ToldFacts'
  <1>1. ShownFacts /\ ToldFacts
    BY DEF IInv, SoloFacts
  <1>2. \A u \in TaskIds : tasks[u].step = "written" => tasks'[u] = tasks[u]
    BY DEF IInv, Typed, TaskStep
  <1>3. \A u \in TaskIds : tasks'[u].step = "written" => tasks'[u] = tasks[u]
    BY DEF IInv, Typed, TaskStep
  <1>4. UNCHANGED <<ui, told>>
    BY DEF TaskStep
  <1>5. ToldFacts'
    BY <1>1, <1>2, <1>3, <1>4 DEF ToldFacts, At
  <1>6. ShownFacts'
    BY <1>1, <1>2, <1>3, <1>4 DEF ShownFacts, At
  <1> QED BY <1>5, <1>6

\* Nothing is written in the step: the files, and what is shown and told, stay.
LEMMA QuietFiles ==
    ASSUME IInv, NEW t \in TaskIds, NEW k, TaskStep(t, k), UNCHANGED <<file, backup, prev, writer>>,
           damaged' \in BOOLEAN, seen' \in BOOLEAN,
           file.is = "torn" /\ ~damaged' => ~damaged /\ tasks[t].step # "fill",
           tasks[t].step # "written",
           k.step # "written", seen' => seen \/ (k.op = "load" /\ k.by = "self"),
           ~overlapped => SoloTask(k, file, backup, prev, writer, ui.phase)
    PROVE  FilesStep(t, k)
  <1>1. /\ file' \in Contents /\ Kept(backup') /\ Kept(prev')
    BY DEF IInv, Typed
  <1>2. file'.is = "torn" /\ ~damaged' =>
            file' = Torn /\ file' = file /\ ~damaged /\ tasks[t].step # "fill"
    BY DEF IInv, FileFacts
  <1>3. /\ Whole(file') => Danger(file'.config) \subseteq consented
        /\ Danger(backup'.config) \subseteq consented
    BY DEF IInv, DangerFacts
  <1>4. ASSUME ~overlapped
        PROVE  /\ SoloTask(k, file', backup', prev', writer', ui.phase)
               /\ BackupFacts' /\ ShownFacts' /\ ToldFacts'
    <2>1. BackupFacts'
      BY <1>4 DEF IInv, SoloFacts, BackupFacts
    <2>2. SoloTask(k, file, backup, prev, writer, ui.phase)
      BY <1>4
    <2>3. ui.phase = "open" => (seen' => seen)
      BY <2>2 DEF SoloTask
    <2> QED BY <1>4, <2>1, <2>2, <2>3, ShownAndTold
  <1> QED BY <1>1, <1>2, <1>3, <1>4 DEF FilesStep

Steps == {"idle", "load", "create", "fill", "loaded", "resolving", "unresolved", "current",
          "backup", "write", "written", "restore", "failed", "rejected"}
LEMMA StepTo ==
    ASSUME NEW k \in TaskRecord, NEW s \in Steps
    PROVE  LET j == [k EXCEPT !.step = s]
           IN  /\ j \in TaskRecord /\ j.step = s /\ j.op = k.op /\ j.by = k.by
               /\ j.config = k.config /\ j.read = k.read /\ j.live = k.live /\ j.base = k.base
  BY DEF TaskRecord, Steps

\* What a step of the store leaves alone, and what it lets this process see.
StoreFrame(t) ==
    /\ UNCHANGED <<ui, cache, confirmed, consented, overwritten, told, overlapped>>
    /\ EnvStays
    /\ \/ seen' = seen
       \/ seen' = IF tasks[t].by = "other" THEN seen /\ file' = file
                  ELSE seen \/ tasks'[t].step \in {"loaded", "written"}

LEMMA FrameStep ==
    ASSUME IInv, NEW t \in TaskIds, StoreFrame(t), NEW k \in TaskRecord, tasks[t] # Idle,
           tasks' = [tasks EXCEPT ![t] = k], k.op = tasks[t].op, k.by = tasks[t].by,
           k.live = tasks[t].live, Whole(file) => Whole(file'), file = Torn => file' = Torn \/ Whole(file'),
           TaskFact(k, file', DOMAIN cache, consented, Env)
    PROVE  TaskStep(t, k) /\ tasks'[t] = k /\ seen' \in BOOLEAN
  <1>1. CacheFiled' /\ DOMAIN cache' = DOMAIN cache
    BY DEF IInv, CacheFiled, StoreFrame
  <1>2. tasks'[t] = k
    BY DEF IInv, Typed
  <1>3. seen' \in BOOLEAN
    BY DEF IInv, Typed, StoreFrame
  <1> HIDE DEF Env, EnvStays
  <1> QED BY <1>1, <1>2, <1>3 DEF TaskStep, StoreFrame

\* A step of the store that writes nothing.
LEMMA QuietStep ==
    ASSUME IInv, NEW t \in TaskIds, StoreFrame(t), NEW k \in TaskRecord,
           tasks[t].step \notin {"idle", "fill", "written"},
           tasks' = [tasks EXCEPT ![t] = k], k.op = tasks[t].op, k.live = tasks[t].live,
           k.by = tasks[t].by, k.step # "written", k.step = "loaded" => k.op = "load",
           UNCHANGED <<file, backup, prev, writer, damaged>>,
           TaskFact(k, file, DOMAIN cache, consented, Env),
           ~overlapped => SoloTask(k, file, backup, prev, writer, ui.phase)
    PROVE  IInv'
  <1>1. tasks[t] # Idle
    BY IdleTask
  <1>2. TaskStep(t, k) /\ tasks'[t] = k /\ seen' \in BOOLEAN
    <2> HIDE DEF Env
    <2> QED BY <1>1, FrameStep
  <1>3. seen' => seen \/ (k.op = "load" /\ k.by = "self")
    <2>1. TaskShape(k)
      BY DEF TaskFact
    <2>2. k # Idle
      BY <1>1, TaskKnown, IdleTask DEF TaskShape, Saves
    <2>3. k.by \in {"self", "other"}
      BY <2>1, <2>2 DEF TaskShape
    <2> QED BY <1>2, <2>3 DEF StoreFrame, IInv, Typed
  <1>4. FilesStep(t, k)
    <2>1. damaged' \in BOOLEAN BY DEF IInv, Typed
    <2> QED BY <1>2, <1>3, <2>1, QuietFiles
  <1> QED BY <1>2, <1>4, TaskStepKeeps

\* A task that fails says nothing any more about the files.
LEMMA FailedTask ==
    ASSUME NEW k \in TaskRecord, k.step # "idle", NEW f, NEW keys, NEW policies, NEW e,
           TaskFact(k, f, keys, policies, e), NEW j, j = [k EXCEPT !.step = "failed"]
    PROVE  /\ j \in TaskRecord /\ j.step = "failed" /\ j.op = k.op /\ j.by = k.by /\ j.live = k.live
           /\ TaskFact(j, f, keys, policies, e)
           /\ \A b, p, w, phase, g, h, q, v :
                 SoloTask(k, f, b, p, w, phase) => SoloTask(j, g, h, q, v, phase)
  <1>1. /\ j \in TaskRecord /\ j.step = "failed" /\ j.op = k.op /\ j.by = k.by
        /\ j.config = k.config /\ j.read = k.read /\ j.live = k.live /\ j.base = k.base
    BY StepTo DEF Steps
  <1>2. k # Idle /\ TaskShape(k)
    BY IdleTask DEF TaskFact
  <1>3. TaskShape(j)
    BY <1>1, <1>2, IdleTask DEF TaskShape, Saves
  <1>4. TaskFact(j, f, keys, policies, e)
    BY <1>1, <1>3 DEF TaskFact
  <1>5. ASSUME NEW b, NEW p, NEW w, NEW phase, SoloTask(k, f, b, p, w, phase),
               NEW g, NEW h, NEW q, NEW v
        PROVE  SoloTask(j, g, h, q, v, phase)
    BY <1>1, <1>5 DEF SoloTask
  <1> QED BY <1>1, <1>4, <1>5

LEMMA FailsKeeps ==
    ASSUME IInv, NEW t \in TaskIds, StoreFrame(t), Fails(t),
           tasks[t].step \notin {"idle", "fill", "written"},
           UNCHANGED <<file, backup, prev, writer, damaged>>
    PROVE  IInv'
  <1> DEFINE k == [tasks[t] EXCEPT !.step = "failed"]
  <1>1. tasks' = [tasks EXCEPT ![t] = k]
    BY DEF Fails, Goes, IInv, Typed
  <1>2. /\ tasks[t] \in TaskRecord /\ TaskFact(tasks[t], file, DOMAIN cache, consented, Env)
        /\ ~overlapped => SoloTask(tasks[t], file, backup, prev, writer, ui.phase)
    BY TaskKnown
  <1>3. k = [tasks[t] EXCEPT !.step = "failed"] OBVIOUS
  <1> HIDE DEF k, Env
  <1>4. /\ k \in TaskRecord /\ k.step = "failed" /\ k.op = tasks[t].op /\ k.by = tasks[t].by
        /\ k.live = tasks[t].live /\ TaskFact(k, file, DOMAIN cache, consented, Env)
        /\ ~overlapped => SoloTask(k, file, backup, prev, writer, ui.phase)
    BY <1>2, <1>3, FailedTask
  <1> QED BY <1>1, <1>4, QuietStep

LEMMA LoadKeeps == ASSUME IInv, NEW t \in TaskIds, StoreFrame(t), Load(t) PROVE IInv'
  <1>1. /\ tasks[t].step = "load" /\ UNCHANGED <<file, backup, prev, writer, damaged>>
    BY DEF Load, At
  <1>2. /\ tasks[t] \in TaskRecord /\ TaskFact(tasks[t], file, DOMAIN cache, consented, Env)
        /\ TaskShape(tasks[t]) /\ tasks[t] # Idle
        /\ ~overlapped => SoloTask(tasks[t], file, backup, prev, writer, ui.phase)
    BY <1>1, TaskKnown
  <1>3. tasks[t].op = "load"
    BY <1>1, <1>2 DEF TaskShape
  <1>4. CASE file # Absent /\ Whole(file)
    <2> DEFINE k == [tasks[t] EXCEPT !.step = "loaded", !.config = file.config]
    <2>1. tasks' = [tasks EXCEPT ![t] = k]
      BY <1>4 DEF Load, ReadConfig, IInv, Typed
    <2>2. file.config \in Configs /\ file = Json(file.config) /\ Danger(file.config) \subseteq consented
      BY <1>4, WholeIsJson DEF IInv, Typed, DangerFacts
    <2>3. /\ k \in TaskRecord /\ k.step = "loaded" /\ k.op = "load" /\ k.by = tasks[t].by
          /\ k.config = file.config /\ k.read = tasks[t].read /\ k.live = tasks[t].live
          /\ k.base = tasks[t].base
      BY <1>2, <1>3, <2>2 DEF TaskRecord
    <2> HIDE DEF k, Env
    <2>4. TaskShape(k)
      BY <1>2, <1>3, <2>3, IdleTask DEF TaskShape, Saves
    <2>5. TaskFact(k, file, DOMAIN cache, consented, Env)
      BY <1>2, <1>4, <2>2, <2>3, <2>4 DEF TaskFact, Saves
    <2>6. ~overlapped => SoloTask(k, file, backup, prev, writer, ui.phase)
      BY <1>2, <1>3, <2>2, <2>3 DEF SoloTask, Writes
    <2> QED BY <1>1, <1>3, <2>1, <2>3, <2>5, <2>6, QuietStep
  <1>5. CASE file # Absent /\ ~Whole(file)
    <2>1. Fails(t)
      BY <1>5 DEF Load, ReadConfig, Fails, Goes, IInv, Typed
    <2> QED BY <1>1, <2>1, FailsKeeps
  <1>6. CASE file = Absent
    <2> DEFINE k == [tasks[t] EXCEPT !.step = "create"]
    <2>1. tasks' = [tasks EXCEPT ![t] = k]
      BY <1>6 DEF Load, Goes, IInv, Typed
    <2>2. /\ k \in TaskRecord /\ k.step = "create" /\ k.op = "load" /\ k.by = tasks[t].by
          /\ k.config = tasks[t].config /\ k.read = tasks[t].read /\ k.live = tasks[t].live
          /\ k.base = tasks[t].base
      BY <1>2, <1>3 DEF TaskRecord
    <2> HIDE DEF k, Env
    <2>3. TaskShape(k)
      BY <1>2, <1>3, <2>2, IdleTask DEF TaskShape, Saves
    <2>4. TaskFact(k, file, DOMAIN cache, consented, Env)
      BY <1>2, <2>2, <2>3 DEF TaskFact, Saves
    <2>5. ~overlapped => SoloTask(k, file, backup, prev, writer, ui.phase)
      BY <1>2, <1>3, <2>2 DEF SoloTask, Writes
    <2> QED BY <1>1, <1>3, <2>1, <2>2, <2>4, <2>5, QuietStep
  <1> QED BY <1>4, <1>5, <1>6

LEMMA CreateKeeps == ASSUME IInv, NEW t \in TaskIds, StoreFrame(t), Create(t) PROVE IInv'
  <1>1. tasks[t].step = "create" /\ UNCHANGED <<backup, prev, damaged>>
    BY DEF Create, At
  <1>2. /\ tasks[t] \in TaskRecord /\ TaskFact(tasks[t], file, DOMAIN cache, consented, Env)
        /\ TaskShape(tasks[t]) /\ tasks[t] # Idle
        /\ ~overlapped => SoloTask(tasks[t], file, backup, prev, writer, ui.phase)
    BY <1>1, TaskKnown
  <1>3. tasks[t].op = "load"
    BY <1>1, <1>2 DEF TaskShape
  <1>4. CASE file = Absent /\ file' = Torn /\ writer' = tasks[t].by /\ Goes(t, "fill")
    <2> DEFINE k == [tasks[t] EXCEPT !.step = "fill"]
    <2>1. tasks' = [tasks EXCEPT ![t] = k]
      BY <1>4 DEF Goes, IInv, Typed
    <2>2. /\ k \in TaskRecord /\ k.step = "fill" /\ k.op = "load" /\ k.by = tasks[t].by
          /\ k.config = tasks[t].config /\ k.read = tasks[t].read /\ k.live = tasks[t].live
          /\ k.base = tasks[t].base
      BY <1>2, <1>3 DEF TaskRecord
    <2> HIDE DEF k, Env
    <2>3. TaskShape(k)
      BY <1>2, <1>3, <2>2, IdleTask DEF TaskShape, Saves
    <2>4. TaskFact(k, file', DOMAIN cache, consented, Env)
      BY <1>2, <1>4, <2>2, <2>3 DEF TaskFact, Saves
    <2>5. ~Whole(file) /\ file # Torn /\ ~Whole(file') /\ file' \in Contents
      BY <1>4, PlainContents
    <2>6. TaskStep(t, k) /\ seen' \in BOOLEAN
      BY <1>2, <1>3, <2>1, <2>2, <2>4, <2>5, FrameStep
    <2>7. ui.phase # "open" /\ told = {} /\ UNCHANGED <<ui, told>>
      BY <2>5, <2>6 DEF IInv, FileFacts, TaskStep
    <2>8. ASSUME ~overlapped
          PROVE  /\ SoloTask(k, file', backup', prev', writer', ui.phase)
                 /\ BackupFacts' /\ ShownFacts' /\ ToldFacts'
      <3>1. SoloTask(k, file', backup', prev', writer', ui.phase)
        BY <1>4, <2>2, <2>7 DEF SoloTask, Writes
      <3>2. BackupFacts'
        BY <1>1, <2>5, <2>8 DEF IInv, SoloFacts, BackupFacts
      <3>3. ShownFacts' /\ ToldFacts'
        BY <2>7 DEF ShownFacts, ToldFacts
      <3> QED BY <3>1, <3>2, <3>3
    <2>9. FilesStep(t, k)
      BY <1>1, <1>4, <2>2, <2>5, <2>6, <2>8 DEF FilesStep, IInv, Typed, DangerFacts
    <2> QED BY <2>6, <2>9, TaskStepKeeps
  <1>5. CASE file # Absent /\ Goes(t, "load") /\ UNCHANGED <<file, writer>>
    <2> DEFINE k == [tasks[t] EXCEPT !.step = "load"]
    <2>1. tasks' = [tasks EXCEPT ![t] = k]
      BY <1>5 DEF Goes, IInv, Typed
    <2>2. /\ k \in TaskRecord /\ k.step = "load" /\ k.op = "load" /\ k.by = tasks[t].by
          /\ k.config = tasks[t].config /\ k.read = tasks[t].read /\ k.live = tasks[t].live
          /\ k.base = tasks[t].base
      BY <1>2, <1>3 DEF TaskRecord
    <2> HIDE DEF k, Env
    <2>3. TaskShape(k)
      BY <1>2, <1>3, <2>2, IdleTask DEF TaskShape, Saves
    <2>4. TaskFact(k, file, DOMAIN cache, consented, Env)
      BY <1>2, <2>2, <2>3 DEF TaskFact, Saves
    <2>5. ~overlapped => SoloTask(k, file, backup, prev, writer, ui.phase)
      BY <1>2, <1>3, <2>2 DEF SoloTask, Writes
    <2> QED BY <1>1, <1>3, <1>5, <2>1, <2>2, <2>4, <2>5, QuietStep
  <1> QED BY <1>4, <1>5 DEF Create

LEMMA FillKeeps == ASSUME IInv, NEW t \in TaskIds, StoreFrame(t), Fill(t) PROVE IInv'
  <1>1. /\ tasks[t].step = "fill" /\ UNCHANGED <<backup, prev, writer, damaged>>
        /\ file' = IF file = Torn THEN Json(CreateDefaultConfig) ELSE file
    BY DEF Fill, At
  <1>2. /\ tasks[t] \in TaskRecord /\ TaskFact(tasks[t], file, DOMAIN cache, consented, Env)
        /\ TaskShape(tasks[t]) /\ tasks[t] # Idle
        /\ ~overlapped => SoloTask(tasks[t], file, backup, prev, writer, ui.phase)
    BY <1>1, TaskKnown
  <1>3. tasks[t].op = "load"
    BY <1>1, <1>2 DEF TaskShape
  <1> DEFINE k == [tasks[t] EXCEPT !.step = "loaded", !.config = CreateDefaultConfig]
  <1>4. tasks' = [tasks EXCEPT ![t] = k]
    BY DEF Fill, IInv, Typed
  <1>5. /\ k \in TaskRecord /\ k.step = "loaded" /\ k.op = "load" /\ k.by = tasks[t].by
        /\ k.config = CreateDefaultConfig /\ k.read = tasks[t].read /\ k.live = tasks[t].live
        /\ k.base = tasks[t].base
    BY <1>2, <1>3, DefaultIsValid DEF TaskRecord
  <1> HIDE DEF k, Env
  <1>6. file = Torn \/ Whole(file)
    BY <1>1, <1>2 DEF TaskFact
  <1>7. Whole(file') /\ file' \in Contents /\ file'.is = "json"
    <2>1. CASE file = Torn
      BY <1>1, <2>1, DefaultIsValid, JsonIsWhole
    <2>2. CASE file # Torn
      BY <1>1, <1>6, <2>2 DEF IInv, Typed, Whole
    <2> QED BY <2>1, <2>2
  <1>8. TaskShape(k)
    BY <1>2, <1>3, <1>5, IdleTask DEF TaskShape, Saves
  <1>9. TaskFact(k, file', DOMAIN cache, consented, Env)
    BY <1>2, <1>5, <1>7, <1>8, DefaultIsValid DEF TaskFact, Saves
  <1>10. TaskStep(t, k) /\ seen' \in BOOLEAN
    BY <1>2, <1>3, <1>4, <1>5, <1>7, <1>9, FrameStep
  <1>11. Danger(file'.config) \subseteq consented
    <2>1. CASE file = Torn
      BY <1>1, <2>1, DefaultIsValid, JsonIsWhole
    <2>2. CASE file # Torn
      BY <1>1, <1>6, <2>2 DEF IInv, DangerFacts
    <2> QED BY <2>1, <2>2
  <1>12. ASSUME ~overlapped
         PROVE  /\ SoloTask(k, file', backup', prev', writer', ui.phase)
                /\ BackupFacts' /\ ShownFacts' /\ ToldFacts'
    <2>1. file = Torn /\ ~Whole(file)
      BY <1>1, <1>2, <1>12, PlainContents DEF SoloTask
    <2>2. ui.phase # "open" /\ told = {} /\ UNCHANGED <<ui, told>>
      BY <1>10, <2>1 DEF IInv, FileFacts, TaskStep
    <2>3. SoloTask(k, file', backup', prev', writer', ui.phase)
      BY <1>1, <1>5, <2>1, <2>2 DEF SoloTask, Writes
    <2>4. BackupFacts'
      BY <1>1, <1>7, <1>12, <2>1 DEF IInv, SoloFacts, BackupFacts
    <2>5. ShownFacts' /\ ToldFacts'
      BY <2>2 DEF ShownFacts, ToldFacts
    <2> QED BY <2>3, <2>4, <2>5
  <1>13. FilesStep(t, k)
    BY <1>1, <1>7, <1>10, <1>11, <1>12 DEF FilesStep, IInv, Typed, DangerFacts
  <1> QED BY <1>10, <1>13, TaskStepKeeps

LEMMA ReadValidCurrentKeeps ==
    ASSUME IInv, NEW t \in TaskIds, StoreFrame(t), ReadValidCurrent(t) PROVE IInv'
  <1>1. tasks[t].step = "current" /\ UNCHANGED <<file, backup, prev, writer, damaged>>
    BY DEF ReadValidCurrent, At
  <1>2. /\ tasks[t] \in TaskRecord /\ TaskFact(tasks[t], file, DOMAIN cache, consented, Env)
        /\ TaskShape(tasks[t]) /\ tasks[t] # Idle
        /\ ~overlapped => SoloTask(tasks[t], file, backup, prev, writer, ui.phase)
    BY <1>1, TaskKnown
  <1>3. tasks[t].op \in Writes
    BY <1>1, <1>2, IdleTask DEF TaskShape, Saves, Writes
  <1>4. CASE Whole(file)
    <2> DEFINE k == [tasks[t] EXCEPT !.step = "backup", !.read = file]
    <2>1. tasks' = [tasks EXCEPT ![t] = k]
      BY <1>4 DEF ReadValidCurrent, IInv, Typed
    <2>2. /\ k \in TaskRecord /\ k.step = "backup" /\ k.op = tasks[t].op /\ k.by = tasks[t].by
          /\ k.config = tasks[t].config /\ k.read = file /\ k.live = tasks[t].live
          /\ k.base = tasks[t].base
      <3>1. file \in Contents BY DEF IInv, Typed
      <3> QED BY <1>2, <3>1 DEF TaskRecord
    <2>3. Kept(file) /\ Danger(file.config) \subseteq consented
      BY <1>4, WholeIsJson DEF IInv, Typed, DangerFacts
    <2> HIDE DEF k, Env
    <2>4. TaskShape(k)
      BY <1>1, <1>2, <1>3, <1>4, <2>2, <2>3, IdleTask DEF TaskShape, Saves, Writes
    <2>5. TaskFact(k, file, DOMAIN cache, consented, Env)
      BY <1>1, <1>2, <2>2, <2>3, <2>4 DEF TaskFact
    <2>6. ~overlapped => SoloTask(k, file, backup, prev, writer, ui.phase)
      BY <1>2, <1>3, <2>2 DEF SoloTask, Writes
    <2> QED BY <1>1, <2>1, <2>2, <2>5, <2>6, QuietStep
  <1>5. CASE ~Whole(file)
    <2> DEFINE k == [tasks[t] EXCEPT !.step = "write"]
    <2>1. tasks' = [tasks EXCEPT ![t] = k]
      BY <1>5 DEF ReadValidCurrent, IInv, Typed
    <2>2. /\ k \in TaskRecord /\ k.step = "write" /\ k.op = tasks[t].op /\ k.by = tasks[t].by
          /\ k.config = tasks[t].config /\ k.read = tasks[t].read /\ k.live = tasks[t].live
          /\ k.base = tasks[t].base
      BY <1>2 DEF TaskRecord
    <2> HIDE DEF k, Env
    <2>3. TaskShape(k)
      BY <1>1, <1>2, <1>3, <2>2, IdleTask DEF TaskShape, Saves, Writes
    <2>4. TaskFact(k, file, DOMAIN cache, consented, Env)
      BY <1>1, <1>2, <2>2, <2>3 DEF TaskFact
    <2>5. ~overlapped => SoloTask(k, file, backup, prev, writer, ui.phase)
      BY <1>2, <1>3, <1>5, <2>2 DEF SoloTask, Writes
    <2> QED BY <1>1, <2>1, <2>2, <2>4, <2>5, QuietStep
  <1> QED BY <1>4, <1>5

\* The backup becomes what the save read, which is the file unless others wrote too.
LEMMA WriteBackupKeeps ==
    ASSUME IInv, NEW t \in TaskIds, StoreFrame(t), WriteBackup(t) PROVE IInv'
  <1>1. /\ tasks[t].step = "backup" /\ UNCHANGED <<file, prev, writer, damaged>>
        /\ backup' = tasks[t].read /\ Goes(t, "write")
    BY DEF WriteBackup, At
  <1>2. /\ tasks[t] \in TaskRecord /\ TaskFact(tasks[t], file, DOMAIN cache, consented, Env)
        /\ TaskShape(tasks[t]) /\ tasks[t] # Idle
        /\ ~overlapped => SoloTask(tasks[t], file, backup, prev, writer, ui.phase)
    BY <1>1, TaskKnown
  <1>3. tasks[t].op \in Writes /\ Kept(tasks[t].read) /\ Whole(tasks[t].read)
    BY <1>1, <1>2, IdleTask DEF TaskShape, Saves, Writes
  <1> DEFINE k == [tasks[t] EXCEPT !.step = "write"]
  <1>4. tasks' = [tasks EXCEPT ![t] = k]
    BY <1>1 DEF Goes, IInv, Typed
  <1>5. /\ k \in TaskRecord /\ k.step = "write" /\ k.op = tasks[t].op /\ k.by = tasks[t].by
        /\ k.config = tasks[t].config /\ k.read = tasks[t].read /\ k.live = tasks[t].live
        /\ k.base = tasks[t].base
    BY <1>2 DEF TaskRecord
  <1> HIDE DEF k, Env
  <1>6. TaskShape(k)
    BY <1>1, <1>2, <1>3, <1>5, IdleTask DEF TaskShape, Saves, Writes
  <1>7. TaskFact(k, file', DOMAIN cache, consented, Env)
    BY <1>1, <1>2, <1>5, <1>6 DEF TaskFact
  <1>8. TaskStep(t, k) /\ seen' \in BOOLEAN /\ tasks'[t] = k
    BY <1>1, <1>2, <1>4, <1>5, <1>7, FrameStep
  <1>9. seen' => seen
    BY <1>1, <1>5, <1>8 DEF StoreFrame, IInv, Typed
  <1>10. Danger(backup'.config) \subseteq consented
    BY <1>1, <1>2 DEF TaskFact
  <1>11. ASSUME ~overlapped
         PROVE  /\ SoloTask(k, file', backup', prev', writer', ui.phase)
                /\ BackupFacts' /\ ShownFacts' /\ ToldFacts'
    <2>1. tasks[t].read = file
      BY <1>1, <1>2, <1>11 DEF SoloTask
    <2>2. SoloTask(k, file', backup', prev', writer', ui.phase)
      BY <1>1, <1>2, <1>3, <1>5, <1>11, <2>1 DEF SoloTask, Writes
    <2>3. BackupFacts'
      BY <1>1, <1>3, <2>1 DEF BackupFacts
    <2>4. ShownFacts' /\ ToldFacts'
      BY <1>1, <1>5, <1>8, <1>9, <1>11, ShownAndTold
    <2> QED BY <2>2, <2>3, <2>4
  <1>12. file'.is = "torn" /\ ~damaged' =>
            file' = Torn /\ file' = file /\ ~damaged /\ tasks[t].step # "fill"
    BY <1>1 DEF IInv, FileFacts
  <1>13. FilesStep(t, k)
    BY <1>1, <1>3, <1>8, <1>10, <1>11, <1>12 DEF FilesStep, IInv, Typed, DangerFacts
  <1> QED BY <1>8, <1>13, TaskStepKeeps

\* The rename that makes a configuration current.
LEMMA WriteConfigKeeps ==
    ASSUME IInv, NEW t \in TaskIds, StoreFrame(t), WriteConfig(t),
           seen' = IF tasks[t].by = "other" THEN seen /\ file' = file
                   ELSE seen \/ tasks'[t].step \in {"loaded", "written"}
    PROVE  IInv'
  <1>1. /\ tasks[t].step = "write" /\ UNCHANGED <<backup, damaged>>
        /\ file' = Json(tasks[t].config) /\ prev' = (IF Whole(file) THEN file ELSE prev)
        /\ writer' = tasks[t].by /\ Goes(t, "written")
    BY DEF WriteConfig, At
  <1>2. /\ tasks[t] \in TaskRecord /\ TaskFact(tasks[t], file, DOMAIN cache, consented, Env)
        /\ TaskShape(tasks[t]) /\ tasks[t] # Idle
        /\ ~overlapped => SoloTask(tasks[t], file, backup, prev, writer, ui.phase)
        /\ ~overlapped => \A u \in TaskIds : u # t => tasks[u] = Idle
    BY <1>1, TaskKnown
  <1>3. tasks[t].op \in Writes \cup {"restore"} /\ tasks[t].by \in {"self", "other"}
    BY <1>1, <1>2, IdleTask DEF TaskShape, Saves, Writes
  <1> DEFINE k == [tasks[t] EXCEPT !.step = "written"]
  <1>4. tasks' = [tasks EXCEPT ![t] = k]
    BY <1>1 DEF Goes, IInv, Typed
  <1>5. /\ k \in TaskRecord /\ k.step = "written" /\ k.op = tasks[t].op /\ k.by = tasks[t].by
        /\ k.config = tasks[t].config /\ k.read = tasks[t].read /\ k.live = tasks[t].live
        /\ k.base = tasks[t].base
    BY <1>2 DEF TaskRecord
  <1> HIDE DEF k, Env
  <1>6. tasks[t].config \in Configs
    BY <1>2 DEF TaskRecord
  <1>7. Whole(file') /\ file' \in Contents /\ file'.is = "json" /\ file'.config = tasks[t].config
    BY <1>1, <1>6, JsonIsWhole
  <1>8. TaskShape(k)
    BY <1>1, <1>2, <1>3, <1>5, IdleTask DEF TaskShape, Saves, Writes
  <1>9. TaskFact(k, file', DOMAIN cache, consented, Env)
    BY <1>1, <1>2, <1>5, <1>7, <1>8 DEF TaskFact
  <1>10. TaskStep(t, k) /\ seen' \in BOOLEAN /\ tasks'[t] = k
    BY <1>2, <1>4, <1>5, <1>7, <1>9, FrameStep
  <1>11. Danger(file'.config) \subseteq consented
    BY <1>2, <1>7 DEF TaskFact
  <1>12. Kept(prev')
    BY <1>1, WholeIsJson DEF IInv, Typed
  <1>13. ASSUME ~overlapped
         PROVE  /\ SoloTask(k, file', backup', prev', writer', ui.phase)
                /\ BackupFacts' /\ ShownFacts' /\ ToldFacts'
    <2>1. /\ BackupFacts /\ ShownFacts /\ SoloTask(tasks[t], file, backup, prev, writer, ui.phase)
      BY <1>2, <1>13 DEF IInv, SoloFacts
    <2>2. tasks[t].op # "restore" => backup' = prev'
      BY <1>1, <2>1 DEF BackupFacts, SoloTask
    <2>3. tasks[t].op = "restore" => backup' = file'
      BY <1>1, <2>1 DEF SoloTask
    <2>4. SoloTask(k, file', backup', prev', writer', ui.phase)
      BY <1>1, <1>5, <2>1, <2>2 DEF SoloTask
    <2>5. BackupFacts'
      BY <1>7, <2>2, <2>3 DEF BackupFacts
    <2>6. ToldFacts'
      BY <1>5, <1>10 DEF ToldFacts, At
    <2>7. ShownFacts'
      <3>1. CASE tasks[t].by = "self"
        BY <1>5, <1>10, <3>1 DEF ShownFacts, At
      <3>2. CASE tasks[t].by # "self"
        <4>1. seen' => seen /\ file' = file
          BY <1>3, <3>2 DEF IInv, Typed
        <4>2. ~\E u \in TaskIds : tasks[u].step = "written"
          BY <1>1, <1>2, <1>13, IdleTask
        <4>3. UNCHANGED ui
          BY <1>10 DEF TaskStep
        <4> QED BY <2>1, <4>1, <4>2, <4>3 DEF ShownFacts, At
      <3> QED BY <3>1, <3>2
    <2> QED BY <2>4, <2>5, <2>6, <2>7
  <1>14. FilesStep(t, k)
    BY <1>1, <1>7, <1>10, <1>11, <1>12, <1>13 DEF FilesStep, IInv, Typed, DangerFacts
  <1> QED BY <1>10, <1>14, TaskStepKeeps

LEMMA RestoreBackupKeeps ==
    ASSUME IInv, NEW t \in TaskIds, StoreFrame(t), RestoreBackup(t) PROVE IInv'
  <1>1. tasks[t].step = "restore" /\ UNCHANGED <<file, backup, prev, writer, damaged>>
    BY DEF RestoreBackup, At
  <1>2. /\ tasks[t] \in TaskRecord /\ TaskFact(tasks[t], file, DOMAIN cache, consented, Env)
        /\ TaskShape(tasks[t]) /\ tasks[t] # Idle
        /\ ~overlapped => SoloTask(tasks[t], file, backup, prev, writer, ui.phase)
    BY <1>1, TaskKnown
  <1>3. tasks[t].op = "restore"
    BY <1>1, <1>2, IdleTask DEF TaskShape, Saves
  <1>4. CASE Whole(backup)
    <2> DEFINE k == [tasks[t] EXCEPT !.step = "write", !.config = backup.config]
    <2>1. tasks' = [tasks EXCEPT ![t] = k]
      BY <1>4 DEF RestoreBackup, IInv, Typed
    <2>2. /\ backup.config \in Configs /\ backup = Json(backup.config)
          /\ Danger(backup.config) \subseteq consented
      BY <1>4, WholeIsJson DEF IInv, Typed, Kept, DangerFacts
    <2>3. /\ k \in TaskRecord /\ k.step = "write" /\ k.op = "restore" /\ k.by = tasks[t].by
          /\ k.config = backup.config /\ k.read = tasks[t].read /\ k.live = tasks[t].live
          /\ k.base = tasks[t].base
      BY <1>2, <1>3, <2>2 DEF TaskRecord
    <2> HIDE DEF k, Env
    <2>4. TaskShape(k)
      BY <1>2, <1>3, <2>3, IdleTask DEF TaskShape, Saves
    <2>5. TaskFact(k, file, DOMAIN cache, consented, Env)
      BY <1>2, <2>2, <2>3, <2>4 DEF TaskFact, Saves
    <2>6. ~overlapped => SoloTask(k, file, backup, prev, writer, ui.phase)
      BY <1>2, <1>3, <2>2, <2>3 DEF SoloTask, Writes
    <2> QED BY <1>1, <1>3, <2>1, <2>3, <2>5, <2>6, QuietStep
  <1>5. CASE ~Whole(backup)
    <2>1. Fails(t)
      BY <1>5 DEF RestoreBackup, Fails, Goes, IInv, Typed
    <2> QED BY <1>1, <2>1, FailsKeeps
  <1> QED BY <1>4, <1>5

LEMMA StorageFailsKeeps ==
    ASSUME IInv, NEW t \in TaskIds, StoreFrame(t), StorageFails(t), seen' = seen PROVE IInv'
  <1>1. /\ tasks[t].step \notin {"idle", "written"} /\ Fails(t)
        /\ damaged' = (damaged \/ (tasks[t].step = "fill" /\ file = Torn))
        /\ UNCHANGED <<file, backup, prev, writer>>
    BY DEF StorageFails, At
  <1>2. CASE tasks[t].step # "fill"
    <2>1. damaged' = damaged
      BY <1>1, <1>2 DEF IInv, Typed
    <2> QED BY <1>1, <1>2, <2>1, FailsKeeps
  <1>3. CASE tasks[t].step = "fill"
    <2> DEFINE k == [tasks[t] EXCEPT !.step = "failed"]
    <2>1. tasks' = [tasks EXCEPT ![t] = k]
      BY <1>1 DEF Fails, Goes, IInv, Typed
    <2>2. /\ tasks[t] \in TaskRecord /\ TaskFact(tasks[t], file, DOMAIN cache, consented, Env)
          /\ ~overlapped => SoloTask(tasks[t], file, backup, prev, writer, ui.phase)
          /\ tasks[t] # Idle
      BY <1>3, TaskKnown
    <2>3. k = [tasks[t] EXCEPT !.step = "failed"] OBVIOUS
    <2> HIDE DEF k, Env
    <2>4. /\ k \in TaskRecord /\ k.step = "failed" /\ k.op = tasks[t].op /\ k.by = tasks[t].by
          /\ k.live = tasks[t].live /\ TaskFact(k, file, DOMAIN cache, consented, Env)
          /\ ~overlapped => SoloTask(k, file, backup, prev, writer, ui.phase)
      BY <1>3, <2>2, <2>3, FailedTask
    <2>5. TaskStep(t, k) /\ seen' \in BOOLEAN
      BY <1>1, <2>1, <2>2, <2>4, FrameStep
    <2>6. file.is = "torn" => damaged'
      BY <1>1, <1>3 DEF IInv, FileFacts
    <2>7. damaged' \in BOOLEAN
      BY <1>1 DEF IInv, Typed
    <2>8. FilesStep(t, k)
      BY <1>1, <1>3, <2>4, <2>5, <2>6, <2>7, QuietFiles
    <2> QED BY <2>5, <2>8, TaskStepKeeps
  <1> QED BY <1>2, <1>3

LEMMA StoreKeeps ==
    ASSUME IInv, NEW t \in TaskIds, StoreActs(t) \/ StorageFault(t) PROVE IInv'
  <1>1. CASE StoreActs(t)
    <2>1. /\ UNCHANGED <<ui, cache, confirmed, consented, overwritten, bound>> /\ StoreStep(t)
          /\ seen' = IF tasks[t].by = "other" THEN seen /\ file' = file
                     ELSE seen \/ tasks'[t].step \in {"loaded", "written"}
      BY <1>1 DEF StoreActs
    <2>2. UNCHANGED <<told, overlapped>>
      BY <2>1 DEF StoreStep, Load, Create, Fill, ReadValidCurrent, WriteBackup, WriteConfig,
                  RestoreBackup
    <2>3. EnvStays
      BY <2>1, EnvSame
    <2>4. StoreFrame(t)
      BY <2>1, <2>2, <2>3 DEF StoreFrame
    <2> QED BY <2>1, <2>4, LoadKeeps, CreateKeeps, FillKeeps, ReadValidCurrentKeeps,
               WriteBackupKeeps, WriteConfigKeeps, RestoreBackupKeeps DEF StoreStep
  <1>2. CASE StorageFault(t)
    <2>1. /\ UNCHANGED <<ui, cache, confirmed, consented, overwritten, seen, told, overlapped>>
          /\ StorageFails(t) /\ Spend("faults")
      BY <1>2 DEF StorageFault, StorageFails, uiVars
    <2>2. EnvStays
      BY <2>1, Spent DEF IInv
    <2>3. StoreFrame(t)
      BY <2>1, <2>2 DEF StoreFrame
    <2> QED BY <2>1, <2>3, StorageFailsKeeps
  <1> QED BY <1>1, <1>2

-----------------------------------------------------------------------------
(* Capabilities are resolved.                                              *)

\* What the cache holds under the key of a configuration is the snapshot of it.
LEMMA CachedIsOwn ==
    ASSUME CacheFiled, NEW c, CapabilityCacheKey(c) \in DOMAIN cache
    PROVE  /\ Resolve(cache[CapabilityCacheKey(c)].config, Env) = Resolve(c, Env)
           /\ CachedContext(c) = SnapshotContext(c)
           /\ CollectCapabilityIssues(c, CachedContext(c)) = Issues(c, Env)
  <1> DEFINE d == cache[CapabilityCacheKey(c)].config
  <1>1. CapabilityCacheKey(d) = CapabilityCacheKey(c)
    BY DEF CacheFiled
  <1>2. Resolve(d, Env) = Resolve(c, Env)
    BY <1>1, SameKeySameSnapshot
  <1>3. CachedContext(c) = SnapshotContext(c)
    BY <1>2 DEF CachedContext, SnapshotContext
  <1>4. Issues(c, Env) = CollectCapabilityIssues(c, SnapshotContext(c))
    BY DEF Issues, SnapshotContext
  <1> QED BY <1>2, <1>3, <1>4

LEMMA ApplyDraftKeeps == ASSUME IInv, NEW t \in TaskIds, ApplyDraft(t) PROVE IInv'
  <1> DEFINE c == tasks[t].config
             ok == ValidateConfigForSave(c, IF Env.selected THEN CachedContext(c) ELSE EmptyContext)
             s == IF ok THEN "current" ELSE "rejected"
             k == [tasks[t] EXCEPT !.step = s]
  <1>1. /\ tasks[t].op \in Saves /\ tasks[t].step = "resolving" /\ (Env.selected => Resolved(c))
        /\ Goes(t, s)
        /\ UNCHANGED <<file, backup, told, prev, writer, overlapped, damaged, bound>>
        /\ UNCHANGED <<ui, cache, confirmed, consented, overwritten, seen>>
    BY DEF ApplyDraft, At, Saves, uiVars
  <1>2. tasks' = [tasks EXCEPT ![t] = k]
    BY <1>1 DEF Goes, IInv, Typed
  <1>3. /\ tasks[t] \in TaskRecord /\ TaskFact(tasks[t], file, DOMAIN cache, consented, Env)
        /\ TaskShape(tasks[t])
        /\ ~overlapped => SoloTask(tasks[t], file, backup, prev, writer, ui.phase)
    BY TaskKnown
  <1>4. /\ k \in TaskRecord /\ k.step = s /\ k.op = tasks[t].op /\ k.by = tasks[t].by
        /\ k.config = c /\ k.read = tasks[t].read /\ k.live = tasks[t].live
        /\ k.base = tasks[t].base
    <2>1. tasks[t] \in TaskRecord /\ s \in Steps
      BY <1>3 DEF Steps
    <2>2. k = [tasks[t] EXCEPT !.step = s] OBVIOUS
    <2> HIDE DEF k, s
    <2> QED BY <2>1, <2>2, StepTo DEF c
  <1>5. s = "current" /\ Env.selected => Issues(c, Env) = {}
    <2>1. SUFFICES ASSUME ok, Env.selected PROVE Issues(c, Env) = {}
      OBVIOUS
    <2>2. CollectCapabilityIssues(c, CachedContext(c)) = {}
      BY <2>1 DEF ValidateConfigForSave
    <2>3. CapabilityCacheKey(c) \in DOMAIN cache
      BY <1>1, <2>1 DEF Resolved
    <2>4. CacheFiled BY DEF IInv
    <2> HIDE DEF c
    <2> QED BY <2>2, <2>3, <2>4, CachedIsOwn
  <1>6. s \in {"current", "rejected"}
    OBVIOUS
  <1>7. EnvStays
    BY <1>1, EnvSame
  <1>8. StoreFrame(t)
    <2> HIDE DEF EnvStays
    <2> QED BY <1>1, <1>7 DEF StoreFrame
  <1> HIDE DEF k, s, c, Env
  <1>9. TaskShape(k)
    <2>1. tasks[t] # Idle /\ tasks[t].by = "self"
      <3>1. tasks[t].step = "resolving" BY <1>1
      <3> QED BY <1>3, <3>1, IdleTask DEF TaskShape
    <2> QED BY <1>1, <1>3, <1>4, <1>6, <2>1, IdleTask DEF TaskShape, Saves, c
  <1>10. TaskFact(k, file, DOMAIN cache, consented, Env)
    BY <1>1, <1>3, <1>4, <1>5, <1>6, <1>9 DEF TaskFact, Saves, c
  <1>11. ~overlapped => SoloTask(k, file, backup, prev, writer, ui.phase)
    BY <1>1, <1>3, <1>4, <1>6 DEF SoloTask, Saves
  <1> QED BY <1>1, <1>2, <1>4, <1>6, <1>8, <1>10, <1>11, QuietStep

LEMMA ResolveForOverlayKeeps == ASSUME IInv, NEW t \in TaskIds, ResolveForOverlay(t) PROVE IInv'
  <1> DEFINE k == [tasks[t] EXCEPT !.step = "resolving"]
  <1>1. /\ tasks[t].op = "load" /\ tasks[t].by = "self" /\ tasks[t].step = "loaded" /\ Env.selected
        /\ Request(tasks[t].config) /\ Goes(t, "resolving")
        /\ UNCHANGED <<file, backup, told, prev, writer, overlapped, damaged, bound>>
        /\ UNCHANGED <<ui, confirmed, consented, overwritten, seen>>
    BY DEF ResolveForOverlay, At
  <1>2. tasks' = [tasks EXCEPT ![t] = k]
    BY <1>1 DEF Goes, IInv, Typed
  <1>3. /\ tasks[t] \in TaskRecord /\ TaskFact(tasks[t], file, DOMAIN cache, consented, Env)
        /\ TaskShape(tasks[t]) /\ tasks[t] # Idle
        /\ ~overlapped => SoloTask(tasks[t], file, backup, prev, writer, ui.phase)
    BY <1>1, TaskKnown
  <1>4. /\ k \in TaskRecord /\ k.step = "resolving" /\ k.op = "load" /\ k.by = "self"
        /\ k.config = tasks[t].config /\ k.read = tasks[t].read /\ k.live = tasks[t].live
        /\ k.base = tasks[t].base
    <2>1. tasks[t].op = "load" /\ tasks[t].by = "self" BY <1>1
    <2> QED BY <1>3, <2>1 DEF TaskRecord
  <1>5. /\ CacheFiled' /\ DOMAIN cache \subseteq DOMAIN cache'
        /\ CapabilityCacheKey(tasks[t].config) \in DOMAIN cache'
    <2>1. tasks[t].config \in Configs BY <1>3 DEF TaskRecord
    <2> QED BY <1>1, <2>1, RequestFiles DEF IInv
  <1>6. EnvStays
    BY <1>1, EnvSame
  <1> HIDE DEF k, Env, EnvStays
  <1>7. TaskShape(k)
    BY <1>1, <1>3, <1>4, IdleTask DEF TaskShape, Saves
  <1>8. TaskFact(k, file, DOMAIN cache', consented, Env)
    BY <1>1, <1>3, <1>4, <1>5, <1>7 DEF TaskFact, Saves
  <1>9. ~overlapped => SoloTask(k, file, backup, prev, writer, ui.phase)
    BY <1>1, <1>3, <1>4 DEF SoloTask, Writes
  <1>10. TaskStep(t, k)
    BY <1>1, <1>2, <1>3, <1>4, <1>5, <1>6, <1>8 DEF TaskStep
  <1>11. damaged' \in BOOLEAN /\ seen' \in BOOLEAN
    BY <1>1 DEF IInv, Typed
  <1>12. FilesStep(t, k)
    BY <1>1, <1>4, <1>9, <1>10, <1>11, QuietFiles
  <1> QED BY <1>10, <1>12, TaskStepKeeps

LEMMA ResolveSettlesKeeps == ASSUME IInv, NEW k \in DOMAIN cache, ResolveSettles(k) PROVE IInv'
  <1>1. /\ cache' = [cache EXCEPT ![k].ready = TRUE]
        /\ UNCHANGED <<file, backup, tasks, told, prev, writer, overlapped, damaged>>
        /\ UNCHANGED <<ui, confirmed, consented, overwritten, seen, bound>>
    BY DEF ResolveSettles, storeVars
  <1>2. CacheFiled' /\ DOMAIN cache' = DOMAIN cache
    <2>1. DOMAIN cache' = DOMAIN cache
      BY <1>1 DEF IInv, CacheFiled
    <2>2. ASSUME NEW l \in DOMAIN cache
          PROVE  /\ cache'[l] \in [ready : BOOLEAN, config : Configs]
                 /\ cache'[l].config = cache[l].config
      BY <1>1 DEF IInv, CacheFiled
    <2>3. cache' \in [DOMAIN cache' -> [ready : BOOLEAN, config : Configs]]
      BY <1>1, <2>1, <2>2 DEF IInv, CacheFiled
    <2> QED BY <2>1, <2>2, <2>3 DEF IInv, CacheFiled
  <1>3. EnvStays /\ Env' = Env
    BY <1>1, EnvSame DEF EnvStays
  <1>4. Typed'
    BY <1>1 DEF IInv, Typed
  <1>5. TaskFacts'
    <2> HIDE DEF Env
    <2> QED BY <1>1, <1>2, <1>3 DEF IInv, TaskFacts
  <1>6. FileFacts' /\ OverlayFacts' /\ LoadFacts'
    BY <1>1 DEF IInv, FileFacts, OverlayFacts, LoadFacts, At
  <1>7. RefusalFacts'
    <2> HIDE DEF Env
    <2> QED BY <1>1, <1>3 DEF IInv, RefusalFacts
  <1>8. DangerFacts'
    BY <1>1 DEF IInv, DangerFacts, Selected
  <1>9. SoloFacts'
    BY <1>1 DEF IInv, SoloFacts, Alone, SoloTasks, BackupFacts, ShownFacts, ToldFacts, At
  <1> QED BY <1>2, <1>4, <1>5, <1>6, <1>7, <1>8, <1>9 DEF IInv

\* A task that stops waiting for a resolution says no more about the files.
LEMMA WaitFails ==
    ASSUME NEW k \in TaskRecord, k.step = "resolving", NEW f, NEW keys, NEW policies, NEW e,
           TaskFact(k, f, keys, policies, e), NEW others,
           NEW j, j = [k EXCEPT !.step = IF k.op = "load" THEN "unresolved" ELSE "failed"]
    PROVE  /\ j \in TaskRecord /\ j.step \notin {"fill", "written"} /\ j.op = k.op /\ j.by = k.by
           /\ j.live = k.live
           /\ TaskFact(j, f, others, policies, e)
           /\ \A b, p, w, phase :
                 SoloTask(k, f, b, p, w, phase) => SoloTask(j, f, b, p, w, phase)
  <1> DEFINE s == IF k.op = "load" THEN "unresolved" ELSE "failed"
  <1>1. s \in Steps /\ (k.op = "load" => s = "unresolved") /\ (k.op # "load" => s = "failed")
    BY DEF Steps
  <1>2. j = [k EXCEPT !.step = s] OBVIOUS
  <1> HIDE DEF s
  <1>3. /\ j \in TaskRecord /\ j.step = s /\ j.op = k.op /\ j.by = k.by
        /\ j.config = k.config /\ j.read = k.read /\ j.live = k.live /\ j.base = k.base
    BY <1>1, <1>2, StepTo
  <1>4. k # Idle /\ TaskShape(k) /\ k.by = "self"
    BY IdleTask DEF TaskFact, TaskShape
  <1>5. TaskShape(j)
    BY <1>1, <1>3, <1>4, IdleTask DEF TaskShape, Saves
  <1>6. TaskFact(j, f, others, policies, e)
    BY <1>1, <1>3, <1>5 DEF TaskFact
  <1>7. ASSUME NEW b, NEW p, NEW w, NEW phase, SoloTask(k, f, b, p, w, phase)
        PROVE  SoloTask(j, f, b, p, w, phase)
    BY <1>1, <1>3, <1>7 DEF SoloTask
  <1> QED BY <1>1, <1>3, <1>6, <1>7

LEMMA ResolveFailsKeeps == ASSUME IInv, NEW k \in DOMAIN cache, ResolveFails(k) PROVE IInv'
  <1> DEFINE Waits(u) == tasks[u].step = "resolving" /\ CapabilityCacheKey(tasks[u].config) = k
  <1>1. /\ Spend("faults") /\ cache' = [l \in DOMAIN cache \ {k} |-> cache[l]]
        /\ tasks' = [u \in TaskIds |->
              IF Waits(u)
              THEN [tasks[u] EXCEPT !.step = IF tasks[u].op = "load" THEN "unresolved" ELSE "failed"]
              ELSE tasks[u]]
        /\ UNCHANGED <<file, backup, told, prev, writer, overlapped, damaged>>
        /\ UNCHANGED <<ui, confirmed, consented, overwritten, seen>>
    BY DEF ResolveFails, At
  <1>2. CacheFiled' /\ DOMAIN cache' = DOMAIN cache \ {k}
    BY <1>1 DEF IInv, CacheFiled
  <1>3. EnvStays /\ Env' = Env
    BY <1>1, Spent DEF IInv, EnvStays
  <1>4. ASSUME NEW u \in TaskIds
        PROVE  /\ tasks'[u] \in TaskRecord /\ tasks'[u].op = tasks[u].op /\ tasks'[u].by = tasks[u].by
               /\ tasks'[u].live = tasks[u].live
               /\ tasks'[u].step \in {"fill", "written"} <=> tasks[u].step \in {"fill", "written"}
               /\ tasks[u].step \in {"fill", "written"} => tasks'[u].step = tasks[u].step
               /\ tasks[u] = Idle => tasks'[u] = Idle
               /\ TaskFact(tasks'[u], file, DOMAIN cache', consented, Env)
               /\ ~overlapped => SoloTask(tasks'[u], file, backup, prev, writer, ui.phase)
    <2>1. /\ tasks[u] \in TaskRecord /\ TaskFact(tasks[u], file, DOMAIN cache, consented, Env)
          /\ ~overlapped => SoloTask(tasks[u], file, backup, prev, writer, ui.phase)
      BY TaskKnown
    <2>2. CASE Waits(u)
      <3> DEFINE j == [tasks[u] EXCEPT !.step = IF tasks[u].op = "load" THEN "unresolved"
                                                                        ELSE "failed"]
      <3>1. tasks'[u] = j /\ tasks[u].step = "resolving"
        BY <1>1, <2>2
      <3>2. j = [tasks[u] EXCEPT !.step = IF tasks[u].op = "load" THEN "unresolved" ELSE "failed"]
        OBVIOUS
      <3>3. tasks[u] # Idle
        BY <3>1, IdleTask
      <3> HIDE DEF j, Env
      <3>4. /\ j \in TaskRecord /\ j.step \notin {"fill", "written"} /\ j.op = tasks[u].op
            /\ j.by = tasks[u].by /\ j.live = tasks[u].live
            /\ TaskFact(j, file, DOMAIN cache', consented, Env)
            /\ \A b, p, w, phase :
                  SoloTask(tasks[u], file, b, p, w, phase) => SoloTask(j, file, b, p, w, phase)
        BY <2>1, <3>1, <3>2, WaitFails
      <3> QED BY <2>1, <3>1, <3>3, <3>4
    <2>3. CASE ~Waits(u)
      <3>1. tasks'[u] = tasks[u]
        BY <1>1, <2>3
      <3>2. tasks[u].step = "resolving" /\ CapabilityCacheKey(tasks[u].config) \in DOMAIN cache
               => CapabilityCacheKey(tasks[u].config) \in DOMAIN cache'
        BY <1>2, <2>3
      <3> HIDE DEF Env
      <3>3. TaskFact(tasks[u], file, DOMAIN cache', consented, Env)
        BY <2>1, <3>2, TaskFactStays
      <3> QED BY <2>1, <3>1, <3>3
    <2> QED BY <2>2, <2>3
  <1>5. tasks' \in [TaskIds -> TaskRecord]
    <2>1. tasks' = [u \in TaskIds |-> tasks'[u]]
      BY <1>1
    <2> QED BY <2>1, <1>4
  <1> HIDE DEF Waits
  <1>6. Typed'
    BY <1>1, <1>3, <1>5 DEF IInv, Typed, EnvStays
  <1>7. TaskFacts'
    <2> HIDE DEF Env
    <2> QED BY <1>1, <1>3, <1>4 DEF TaskFacts
  <1>8. FileFacts'
    BY <1>1, <1>4 DEF IInv, FileFacts, At
  <1>9. OverlayFacts' /\ LoadFacts'
    BY <1>1, <1>4 DEF IInv, OverlayFacts, LoadFacts, SelfLoad
  <1>10. RefusalFacts'
    <2> HIDE DEF Env
    <2> QED BY <1>1, <1>3 DEF IInv, RefusalFacts
  <1>11. DangerFacts'
    BY <1>1 DEF IInv, DangerFacts, Selected
  <1>12. SoloFacts'
    <2>1. SUFFICES ASSUME ~overlapped
                   PROVE  Alone' /\ SoloTasks' /\ BackupFacts' /\ ShownFacts' /\ ToldFacts'
      BY <1>1 DEF SoloFacts
    <2>2. Alone /\ BackupFacts /\ ShownFacts /\ ToldFacts
      BY <2>1 DEF IInv, SoloFacts
    <2>3. Alone'
      BY <1>4, <2>2 DEF Alone
    <2>4. SoloTasks'
      BY <1>1, <1>4, <2>1 DEF SoloTasks
    <2>5. BackupFacts'
      BY <1>1, <2>2 DEF BackupFacts
    <2>6. \A u \in TaskIds : tasks'[u].step = "written" <=> tasks[u].step = "written"
      BY <1>4
    <2>7. ShownFacts' /\ ToldFacts'
      BY <1>1, <1>4, <2>2, <2>6 DEF ShownFacts, ToldFacts, At
    <2> QED BY <2>3, <2>4, <2>5, <2>7
  <1> QED BY <1>2, <1>6, <1>7, <1>8, <1>9, <1>10, <1>11, <1>12 DEF IInv

-----------------------------------------------------------------------------
(* This process dies: its tasks, its cache and its overlay are gone.       *)

LEMMA CrashKeeps == ASSUME IInv, CrashAndRestart PROVE IInv'
  <1>1. /\ Spend("faults") /\ ui' = Closed /\ cache' = <<>> /\ seen' = TRUE /\ told' = {}
        /\ damaged' = (damaged \/ \E t \in Running : At(t, "fill") /\ tasks[t].by = "self"
                                                     /\ file = Torn)
        /\ tasks' = [t \in TaskIds |-> IF tasks[t].by = "self" THEN Idle ELSE tasks[t]]
        /\ UNCHANGED <<file, backup, prev, writer, overlapped, confirmed, consented, overwritten>>
    BY DEF CrashAndRestart, Crash
  <1>2. DOMAIN cache' = {} /\ CacheFiled'
    BY <1>1 DEF CacheFiled
  <1>3. EnvStays /\ Env' = Env
    BY <1>1, Spent DEF IInv, EnvStays
  <1>4. \A u \in TaskIds : tasks'[u] = Idle \/ (tasks'[u] = tasks[u] /\ tasks[u].by # "self")
    BY <1>1
  <1>5. \A u \in TaskIds : tasks[u].by # "self" => tasks'[u] = tasks[u]
    BY <1>1
  <1>6. \A u \in TaskIds : tasks[u] \in TaskRecord /\ TaskShape(tasks[u])
                           /\ (tasks[u].step # "idle" => tasks[u] # Idle)
    BY TaskKnown
  <1>7. Typed'
    <2>1. tasks' \in [TaskIds -> TaskRecord]
      BY <1>1, <1>6, IdleTask
    <2>2. damaged' \in BOOLEAN
      BY <1>1 DEF IInv, Typed
    <2> QED BY <1>1, <1>3, <2>1, <2>2, ClosedOverlay DEF IInv, Typed, EnvStays
  <1>8. TaskFacts'
    <2>1. SUFFICES ASSUME NEW u \in TaskIds
                   PROVE  TaskFact(tasks'[u], file, {}, consented, Env)
      <3> HIDE DEF Env
      <3> QED BY <1>1, <1>2, <1>3 DEF TaskFacts
    <2>2. CASE tasks'[u] = Idle
      <3> HIDE DEF Env
      <3> QED BY <2>2, IdleFacts
    <2>3. CASE tasks'[u] = tasks[u] /\ tasks[u].by # "self"
      <3>1. TaskFact(tasks[u], file, DOMAIN cache, consented, Env)
        BY TaskKnown
      <3>2. tasks[u].step # "resolving"
        BY <1>6, <2>3 DEF TaskShape
      <3> HIDE DEF Env
      <3>3. TaskFact(tasks[u], file, {}, consented, Env)
        BY <3>1, <3>2, TaskFactStays
      <3> QED BY <2>3, <3>3
    <2> QED BY <1>4, <2>2, <2>3
  <1>9. FileFacts'
    <2>1. ui'.phase # "open" /\ told' = {}
      BY <1>1, ClosedOverlay
    <2>2. ASSUME file'.is = "torn", ~damaged'
          PROVE  file' = Torn /\ \E u \in TaskIds : At(u, "fill")'
      <3>1. file = Torn /\ ~damaged
        BY <1>1, <2>2 DEF IInv, FileFacts, Typed
      <3>2. PICK u \in TaskIds : tasks[u].step = "fill"
        BY <1>1, <2>2, <3>1 DEF IInv, FileFacts, At
      <3>3. tasks[u] # Idle
        BY <1>6, <3>2
      <3>4. tasks[u].by # "self"
        BY <1>1, <2>2, <3>1, <3>2, <3>3 DEF Running, At
      <3> QED BY <1>1, <1>5, <3>1, <3>2, <3>4 DEF At
    <2> QED BY <2>1, <2>2 DEF FileFacts
  <1>10. OverlayFacts' /\ LoadFacts' /\ RefusalFacts'
    <2>1. \A u \in TaskIds : tasks'[u].op \in Writes => ~tasks'[u].live
      BY <1>4, <1>6, IdleTask DEF TaskShape, Writes
    <2>2. \A u \in TaskIds : ~SelfLoad(tasks'[u])
      BY <1>4, IdleTask DEF SelfLoad
    <2> QED BY <1>1, <2>1, <2>2, ClosedOverlay DEF OverlayFacts, LoadFacts, RefusalFacts
  <1>11. DangerFacts'
    BY <1>1, ClosedOverlay DEF IInv, DangerFacts
  <1>12. SoloFacts'
    <2>1. SUFFICES ASSUME ~overlapped
                   PROVE  Alone' /\ SoloTasks' /\ BackupFacts' /\ ShownFacts' /\ ToldFacts'
      BY <1>1 DEF SoloFacts
    <2>2. Alone /\ SoloTasks /\ BackupFacts
      BY <2>1 DEF IInv, SoloFacts
    <2>3. Alone'
      BY <1>4, <2>2 DEF Alone
    <2>4. ASSUME NEW u \in TaskIds
          PROVE  SoloTask(tasks'[u], file, backup, prev, writer, ui'.phase)
      <3>1. CASE tasks'[u] = Idle
        BY <3>1, IdleSolo
      <3>2. CASE tasks'[u] = tasks[u] /\ tasks[u].by # "self"
        BY <2>2, <3>2 DEF SoloTasks, SoloTask
      <3> QED BY <1>4, <3>1, <3>2
    <2>5. SoloTasks'
      BY <1>1, <2>4 DEF SoloTasks
    <2>6. BackupFacts' /\ ShownFacts' /\ ToldFacts'
      BY <1>1, <2>2, ClosedOverlay DEF BackupFacts, ShownFacts, ToldFacts
    <2> QED BY <2>3, <2>5, <2>6
  <1> QED BY <1>2, <1>7, <1>8, <1>9, <1>10, <1>11, <1>12 DEF IInv

-----------------------------------------------------------------------------
(* A task ends.                                                            *)

\* What an end of t does to the tasks, the listeners and the files: a write of this
\* process is told, one that failed or was made elsewhere is not.
EndFrame(t) ==
    /\ tasks[t] # Idle /\ tasks[t].step # "fill"
    /\ tasks' \in [TaskIds -> TaskRecord] /\ tasks'[t] = Idle
    /\ \A u \in TaskIds : u # t => tasks'[u] = tasks[u] \/ tasks'[u] = Detached(tasks[u])
    /\ \/ tasks[t].step = "written" /\ tasks[t].by = "self" /\ told' = {tasks[t].config}
       \/ told' = told /\ (tasks[t].step = "written" => tasks[t].by = "other")
    /\ EnvStays
    /\ UNCHANGED <<file, backup, prev, writer, overlapped, damaged, cache, consented, seen>>

\* How the overlay may look after an end of t.
EndOverlay(t) ==
    /\ ui' \in Overlay /\ confirmed' \subseteq Policies /\ overwritten' \in BOOLEAN
    /\ ui'.dialog = None \/ (ui'.dialog = ui.dialog /\ ui'.phase = ui.phase /\ ui'.prompt = ui.prompt)
    /\ ui'.phase # "open" => \A u \in TaskIds : tasks'[u].op \in Writes => ~tasks'[u].live
    /\ \A u \in TaskIds : u # t /\ SelfLoad(tasks[u]) => ui'.phase = "opening"
    /\ RefusalFacts'
    /\ ui'.phase = "open" =>
          /\ Whole(file)
          /\ ui'.state \in Clean => ui'.draft = ui'.saved
          /\ ~overwritten' => Danger(ui'.draft) \subseteq confirmed'
          /\ Danger(ui'.draft) \subseteq consented
          /\ ~overlapped /\ seen /\ ui'.state \in Clean => file = Json(ui'.saved)

LEMMA EndKeeps == ASSUME IInv, NEW t \in TaskIds, EndFrame(t), EndOverlay(t) PROVE IInv'
  <1>1. UNCHANGED <<file, backup, prev, writer, overlapped, damaged, cache, consented, seen>>
    BY DEF EndFrame
  <1>2. tasks'[t] = Idle /\ tasks' \in [TaskIds -> TaskRecord] /\ tasks[t] # Idle
    BY DEF EndFrame
  <1>3. ASSUME NEW u \in TaskIds, u # t
        PROVE  /\ tasks'[u].op = tasks[u].op /\ tasks'[u].by = tasks[u].by
               /\ tasks'[u].step = tasks[u].step /\ (tasks[u] = Idle => tasks'[u] = Idle)
               /\ TaskFact(tasks'[u], file, DOMAIN cache, consented, Env)
    <2>1. tasks[u] \in TaskRecord /\ TaskFact(tasks[u], file, DOMAIN cache, consented, Env)
      BY TaskKnown
    <2>2. CASE tasks'[u] = tasks[u]
      BY <2>1, <2>2
    <2>3. CASE tasks'[u] = Detached(tasks[u])
      <3> HIDE DEF Env
      <3> QED BY <2>1, <2>3, DetachedTask, DetachedFact
    <2> QED BY <1>3, <2>2, <2>3 DEF EndFrame
  <1>4. Env' = Env
    BY DEF EndFrame, EnvStays
  <1>5. ~overlapped => \A u \in TaskIds : tasks'[u] = Idle
    <2>1. ~overlapped => \A u \in TaskIds : u # t => tasks[u] = Idle
      BY <1>2, TaskKnown
    <2> QED BY <1>2, <1>3, <2>1
  <1>6. told' \subseteq Configs /\ (told' # {} => Whole(file))
    <2>1. CASE tasks[t].step = "written" /\ told' = {tasks[t].config}
      <3>1. TaskFact(tasks[t], file, DOMAIN cache, consented, Env) /\ tasks[t] \in TaskRecord
        BY TaskKnown
      <3>2. tasks[t].config \in Configs /\ Whole(file)
        BY <2>1, <3>1 DEF TaskFact, TaskRecord
      <3> QED BY <2>1, <3>2
    <2>2. CASE told' = told
      BY <2>2 DEF IInv, Typed, FileFacts
    <2> QED BY <2>1, <2>2 DEF EndFrame
  <1>7. Typed'
    BY <1>1, <1>2, <1>6 DEF IInv, Typed, EndFrame, EndOverlay, EnvStays
  <1>8. CacheFiled'
    BY <1>1 DEF IInv, CacheFiled
  <1>9. TaskFacts'
    <2>1. ASSUME NEW u \in TaskIds
          PROVE  TaskFact(tasks'[u], file, DOMAIN cache, consented, Env)
      <3>1. CASE u = t
        <4> HIDE DEF Env
        <4> QED BY <1>2, <3>1, IdleFacts
      <3> QED BY <1>3, <3>1
    <2> HIDE DEF Env
    <2> QED BY <1>1, <1>4, <2>1 DEF TaskFacts
  <1>10. FileFacts'
    <2>1. ui'.phase = "open" \/ told' # {} => Whole(file)
      BY <1>6 DEF EndOverlay
    <2>2. ASSUME file.is = "torn", ~damaged PROVE file = Torn /\ \E u \in TaskIds : tasks'[u].step = "fill"
      <3>1. file = Torn BY <2>2 DEF IInv, FileFacts
      <3>2. PICK u \in TaskIds : tasks[u].step = "fill"
        BY <2>2 DEF IInv, FileFacts, At
      <3>3. u # t BY <3>2 DEF EndFrame
      <3> QED BY <1>3, <3>1, <3>2, <3>3
    <2> QED BY <1>1, <2>1, <2>2 DEF FileFacts, At
  <1>11. OverlayFacts'
    BY NoDialog DEF IInv, OverlayFacts, EndOverlay
  <1>12. LoadFacts'
    <2>1. \A u \in TaskIds : SelfLoad(tasks'[u]) => u # t /\ SelfLoad(tasks[u])
      BY <1>2, <1>3, IdleTask DEF SelfLoad
    <2>2. \A u \in TaskIds : u # t /\ SelfLoad(tasks[u]) => ui'.phase = "opening"
      BY DEF EndOverlay
    <2>3. \A u, v \in TaskIds : SelfLoad(tasks[u]) /\ SelfLoad(tasks[v]) => u = v
      BY DEF IInv, LoadFacts
    <2> HIDE DEF SelfLoad
    <2> QED BY <2>1, <2>2, <2>3 DEF LoadFacts
  <1>13. RefusalFacts'
    BY DEF EndOverlay
  <1>14. DangerFacts'
    <2>1. ui'.dialog # None => Selected' = Selected /\ ui.dialog # None
      BY DEF Selected, EndOverlay
    <2> HIDE DEF Selected
    <2> QED BY <1>1, <2>1 DEF IInv, DangerFacts, EndOverlay
  <1>15. SoloFacts'
    <2>1. SUFFICES ASSUME ~overlapped
                   PROVE  Alone' /\ SoloTasks' /\ BackupFacts' /\ ShownFacts' /\ ToldFacts'
      BY <1>1 DEF SoloFacts
    <2>2. \A u \in TaskIds : tasks'[u] = Idle
      BY <1>5, <2>1
    <2>3. Alone' /\ SoloTasks'
      BY <2>2, IdleSolo DEF Alone, SoloTasks
    <2>4. BackupFacts' /\ ShownFacts'
      BY <1>1, <2>1 DEF IInv, SoloFacts, BackupFacts, ShownFacts, EndOverlay
    <2>5. ToldFacts'
      <3>1. CASE tasks[t].step = "written" /\ tasks[t].by = "self" /\ told' = {tasks[t].config}
        <4>1. SoloTask(tasks[t], file, backup, prev, writer, ui.phase) /\ tasks[t] \in TaskRecord
          BY <2>1, TaskKnown
        <4>2. file = Json(tasks[t].config) /\ tasks[t].config \in Configs
          BY <3>1, <4>1 DEF SoloTask, TaskRecord
        <4>3. told' = {file.config}
          BY <3>1, <4>2, JsonIsWhole
        <4> QED BY <1>1, <4>3 DEF ToldFacts
      <3>2. CASE told' = told /\ tasks[t].step # "written"
        <4>1. \A u \in TaskIds : tasks[u].step # "written"
          BY <2>1, <3>2, TaskKnown, <1>2, IdleTask
        <4> QED BY <1>1, <2>1, <3>2, <4>1 DEF IInv, SoloFacts, ToldFacts, At
      <3>3. CASE tasks[t].step = "written" /\ tasks[t].by = "other"
        <4>1. SoloTask(tasks[t], file, backup, prev, writer, ui.phase)
          BY <2>1, TaskKnown
        <4>2. writer = "other"
          BY <3>3, <4>1 DEF SoloTask
        <4> QED BY <1>1, <4>2 DEF ToldFacts
      <3> QED BY <3>1, <3>2, <3>3 DEF EndFrame
    <2> QED BY <2>3, <2>4, <2>5
  <1> QED BY <1>7, <1>8, <1>9, <1>10, <1>11, <1>12, <1>13, <1>14, <1>15 DEF IInv

\* The plain end of a task.
LEMMA EndsIdle ==
    ASSUME IInv, NEW t \in TaskIds, Ends(t)
    PROVE  /\ tasks' \in [TaskIds -> TaskRecord] /\ tasks'[t] = Idle
           /\ \A u \in TaskIds : u # t => tasks'[u] = tasks[u]
  BY IdleTask DEF Ends, IInv, Typed

\* An end that leaves the overlay alone: it was not the work of an open overlay.
LEMMA DroppedEnd ==
    ASSUME IInv, NEW t \in TaskIds, EndFrame(t), UNCHANGED <<ui, confirmed>>,
           overwritten' = overwritten, \A u \in TaskIds : u # t => tasks'[u] = tasks[u],
           ~SelfLoad(tasks[t]),
           ~overlapped /\ ui.phase = "open" => ~(tasks[t].step = "written" /\ tasks[t].by = "self")
    PROVE  IInv'
  <1>1. Env' = Env
    BY DEF EndFrame, EnvStays
  <1>2. RefusalFacts'
    <2> HIDE DEF Env
    <2> QED BY <1>1 DEF IInv, RefusalFacts
  <1>3. \A u \in TaskIds : tasks'[u].op \in Writes => tasks'[u] = tasks[u]
    BY IdleTask DEF EndFrame, Writes
  <1>4. ui.phase # "open" => \A u \in TaskIds : tasks'[u].op \in Writes => ~tasks'[u].live
    BY <1>3 DEF IInv, OverlayFacts
  <1>5. \A u \in TaskIds : SelfLoad(tasks[u]) => ui.phase = "opening"
    BY DEF IInv, LoadFacts
  <1>6. ui.phase = "open" => /\ Whole(file)
                             /\ ui.state \in Clean => ui.draft = ui.saved
                             /\ ~overwritten => Danger(ui.draft) \subseteq confirmed
                             /\ Danger(ui.draft) \subseteq consented
    BY DEF IInv, FileFacts, OverlayFacts, DangerFacts
  <1>7. ui.phase = "open" /\ ~overlapped /\ seen /\ ui.state \in Clean => file = Json(ui.saved)
    <2>1. SUFFICES ASSUME ui.phase = "open", ~overlapped, seen, ui.state \in Clean
                   PROVE  file = Json(ui.saved)
      OBVIOUS
    <2>2. ShownFacts
      BY <2>1 DEF IInv, SoloFacts
    <2>3. \A u \in TaskIds : ~(tasks[u].step = "written" /\ tasks[u].by = "self")
      <3>1. tasks[t] # Idle BY DEF EndFrame
      <3>2. \A u \in TaskIds : u # t => tasks[u] = Idle
        BY <2>1, <3>1, TaskKnown
      <3> QED BY <2>1, <3>2, IdleTask
    <2> QED BY <2>1, <2>2, <2>3 DEF ShownFacts, At
  <1>8. ui \in Overlay /\ confirmed \subseteq Policies /\ overwritten \in BOOLEAN
    BY DEF IInv, Typed
  <1>9. EndOverlay(t)
    <2> HIDE DEF RefusalFacts, SelfLoad
    <2> QED BY <1>2, <1>4, <1>5, <1>6, <1>7, <1>8 DEF EndOverlay
  <1> QED BY <1>9, EndKeeps

LEMMA RestoreEndsKeeps == ASSUME IInv, NEW t \in TaskIds, RestoreEnds(t) PROVE IInv'
  <1>1. /\ tasks[t].op = "restore" /\ tasks[t].step \in {"written", "failed"} /\ Ends(t)
        /\ (tasks[t].step = "written" => told' = {tasks[t].config})
        /\ (tasks[t].step # "written" => told' = told)
        /\ UNCHANGED <<file, backup, prev, writer, overlapped, damaged, bound>>
        /\ UNCHANGED <<ui, cache, confirmed, consented, overwritten, seen>>
    BY DEF RestoreEnds, At, Notify, uiVars
  <1>2. /\ TaskShape(tasks[t]) /\ tasks[t] # Idle
        /\ ~overlapped => SoloTask(tasks[t], file, backup, prev, writer, ui.phase)
    BY <1>1, TaskKnown
  <1>3. tasks[t].by = "self"
    BY <1>1, <1>2 DEF TaskShape
  <1>4. EnvStays
    BY <1>1, EnvSame
  <1> HIDE DEF EnvStays
  <1>5. EndFrame(t)
    BY <1>1, <1>2, <1>3, <1>4, EndsIdle DEF EndFrame
  <1>6. ~overlapped => ui.phase # "open"
    BY <1>1, <1>2, <1>3 DEF SoloTask
  <1>7. ~SelfLoad(tasks[t])
    BY <1>1 DEF SelfLoad
  <1> QED BY <1>1, <1>5, <1>6, <1>7, EndsIdle, DroppedEnd

LEMMA OtherTaskEndsKeeps == ASSUME IInv, NEW t \in TaskIds, OtherTaskEnds(t) PROVE IInv'
  <1>1. /\ tasks[t].by = "other" /\ tasks[t].step \in {"loaded", "written", "failed"} /\ Ends(t)
        /\ UNCHANGED <<file, backup, told, prev, writer, overlapped, damaged, bound>>
        /\ UNCHANGED <<ui, cache, confirmed, consented, overwritten, seen>>
    BY DEF OtherTaskEnds, OtherEnds, uiVars
  <1>2. tasks[t] # Idle
    BY <1>1, TaskKnown
  <1>3. EnvStays
    BY <1>1, EnvSame
  <1> HIDE DEF EnvStays
  <1>4. EndFrame(t)
    BY <1>1, <1>2, <1>3, EndsIdle DEF EndFrame
  <1>5. ~SelfLoad(tasks[t])
    BY <1>1 DEF SelfLoad
  <1> QED BY <1>1, <1>4, <1>5, EndsIdle, DroppedEnd

\* While a load of this process runs nothing an overlay started is live.
LEMMA Opening ==
    ASSUME IInv, NEW t \in TaskIds, SelfLoad(tasks[t]), Ends(t)
    PROVE  /\ ui.phase = "opening"
           /\ \A u \in TaskIds : u # t => ~SelfLoad(tasks[u])
           /\ \A u \in TaskIds : tasks'[u].op \in Writes => ~tasks'[u].live
  <1>1. ui.phase = "opening"
    BY DEF IInv, LoadFacts
  <1>2. \A u \in TaskIds : u # t => ~SelfLoad(tasks[u])
    BY DEF IInv, LoadFacts
  <1>3. \A u \in TaskIds : tasks'[u].op \in Writes => ~tasks'[u].live
    BY <1>1, EndsIdle, IdleTask DEF IInv, OverlayFacts, Writes
  <1> QED BY <1>1, <1>2, <1>3

LEMMA LoadFailedKeeps == ASSUME IInv, NEW t \in TaskIds, LoadFailed(t) PROVE IInv'
  <1>1. /\ tasks[t].op = "load" /\ tasks[t].by = "self" /\ tasks[t].step = "failed" /\ Ends(t)
        /\ ui' = Closed
        /\ UNCHANGED <<file, backup, told, prev, writer, overlapped, damaged, bound>>
        /\ UNCHANGED <<cache, confirmed, consented, overwritten, seen>>
    BY DEF LoadFailed, At
  <1>2. tasks[t] # Idle
    BY <1>1, TaskKnown
  <1>3. EnvStays
    BY <1>1, EnvSame
  <1>4. SelfLoad(tasks[t])
    BY <1>1 DEF SelfLoad
  <1> HIDE DEF EnvStays
  <1>5. EndFrame(t)
    BY <1>1, <1>2, <1>3, EndsIdle DEF EndFrame
  <1>6. RefusalFacts'
    BY <1>1, ClosedOverlay DEF RefusalFacts
  <1>7. EndOverlay(t)
    <2>1. confirmed' \subseteq Policies /\ overwritten' \in BOOLEAN
      BY <1>1 DEF IInv, Typed
    <2>2. /\ \A u \in TaskIds : u # t => ~SelfLoad(tasks[u])
          /\ \A u \in TaskIds : tasks'[u].op \in Writes => ~tasks'[u].live
      BY <1>1, <1>4, Opening
    <2> HIDE DEF RefusalFacts, SelfLoad
    <2> QED BY <1>1, <1>6, <2>1, <2>2, ClosedOverlay DEF EndOverlay
  <1> QED BY <1>5, <1>7, EndKeeps

\* The rows an overlay disables are settings, or the command of one.
LEMMA DisabledAreRows ==
    ASSUME NEW c, NEW x
    PROVE  /\ DisabledReasons(c, x) \in SUBSET Disablable
           /\ Unsupported(c, x) \subseteq DisabledReasons(c, x)
  <1> DEFINE open == Unsupported(c, x)
  <1>1. open \subseteq Disablable
    BY DEF Unsupported, EvaluateConfigSettings, Disablable
  <1>2. "compactNow" \in Disablable
    BY DEF Disablable
  <1>3. DisabledReasons(c, x) = open \cup (IF "compaction" \in open THEN {"compactNow"} ELSE {})
    BY DEF DisabledReasons
  <1> HIDE DEF open
  <1>4. DisabledReasons(c, x) \subseteq Disablable /\ open \subseteq DisabledReasons(c, x)
    BY <1>1, <1>2, <1>3
  <1> QED BY <1>4 DEF open

LEMMA OpensKeeps ==
    ASSUME IInv, NEW t \in TaskIds, SelfLoad(tasks[t]), NEW checked \in BOOLEAN,
           NEW disabled \in SUBSET Disablable, Opens(t, checked, disabled),
           tasks[t].step \in {"resolving", "loaded", "unresolved"},
           checked => Env.selected /\ Explicable(tasks[t].config, Env) \subseteq disabled,
           UNCHANGED <<file, backup, told, prev, writer, overlapped, damaged>>,
           UNCHANGED <<cache, consented, seen, bound>>
    PROVE  IInv'
  <1> DEFINE c == tasks[t].config
  <1>1. /\ ui' = [Closed EXCEPT !.phase = "open", !.draft = c, !.saved = c,
                                !.disabled = disabled, !.checked = checked,
                                !.active = FormatActivationStatus(c)]
        /\ confirmed' = Danger(c) /\ overwritten' = FALSE /\ Ends(t)
    BY DEF Opens
  <1>2. /\ tasks[t] \in TaskRecord /\ TaskFact(tasks[t], file, DOMAIN cache, consented, Env)
        /\ tasks[t] # Idle
        /\ ~overlapped => SoloTask(tasks[t], file, backup, prev, writer, ui.phase)
    BY TaskKnown
  <1>3. EnvStays /\ Env' = Env
    BY EnvSame DEF EnvStays
  <1>4. c \in Configs /\ c \in CodexConfig
    BY <1>2 DEF TaskRecord, Configs
  <1>5. FormatActivationStatus(c) \in BOOLEAN
    BY DEF FormatActivationStatus
  <1>6. /\ ui' \in Overlay /\ ui'.phase = "open" /\ ui'.draft = c /\ ui'.saved = c
        /\ ui'.disabled = disabled /\ ui'.checked = checked /\ ui'.dialog = None
    <2> HIDE DEF c, FormatActivationStatus
    <2> QED BY <1>1, <1>4, <1>5, ClosedOverlay DEF Overlay
  <1>7. Whole(file)
    BY <1>2 DEF TaskFact, SelfLoad
  <1>8. Danger(c) \subseteq consented
    BY <1>2 DEF TaskFact
  <1>9. ~overlapped => file = Json(c)
    BY <1>2 DEF SoloTask, SelfLoad
  <1>10. RefusalFacts'
    <2> HIDE DEF Env
    <2> QED BY <1>3, <1>6 DEF RefusalFacts
  <1> HIDE DEF EnvStays, c
  <1>11. EndFrame(t)
    BY <1>1, <1>2, <1>3, EndsIdle DEF EndFrame
  <1>12. EndOverlay(t)
    <2>1. \A u \in TaskIds : u # t => ~SelfLoad(tasks[u])
      BY <1>1, Opening
    <2>2. confirmed' \subseteq Policies
      BY <1>1, DangerBounded
    <2> HIDE DEF RefusalFacts, SelfLoad
    <2> QED BY <1>1, <1>6, <1>7, <1>8, <1>9, <1>10, <2>1, <2>2 DEF EndOverlay
  <1> QED BY <1>11, <1>12, EndKeeps

LEMMA ShowOverlayKeeps == ASSUME IInv, NEW t \in TaskIds, ShowOverlay(t) PROVE IInv'
  <1> DEFINE c == tasks[t].config
  <1>1. /\ SelfLoad(tasks[t])
        /\ UNCHANGED <<file, backup, told, prev, writer, overlapped, damaged>>
        /\ UNCHANGED <<cache, consented, seen, bound>>
    BY DEF ShowOverlay, SelfLoad
  <1>2. CASE /\ tasks[t].step \in {"loaded", "unresolved"} /\ Opens(t, FALSE, {})
    BY <1>1, <1>2, OpensKeeps
  <1>3. CASE /\ tasks[t].step = "resolving" /\ Resolved(c)
             /\ Opens(t, TRUE, DisabledReasons(c, CachedContext(c)))
    <2>1. TaskFact(tasks[t], file, DOMAIN cache, consented, Env)
      BY TaskKnown
    <2>2. Env.selected
      BY <1>1, <1>3, <2>1 DEF TaskFact, SelfLoad
    <2>3. CapabilityCacheKey(c) \in DOMAIN cache /\ CacheFiled
      BY <1>3 DEF Resolved, IInv
    <2>7. c.autoCompactTokenLimit \in Nat
      BY TaskKnown DEF TaskRecord, Configs, CodexConfig
    <2> HIDE DEF c, Env
    <2>4. Explicable(c, Env) =
            CollectCapabilityIssues(c, CachedContext(c)) \ Unexplained(c, CachedContext(c))
      BY <2>3, CachedIsOwn DEF Explicable, SnapshotContext
    <2> DEFINE x == CachedContext(c)
    <2>5. x = CachedContext(c) OBVIOUS
    <2> HIDE DEF x
    <2>6. /\ Explicable(c, Env) \subseteq DisabledReasons(c, x)
          /\ DisabledReasons(c, x) \in SUBSET Disablable
      BY <2>4, <2>5, <2>7, RefusalsExplained, DisabledAreRows
    <2> QED BY <1>1, <1>3, <2>2, <2>5, <2>6, OpensKeeps DEF c
  <1> QED BY <1>2, <1>3 DEF ShowOverlay, At

LEMMA SavedOverlay ==
    ASSUME NEW m \in Overlay, NEW c \in Configs
    PROVE  /\ MarkSaved(m, TRUE, c) \in Overlay
           /\ LET n == MarkSaved(m, TRUE, c)
              IN  /\ n.phase = m.phase /\ n.draft = c /\ n.saved = c /\ n.dialog = m.dialog
                  /\ n.prompt = m.prompt /\ n.disabled = m.disabled /\ n.checked = m.checked
           /\ ReplaceWithSaved(m, TRUE, c) \in Overlay
           /\ LET n == ReplaceWithSaved(m, TRUE, c)
              IN  n.phase = m.phase /\ n.draft = c /\ n.saved = c /\ n.dialog = None /\ ~n.checked
  <1>1. c \in CodexConfig /\ FormatActivationStatus(c) \in BOOLEAN
    BY DEF Configs, FormatActivationStatus
  <1> DEFINE n == MarkSaved(m, TRUE, c)
  <1>2. n = [m EXCEPT !.saved = c, !.draft = c, !.active = FormatActivationStatus(c),
                      !.state = "saved"]
    BY DEF MarkSaved
  <1> HIDE DEF n, FormatActivationStatus
  <1>3. /\ n \in Overlay /\ n.phase = m.phase /\ n.draft = c /\ n.saved = c /\ n.dialog = m.dialog
        /\ n.prompt = m.prompt /\ n.disabled = m.disabled /\ n.checked = m.checked
    BY <1>1, <1>2 DEF Overlay
  <1> DEFINE o == ReplaceWithSaved(m, TRUE, c)
  <1>4. o = [n EXCEPT !.dialog = None, !.checked = FALSE]
    BY DEF ReplaceWithSaved, n
  <1> HIDE DEF o
  <1>5. o \in Overlay /\ o.phase = m.phase /\ o.draft = c /\ o.saved = c /\ o.dialog = None /\ ~o.checked
    BY <1>3, <1>4, NoDialog DEF Overlay
  <1> QED BY <1>3, <1>5 DEF n, o

\* What is known when a write of this process has ended.
LEMMA WriteKnown ==
    ASSUME IInv, NEW t \in TaskIds, tasks[t].op \in Writes, tasks[t].by = "self",
           tasks[t].step \in {"written", "failed", "rejected"}
    PROVE  /\ tasks[t] # Idle /\ tasks[t].config \in Configs /\ tasks[t].live \in BOOLEAN
           /\ ~SelfLoad(tasks[t])
           /\ tasks[t].live => /\ ui.phase = "open" /\ Whole(file)
                               /\ \A u \in TaskIds : ~SelfLoad(tasks[u])
           /\ ~overlapped /\ ui.phase = "open" => tasks[t].live
           /\ ~overlapped /\ tasks[t].step = "written" => file = Json(tasks[t].config)
           /\ Danger(tasks[t].config) \subseteq consented
           /\ tasks[t].op \in Saves => tasks[t].base = tasks[t].config
           /\ tasks[t].op = "reset" => tasks[t].config = CreateDefaultConfig
           /\ tasks[t].op \in Saves /\ tasks[t].step = "written" /\ Env.selected
                 => Issues(tasks[t].config, Env) = {}
  <1>1. /\ tasks[t] \in TaskRecord /\ TaskShape(tasks[t])
        /\ TaskFact(tasks[t], file, DOMAIN cache, consented, Env)
        /\ ~overlapped => SoloTask(tasks[t], file, backup, prev, writer, ui.phase)
        /\ tasks[t] # Idle
    BY TaskKnown
  <1>2. tasks[t].config \in Configs /\ tasks[t].live \in BOOLEAN
    BY <1>1 DEF TaskRecord
  <1>3. ~SelfLoad(tasks[t])
    BY DEF SelfLoad, Writes
  <1>4. tasks[t].live => /\ ui.phase = "open" /\ Whole(file)
                         /\ \A u \in TaskIds : ~SelfLoad(tasks[u])
    <2>1. tasks[t].live => ui.phase = "open"
      BY DEF IInv, OverlayFacts
    <2>2. ui.phase = "open" => Whole(file)
      BY DEF IInv, FileFacts
    <2>3. ui.phase = "open" => \A u \in TaskIds : ~SelfLoad(tasks[u])
      BY DEF IInv, LoadFacts
    <2> QED BY <2>1, <2>2, <2>3
  <1>5. ~overlapped /\ ui.phase = "open" => tasks[t].live
    BY <1>1 DEF SoloTask
  <1>6. ~overlapped /\ tasks[t].step = "written" => file = Json(tasks[t].config)
    BY <1>1 DEF SoloTask
  <1>7. /\ tasks[t].op \in Saves => tasks[t].base = tasks[t].config
        /\ tasks[t].op = "reset" => tasks[t].config = CreateDefaultConfig
    BY <1>1 DEF TaskShape
  <1>8. /\ Danger(tasks[t].config) \subseteq consented
        /\ tasks[t].op \in Saves /\ tasks[t].step = "written" /\ Env.selected
              => Issues(tasks[t].config, Env) = {}
    <2> HIDE DEF Env
    <2> QED BY <1>1 DEF TaskFact
  <1> HIDE DEF Env
  <1> QED BY <1>1, <1>2, <1>3, <1>4, <1>5, <1>6, <1>7, <1>8

LEMMA SaveEndsKeeps == ASSUME IInv, NEW t \in TaskIds, SaveEnds(t) PROVE IInv'
  <1> DEFINE c == tasks[t].config
             live == tasks[t].live
             closing == tasks[t].op = "save-and-close" /\ live
             saved == MarkSaved(ui, live, c)
             ended == [tasks EXCEPT ![t] = Idle]
  <1>1. /\ tasks[t].op \in Saves /\ tasks[t].by = "self" /\ tasks[t].step = "written"
        /\ told' = {c} /\ overwritten' = (overwritten \/ (live /\ ui.draft # tasks[t].base))
        /\ UNCHANGED <<file, backup, prev, writer, overlapped, damaged>>
        /\ UNCHANGED <<cache, confirmed, consented, seen, bound>>
    BY DEF SaveEnds, At, Saves, Notify, Overwrites
  <1>2. /\ closing => ui' = Dispose(saved) /\ tasks' = Detach(ended)
        /\ ~closing => ui' = saved /\ tasks' = ended
    BY DEF SaveEnds
  <1>3. /\ tasks[t] # Idle /\ c \in Configs /\ live \in BOOLEAN /\ ~SelfLoad(tasks[t])
        /\ live => /\ ui.phase = "open" /\ Whole(file) /\ \A u \in TaskIds : ~SelfLoad(tasks[u])
        /\ ~overlapped /\ ui.phase = "open" => live
        /\ ~overlapped => file = Json(c)
        /\ Danger(c) \subseteq consented /\ tasks[t].base = c
        /\ Env.selected => Issues(c, Env) = {}
    <2>1. tasks[t].op \in Writes BY <1>1 DEF Saves, Writes
    <2> HIDE DEF Env
    <2> QED BY <1>1, <2>1, WriteKnown
  <1>4. /\ ui \in Overlay /\ confirmed' \subseteq Policies /\ overwritten' \in BOOLEAN
        /\ overwritten \in BOOLEAN
    BY <1>1 DEF IInv, Typed
  <1>5. EnvStays /\ Env' = Env
    BY <1>1, EnvSame DEF EnvStays
  <1>6. /\ ended \in [TaskIds -> TaskRecord] /\ ended[t] = Idle
        /\ \A u \in TaskIds : u # t => ended[u] = tasks[u]
    BY IdleTask DEF IInv, Typed
  <1> HIDE DEF EnvStays, ended, c, live
  <1>7. CASE closing
    <2>1. \A u \in TaskIds : tasks'[u] = Detached(ended[u])
      BY <1>2, <1>7 DEF Detach, Detached
    <2>2. \A u \in TaskIds : tasks'[u] \in TaskRecord /\ ~tasks'[u].live
      BY <1>6, <2>1, DetachedTask
    <2>3. tasks' \in [TaskIds -> TaskRecord]
      <3>1. tasks' = [u \in TaskIds |-> tasks'[u]]
        BY <1>2, <1>7 DEF Detach
      <3> QED BY <2>2, <3>1
    <2>4. tasks'[t] = Idle
      <3>1. Detached(Idle) = Idle
        BY IdleTask, DetachedTask
      <3> QED BY <1>6, <2>1, <3>1
    <2>5. EndFrame(t)
      BY <1>1, <1>3, <1>5, <1>6, <2>1, <2>3, <2>4 DEF EndFrame, c
    <2>6. saved \in Overlay
      BY <1>3, <1>4, <1>7, SavedOverlay
    <2> HIDE DEF saved
    <2>7. ui' \in Overlay /\ ui'.phase = "disposed" /\ ui'.dialog = None
      BY <1>2, <1>7, <2>6, DisposedOverlay
    <2>8. RefusalFacts'
      BY <2>7 DEF RefusalFacts
    <2>9. EndOverlay(t)
      <3> HIDE DEF RefusalFacts, SelfLoad
      <3> QED BY <1>3, <1>4, <1>7, <2>2, <2>7, <2>8 DEF EndOverlay
    <2> QED BY <2>5, <2>9, EndKeeps
  <1>8. CASE ~closing
    <2>1. EndFrame(t)
      BY <1>1, <1>2, <1>3, <1>5, <1>6, <1>8 DEF EndFrame, c
    <2>2. CASE ~live
      <3>1. ui' = ui
        BY <1>2, <1>8, <2>2 DEF MarkSaved
      <3>2. overwritten' = overwritten
        BY <1>1, <1>4, <2>2
      <3> QED BY <1>1, <1>2, <1>3, <1>6, <1>8, <2>1, <2>2, <3>1, <3>2, DroppedEnd
    <2>3. CASE live
      <3>1. /\ ui' \in Overlay /\ ui'.phase = "open" /\ ui'.draft = c /\ ui'.saved = c
            /\ ui'.dialog = ui.dialog /\ ui'.prompt = ui.prompt /\ ui'.checked = ui.checked
        <4>1. ui' = MarkSaved(ui, TRUE, c)
          BY <1>2, <1>3, <1>8, <2>3
        <4> QED BY <1>3, <1>4, <2>3, <4>1, SavedOverlay
      <3>2. RefusalFacts'
        <4> HIDE DEF Env
        <4> QED BY <1>3, <1>5, <2>3, <3>1 DEF IInv, RefusalFacts, Explicable
      <3>3. ~overwritten' => Danger(c) \subseteq confirmed'
        BY <1>1, <1>3, <1>4, <2>3 DEF IInv, DangerFacts
      <3>4. EndOverlay(t)
        <4> HIDE DEF RefusalFacts, SelfLoad
        <4> QED BY <1>1, <1>3, <1>4, <2>3, <3>1, <3>2, <3>3 DEF EndOverlay
      <3> QED BY <2>1, <3>4, EndKeeps
    <2> QED BY <2>2, <2>3
  <1> QED BY <1>7, <1>8

LEMMA ResetEndsKeeps == ASSUME IInv, NEW t \in TaskIds, ResetEnds(t) PROVE IInv'
  <1> DEFINE c == tasks[t].config
             live == tasks[t].live
  <1>1. /\ tasks[t].op = "reset" /\ tasks[t].step = "written" /\ Ends(t)
        /\ told' = {c} /\ overwritten' = (overwritten \/ (live /\ ui.draft # tasks[t].base))
        /\ ui' = ReplaceWithSaved(ui, live, c) /\ confirmed' = IF live THEN {} ELSE confirmed
        /\ UNCHANGED <<file, backup, prev, writer, overlapped, damaged>>
        /\ UNCHANGED <<cache, consented, seen, bound>>
    BY DEF ResetEnds, At, Notify, Overwrites
  <1>2. tasks[t].by = "self"
    <2>1. TaskShape(tasks[t]) BY TaskKnown
    <2> QED BY <1>1, <2>1 DEF TaskShape
  <1>3. /\ tasks[t] # Idle /\ c \in Configs /\ live \in BOOLEAN /\ ~SelfLoad(tasks[t])
        /\ live => /\ ui.phase = "open" /\ Whole(file) /\ \A u \in TaskIds : ~SelfLoad(tasks[u])
        /\ ~overlapped /\ ui.phase = "open" => live
        /\ ~overlapped => file = Json(c)
        /\ c = CreateDefaultConfig
    <2>1. tasks[t].op \in Writes BY <1>1 DEF Writes
    <2> HIDE DEF Env
    <2> QED BY <1>1, <1>2, <2>1, WriteKnown
  <1>4. ui \in Overlay /\ overwritten' \in BOOLEAN /\ overwritten \in BOOLEAN
    BY <1>1 DEF IInv, Typed
  <1>5. EnvStays
    BY <1>1, EnvSame
  <1>6. Danger(c) = {}
    BY <1>3, DefaultIsValid
  <1> HIDE DEF EnvStays, c, live
  <1>7. EndFrame(t)
    BY <1>1, <1>2, <1>3, <1>5, EndsIdle DEF EndFrame, c
  <1>8. CASE ~live
    <2>1. ui' = ui /\ confirmed' = confirmed
      BY <1>1, <1>8 DEF ReplaceWithSaved
    <2>2. overwritten' = overwritten
      BY <1>1, <1>4, <1>8
    <2> QED BY <1>1, <1>3, <1>7, <1>8, <2>1, <2>2, EndsIdle, DroppedEnd
  <1>9. CASE live
    <2>1. /\ ui' \in Overlay /\ ui'.phase = "open" /\ ui'.draft = c /\ ui'.saved = c
          /\ ui'.dialog = None /\ ~ui'.checked
      <3>1. ui' = ReplaceWithSaved(ui, TRUE, c)
        BY <1>1, <1>3, <1>9
      <3> QED BY <1>3, <1>4, <1>9, <3>1, SavedOverlay
    <2>2. RefusalFacts'
      BY <2>1 DEF RefusalFacts
    <2>3. confirmed' = {}
      BY <1>1, <1>9
    <2>4. EndOverlay(t)
      <3> HIDE DEF RefusalFacts, SelfLoad
      <3> QED BY <1>3, <1>4, <1>6, <1>9, <2>1, <2>2, <2>3 DEF EndOverlay
    <2> QED BY <1>7, <2>4, EndKeeps
  <1> QED BY <1>8, <1>9

LEMMA WriteEndsBadlyKeeps == ASSUME IInv, NEW t \in TaskIds, WriteEndsBadly(t) PROVE IInv'
  <1> DEFINE live == tasks[t].live
  <1>1. PICK state \in {"write-error", "validation-error"} :
            ui' = MarkError(ui, live, state) /\ tasks[t].step \in {"failed", "rejected"}
    BY DEF WriteEndsBadly, At
  <1>2. /\ tasks[t].op \in Writes /\ tasks[t].by = "self" /\ Ends(t)
        /\ UNCHANGED <<file, backup, told, prev, writer, overlapped, damaged, bound>>
        /\ UNCHANGED <<cache, confirmed, consented, overwritten, seen>>
    BY DEF WriteEndsBadly, Writes
  <1>3. /\ tasks[t] # Idle /\ live \in BOOLEAN /\ ~SelfLoad(tasks[t])
        /\ live => /\ ui.phase = "open" /\ Whole(file) /\ \A u \in TaskIds : ~SelfLoad(tasks[u])
    <2> HIDE DEF Env
    <2> QED BY <1>1, <1>2, WriteKnown
  <1>4. ui \in Overlay /\ confirmed' \subseteq Policies /\ overwritten' \in BOOLEAN
    BY <1>2 DEF IInv, Typed
  <1>5. EnvStays /\ Env' = Env
    BY <1>2, EnvSame DEF EnvStays
  <1> HIDE DEF EnvStays, live
  <1>6. EndFrame(t)
    BY <1>1, <1>2, <1>3, <1>5, EndsIdle DEF EndFrame
  <1>7. CASE ~live
    <2>1. ui' = ui
      BY <1>1, <1>7 DEF MarkError
    <2> QED BY <1>1, <1>2, <1>3, <1>6, <2>1, EndsIdle, DroppedEnd
  <1>8. CASE live
    <2>1. /\ ui' \in Overlay /\ ui'.phase = "open" /\ ui'.draft = ui.draft /\ ui'.saved = ui.saved
          /\ ui'.dialog = ui.dialog /\ ui'.prompt = ui.prompt /\ ui'.checked = ui.checked
          /\ ui'.disabled = ui.disabled /\ ui'.state \notin Clean
      <3>1. ui' = [ui EXCEPT !.state = state]
        BY <1>1, <1>8 DEF MarkError
      <3>2. ui.phase = "open"
        BY <1>3, <1>8
      <3> QED BY <1>1, <1>4, <3>1, <3>2 DEF Overlay, Clean
    <2>2. RefusalFacts'
      <3> HIDE DEF Env
      <3> QED BY <1>3, <1>5, <1>8, <2>1 DEF IInv, RefusalFacts
    <2>3. Danger(ui.draft) \subseteq consented /\ (~overwritten => Danger(ui.draft) \subseteq confirmed)
      BY <1>3, <1>8 DEF IInv, DangerFacts
    <2>4. EndOverlay(t)
      <3> HIDE DEF RefusalFacts, SelfLoad
      <3> QED BY <1>2, <1>3, <1>4, <1>8, <2>1, <2>2, <2>3 DEF EndOverlay
    <2> QED BY <1>6, <2>4, EndKeeps
  <1> QED BY <1>7, <1>8

-----------------------------------------------------------------------------
(* Every step keeps the invariant.                                         *)

LEMMA TaskStepsKeep == ASSUME IInv, NEW t \in TaskIds, TaskSteps(t) \/ OtherBegins(t) PROVE IInv'
  <1>1. CASE OpenSettings(t) \/ Save(t) \/ SaveAndClose(t) \/ ConfirmReset(t) \/ Restore(t)
             \/ OtherBegins(t)
    BY <1>1, BeginsKeep
  <1>2. CASE ResolveForOverlay(t) \/ ApplyDraft(t)
    BY <1>2, ResolveForOverlayKeeps, ApplyDraftKeeps
  <1>3. CASE ShowOverlay(t) \/ LoadFailed(t)
    BY <1>3, ShowOverlayKeeps, LoadFailedKeeps
  <1>4. CASE StoreActs(t)
    BY <1>4, StoreKeeps
  <1>5. CASE SaveEnds(t) \/ ResetEnds(t) \/ WriteEndsBadly(t)
    BY <1>5, SaveEndsKeeps, ResetEndsKeeps, WriteEndsBadlyKeeps
  <1>6. CASE RestoreEnds(t) \/ OtherTaskEnds(t)
    BY <1>6, RestoreEndsKeeps, OtherTaskEndsKeeps
  <1> QED BY <1>1, <1>2, <1>3, <1>4, <1>5, <1>6 DEF TaskSteps

LEMMA FaultsKeep == IInv /\ Faults => IInv'
  <1> SUFFICES ASSUME IInv, Faults PROVE IInv'
    OBVIOUS
  <1>1. CASE PiDisposes
    BY <1>1, ClosesKeep, CloseStepKeeps
  <1>2. CASE CrashAndRestart
    BY <1>2, CrashKeeps
  <1>3. CASE \E t \in TaskIds : StorageFault(t)
    BY <1>3, StoreKeeps
  <1>4. CASE \E k \in DOMAIN cache : ResolveFails(k)
    BY <1>4, ResolveFailsKeeps
  <1> QED BY <1>1, <1>2, <1>3, <1>4 DEF Faults

LEMMA StutterKeeps == IInv /\ UNCHANGED vars => IInv'
  <1> SUFFICES ASSUME IInv, UNCHANGED vars PROVE IInv'
    OBVIOUS
  <1>1. /\ UNCHANGED <<file, backup, tasks, told, prev, writer, overlapped, damaged>>
        /\ UNCHANGED <<ui, cache, confirmed, consented, overwritten, seen, bound>>
    BY DEF vars, storeVars, uiVars
  <1>2. Env' = Env
    BY <1>1 DEF Env
  <1>3. Typed' /\ CacheFiled'
    BY <1>1 DEF IInv, Typed, CacheFiled
  <1>4. TaskFacts' /\ RefusalFacts'
    <2> HIDE DEF Env
    <2> QED BY <1>1, <1>2 DEF IInv, TaskFacts, RefusalFacts
  <1>5. FileFacts' /\ OverlayFacts' /\ LoadFacts'
    BY <1>1 DEF IInv, FileFacts, OverlayFacts, LoadFacts, At
  <1>6. DangerFacts'
    BY <1>1 DEF IInv, DangerFacts, Selected
  <1>7. SoloFacts'
    BY <1>1 DEF IInv, SoloFacts, Alone, SoloTasks, BackupFacts, ShownFacts, ToldFacts, At
  <1> QED BY <1>3, <1>4, <1>5, <1>6, <1>7 DEF IInv

LEMMA NextKeeps == IInv /\ [Next]_vars => IInv'
  <1> SUFFICES ASSUME IInv, [Next]_vars PROVE IInv'
    OBVIOUS
  <1>1. CASE UserKeys
    BY <1>1, UserKeysKeep
  <1>2. CASE Faults
    BY <1>2, FaultsKeep
  <1>3. CASE \E t \in TaskIds : TaskSteps(t) \/ OtherBegins(t)
    BY <1>3, TaskStepsKeep
  <1>4. CASE \E k \in DOMAIN cache : ResolveSettles(k)
    BY <1>4, ResolveSettlesKeeps
  <1>5. CASE UNCHANGED vars
    BY <1>5, StutterKeeps
  <1> QED BY <1>1, <1>2, <1>3, <1>4, <1>5 DEF Next

\* The inductive invariant: what is known of every task, of the files, of the cache
\* and of the overlay holds throughout, however keys, tasks of this process and of
\* another one, failures and crashes interleave.
THEOREM IInvHolds == Spec => []IInv
  <1>1. Init => IInv
    BY InitIInv
  <1>2. IInv /\ [Next]_vars => IInv'
    BY NextKeeps
  <1> QED BY <1>1, <1>2, PTL DEF Spec

-----------------------------------------------------------------------------
(* The properties.                                                         *)

LEMMA FilesSound == IInv => FilesAreSound
  <1> SUFFICES ASSUME IInv PROVE FilesAreSound
    OBVIOUS
  <1>1. StoreTypeOK
    <2>1. file.is \in {"absent", "torn", "json"}
      BY DEF IInv, Typed, Contents
    <2>2. (backup = Absent \/ Whole(backup)) /\ (prev = Absent \/ Whole(prev))
      BY DEF IInv, Typed, Kept
    <2>3. \A t \in TaskIds : ParseConfig(tasks[t].config)
      <3>1. \A t \in TaskIds : tasks[t].config \in Configs
        BY DEF IInv, Typed, TaskRecord
      <3> QED BY <3>1 DEF Configs
    <2>4. \A c \in told : ParseConfig(c)
      BY DEF IInv, Typed, Configs
    <2> QED BY <2>1, <2>2, <2>3, <2>4 DEF StoreTypeOK
  <1>2. TypeOK
    <2>1. /\ ui.phase \in {"closed", "opening", "open", "disposed"} /\ ui.saved \in Configs
          /\ ui.state \in {"pristine", "dirty", "saving", "saved", "validation-error", "write-error"}
      BY DEF IInv, Typed, Overlay
    <2>2. ParseConfig(ui.saved)
      BY <2>1 DEF Configs
    <2>3. ui.dialog # None => ui.phase = "open" /\ ui.prompt = "none"
      BY DEF IInv, OverlayFacts
    <2>4. confirmed \cup consented \subseteq {"never", "unrestricted"}
      BY DEF IInv, Typed, Policies
    <2>5. \A k \in DOMAIN cache : CapabilityCacheKey(cache[k].config) = k
      BY DEF IInv, CacheFiled
    <2> QED BY <1>1, <2>1, <2>2, <2>3, <2>4, <2>5 DEF TypeOK
  <1>3. TornOnlyByCreation
    BY DEF IInv, FileFacts, TornOnlyByCreation
  <1>4. BackupIsPredecessor
    <2>1. SUFFICES ASSUME ~overlapped
                   PROVE  /\ backup \in {prev, file}
                          /\ \A t \in TaskIds : At(t, "written") /\ tasks[t].op # "restore"
                                                   => backup = prev
      BY DEF BackupIsPredecessor
    <2>2. SoloTasks /\ BackupFacts
      BY <2>1 DEF IInv, SoloFacts
    <2> QED BY <2>2 DEF SoloTasks, SoloTask, BackupFacts, At
  <1> QED BY <1>2, <1>3, <1>4 DEF FilesAreSound

\* The files are sound, for any number of tasks, any failures and any documents on
\* disk: a save, a reset or a restore never leaves a half-written configuration,
\* and while operations do not overlap the backup is what the last write replaced.
THEOREM FilesStaySound == Spec => []FilesAreSound
  BY IInvHolds, FilesSound, PTL

LEMMA ViewsStored == IInv => ViewsAreStored
  <1> SUFFICES ASSUME IInv PROVE ViewsAreStored
    OBVIOUS
  <1>1. ShownAsSavedIsStored
    <2>1. SUFFICES ASSUME ui.phase = "open", ui.state \in {"pristine", "saved"}, ~overlapped, seen,
                          Running = {}
                   PROVE  file = Json(ui.saved) /\ ui.draft = ui.saved
      BY DEF ShownAsSavedIsStored
    <2>2. ShownFacts
      BY <2>1 DEF IInv, SoloFacts
    <2>3. \A t \in TaskIds : tasks[t].step # "written"
      BY <2>1, IdleTask DEF Running
    <2>4. ui.draft = ui.saved
      BY <2>1 DEF IInv, OverlayFacts, Clean
    <2> QED BY <2>1, <2>2, <2>3, <2>4 DEF ShownFacts, Clean, At
  <1>2. ToldIsStored
    BY DEF IInv, SoloFacts, ToldFacts, ToldIsStored
  <1> QED BY <1>1, <1>2 DEF ViewsAreStored

\* What the overlay shows as saved and what the policy listeners were told is what
\* the file holds, whatever was closed, refused or reported as an error on the way.
THEOREM ViewsStayStored == Spec => []ViewsAreStored
  BY IInvHolds, ViewsStored, PTL

LEMMA DangerConfirmed == IInv => DangerIsConfirmed
  <1> SUFFICES ASSUME IInv PROVE DangerIsConfirmed
    OBVIOUS
  <1>1. \A t \in TaskIds : Danger(tasks[t].config) \subseteq consented
    BY DEF IInv, TaskFacts, TaskFact
  <1> QED BY <1>1 DEF IInv, DangerFacts, DangerIsConfirmed, Running

\* Approvals are suppressed, or the workspace restriction lifted, in the draft, in a
\* running task or in the file only after somebody chose so on purpose.
THEOREM DangerStaysConfirmed == Spec => []DangerIsConfirmed
  BY IInvHolds, DangerConfirmed, PTL

LEMMA RefusalsVisible == IInv => RefusalsAreVisible
  <1> SUFFICES ASSUME IInv PROVE RefusalsAreVisible
    OBVIOUS
  <1>1. RefusalsAreExplained
    <2>1. ui.draft.autoCompactTokenLimit \in Nat
      BY DEF IInv, Typed, Overlay, CodexConfig
    <2> QED BY <2>1, RefusalsExplained DEF RefusalsAreExplained
  <1>2. RefusedIsVisible
    <2>1. SUFFICES ASSUME ui.phase = "open", ui.checked,
                          NEW r \in CollectCapabilityIssues(ui.draft, SnapshotContext(ui.draft))
                   PROVE  \/ r \in ui.disabled \/ ui.draft[r] # ui.saved[r]
                          \/ r = "autoCompactTokenLimit" /\ ui.draft.compaction # ui.saved.compaction
                          \/ r \in Unexplained(ui.draft, SnapshotContext(ui.draft))
      BY DEF RefusedIsVisible
    <2>2. Explicable(ui.saved, Env) \subseteq ui.disabled
      BY <2>1 DEF IInv, RefusalFacts
    <2>3. r \in Explicable(ui.draft, Env) \/ r \in Unexplained(ui.draft, SnapshotContext(ui.draft))
      BY <2>1 DEF Explicable, Issues, SnapshotContext
    <2> HIDE DEF Env
    <2>4. CASE /\ r \in Explicable(ui.draft, Env) /\ ui.draft[r] = ui.saved[r]
               /\ r = "autoCompactTokenLimit" => ui.draft.compaction = ui.saved.compaction
      BY <2>2, <2>4, ExplicableIsLocal
    <2> QED BY <2>3, <2>4
  <1> QED BY <1>1, <1>2 DEF RefusalsAreVisible

\* A save is refused only for a setting the user can see disabled or has changed, or
\* for a limit under a window that is no safe integer, for every model, bridge and
\* configuration.
THEOREM RefusalsStayVisible == Spec => []RefusalsAreVisible
  BY IInvHolds, RefusalsVisible, PTL

LEMMA SnapshotExact == IInv => CachedSnapshotIsExact
  <1> SUFFICES ASSUME IInv, NEW t \in TaskIds, At(t, "resolving"), Env.selected
               PROVE  Resolve(cache[CapabilityCacheKey(tasks[t].config)].config, Env)
                        = Resolve(tasks[t].config, Env)
    BY DEF CachedSnapshotIsExact
  <1>1. CapabilityCacheKey(tasks[t].config) \in DOMAIN cache
    BY DEF IInv, TaskFacts, TaskFact, At
  <1>2. CacheFiled
    BY DEF IInv
  <1> HIDE DEF Env
  <1> QED BY <1>1, <1>2, CachedIsOwn

\* The capability snapshot a save or an overlay finds in the cache is the one its own
\* configuration would resolve to, however entries come, settle, fail and go.
THEOREM SnapshotStaysExact == Spec => []CachedSnapshotIsExact
  BY IInvHolds, SnapshotExact, PTL

\* Keys reach only an open overlay.
LEMMA KeysNeedOverlay == UserKeys \/ PiDisposes => ui.phase = "open"
  <1>1. Interactive \/ InDialog => ui.phase = "open"
    BY DEF Interactive, InDialog
  <1>2. (\E r \in bound.rows : Toggle(r) \/ Cycle(r) \/ OpenPrompt(r)) => Interactive
    BY DEF Toggle, Cycle, OpenPrompt, Focused
  <1>3. /\ CyclePolicy("approvalPolicy", "on-request", "never", "approval-never-confirm") => Interactive
        /\ CyclePolicy("filesystemAccessPolicy", "workspace", "unrestricted",
                       "filesystem-unrestricted-confirm") => Interactive
    BY DEF CyclePolicy, Focused
  <1>4. Escape \/ (\E kind \in {"help", "reset-confirm"} : OpenDialog(kind)) => Interactive
    BY DEF Escape, OpenDialog
  <1>5. (\E f \in 0..2 : DialogMove(f)) \/ DialogCancel \/ DiscardAndClose \/ ConfirmPolicy => InDialog
    BY DEF DialogMove, DialogCancel, DiscardAndClose, ConfirmPolicy
  <1>6. CancelPrompt \/ EditAutoCompactTokenLimit \/ EditProviders
        \/ (\E r \in {"compactNow", "export"} : Confirm(r)) => ui.phase = "open"
    BY DEF CancelPrompt, EditAutoCompactTokenLimit, EditProviders, Confirm, Prompting
  <1>7. PiDisposes => ui.phase = "open"
    BY DEF PiDisposes
  <1> QED BY <1>1, <1>2, <1>3, <1>4, <1>5, <1>6, <1>7 DEF UserKeys

\* An end of a task that is not live leaves the overlay alone.
LEMMA LateEnds ==
    ASSUME IInv, NEW t \in TaskIds, ui.phase = "disposed",
           SaveEnds(t) \/ ResetEnds(t) \/ WriteEndsBadly(t)
    PROVE  ui' = ui
  <1>1. tasks[t].op \in Writes
    BY DEF SaveEnds, ResetEnds, WriteEndsBadly, Writes
  <1>2. ~tasks[t].live
    BY <1>1 DEF IInv, OverlayFacts
  <1>3. CASE SaveEnds(t)
    BY <1>2, <1>3 DEF SaveEnds, MarkSaved
  <1>4. CASE ResetEnds(t)
    BY <1>2, <1>4 DEF ResetEnds, ReplaceWithSaved
  <1>5. CASE WriteEndsBadly(t)
    BY <1>2, <1>5 DEF WriteEndsBadly, MarkError
  <1> QED BY <1>3, <1>4, <1>5

LEMMA DisposedStays ==
    ASSUME IInv, [Next]_vars, ui.phase = "disposed", ui'.phase = "disposed" PROVE ui' = ui
  <1>1. ~UserKeys /\ ~PiDisposes
    BY KeysNeedOverlay
  <1>2. CASE CrashAndRestart
    BY <1>2, ClosedOverlay DEF CrashAndRestart
  <1>3. CASE \E t \in TaskIds : StorageFault(t)
    BY <1>3 DEF StorageFault, uiVars
  <1>4. CASE \E k \in DOMAIN cache : ResolveFails(k) \/ ResolveSettles(k)
    BY <1>4 DEF ResolveFails, ResolveSettles
  <1>5. ASSUME NEW t \in TaskIds, TaskSteps(t) \/ OtherBegins(t) PROVE ui' = ui
    <2>1. CASE OpenSettings(t)
      <3>1. ui'.phase = "opening"
        BY <2>1, ClosedOverlay DEF OpenSettings, Overlay
      <3> QED BY <3>1
    <2>2. CASE Save(t) \/ SaveAndClose(t) \/ ConfirmReset(t)
      BY <2>2 DEF Save, SaveAndClose, ConfirmReset, Interactive, InDialog
    <2>3. CASE Restore(t) \/ ApplyDraft(t) \/ RestoreEnds(t) \/ OtherTaskEnds(t)
      BY <2>3 DEF Restore, ApplyDraft, RestoreEnds, OtherTaskEnds, uiVars
    <2>4. CASE ResolveForOverlay(t) \/ StoreActs(t) \/ OtherBegins(t)
      BY <2>4 DEF ResolveForOverlay, StoreActs, OtherBegins
    <2>5. CASE ShowOverlay(t) \/ LoadFailed(t)
      <3>1. tasks[t].op = "load" /\ tasks[t].by = "self"
        BY <2>5 DEF ShowOverlay, LoadFailed
      <3>2. ui.phase = "opening"
        BY <3>1 DEF IInv, LoadFacts, SelfLoad
      <3> QED BY <3>2
    <2>6. CASE SaveEnds(t) \/ ResetEnds(t) \/ WriteEndsBadly(t)
      BY <2>6, LateEnds
    <2> QED BY <1>5, <2>1, <2>2, <2>3, <2>4, <2>5, <2>6 DEF TaskSteps
  <1>6. CASE UNCHANGED vars
    BY <1>6 DEF vars, uiVars
  <1> QED BY <1>1, <1>2, <1>3, <1>4, <1>5, <1>6 DEF Next, Faults

\* A disposed overlay is never changed again by the saves, resets, prompts and
\* resolutions it started: whatever comes late is dropped.
THEOREM DisposedStaysFrozen == Spec => DisposedIsFrozen
  <1>1. IInv /\ [Next]_vars => [ui.phase = "disposed" /\ ui'.phase = "disposed" => ui' = ui]_vars
    BY DisposedStays
  <1> QED BY <1>1, IInvHolds, PTL DEF Spec, DisposedIsFrozen
=============================================================================
