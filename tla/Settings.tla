------------------------------ MODULE Settings ------------------------------
(* The settings overlay on the configuration store: a draft edited by keys,  *)
(* dialogs and Pi-owned prompts while saves and resets run as asynchronous   *)
(* tasks, checked against the effective capabilities and their cache.        *)
(* Navigation and layout only decide which row a key meets: any visible row. *)
EXTENDS ConfigurationStore

CONSTANTS Limits,         \* numbers the user may enter as an auto compact limit
          ProviderInputs, \* sets of ids the user may enter as active providers
          OtherConfigs,   \* configurations another process may save
          Contexts,       \* capability contexts the rules are compared on
          Bounds          \* [rows, env, file, backup, keys, faults, others]

ASSUME InputsAssumption ==
    /\ Limits \subseteq Nat
    /\ \A p \in ProviderInputs : p \subseteq STRING
    /\ \A c \in OtherConfigs : c \in CodexConfig /\ ParseConfig(c)
\* A behaviour starts with any documents on disk; a backup was valid when it was made.
ASSUME BoundsAssumption ==
    \A b \in Bounds :
        /\ DOMAIN b = {"rows", "env", "file", "backup", "keys", "faults", "others"}
        /\ b.file \in Contents /\ b.backup \in Contents
        /\ b.backup = Absent \/ Whole(b.backup)

VARIABLES ui,          \* the overlay and its model
          cache,       \* capability cache: key -> [ready, config it was resolved for]
          confirmed,   \* history: dangerous policies the user's last word enabled
          consented,   \* history: dangerous policies somebody ever enabled on purpose
          overwritten, \* history: a finished save replaced edits made after it began
          seen,        \* history: this process read or wrote the file after others did
          bound        \* the bound of this behaviour and what is left of it

uiVars == <<ui, cache, confirmed, consented, overwritten, seen>>
vars == <<storeVars, uiVars, bound>>

None == [kind |-> "none", focus |-> 0]
Dialog(kind) == [kind |-> kind, focus |-> 0]
Closed == [phase |-> "closed", draft |-> CreateDefaultConfig, saved |-> CreateDefaultConfig,
           state |-> "pristine", dialog |-> None, prompt |-> "none", disabled |-> {},
           active |-> TRUE, checked |-> FALSE]
Danger(c) == (IF c.approvalPolicy = "never" THEN {"never"} ELSE {})
             \cup (IF c.filesystemAccessPolicy = "unrestricted" THEN {"unrestricted"} ELSE {})

Env == bound.env
SnapshotContext(c) == CapabilityContextFromSnapshot(Resolve(c, Env), Env)
\* The current route: the model's provider is selected and its API is supported; it
\* counts as active while Pi has no model.
FormatActivationStatus(c) == Env.selected => Env.api /\ Env.provider \in c.providers

Init ==
    /\ bound \in Bounds
    /\ StoreInit(bound.file, bound.backup)
    /\ ui = Closed /\ cache = <<>>
    /\ confirmed = {} /\ overwritten = FALSE /\ seen = TRUE
    /\ consented = UNION {Danger(f.config) : f \in {g \in {file, backup} : Whole(g)}}

Spend(field) == bound[field] > 0 /\ bound' = [bound EXCEPT ![field] = @ - 1]

-----------------------------------------------------------------------------
(* The rows of the four categories.                                          *)

GeneralRows == {"providers", "status", "reset"}
ToolsRows == {"backgroundSessions", "approvalPolicy", "filesystemAccessPolicy", "viewImage",
              "imageGeneration"}
CodexRows(m) == {"serviceTier", "verbosity", "transport", "webSearch", "compaction",
                 "compactNow"}
                \cup (IF m.draft.compaction = "auto" THEN {"autoCompactTokenLimit"} ELSE {})
DiagnosticsRows == {"export"}
CompactNowEnabled(m) == m.state # "dirty" /\ m.draft.compaction # "off" /\ m.active
\* Rows whose setting was unsupported when the overlay opened are disabled.
Enabled(m, r) ==
    /\ r \in GeneralRows \cup ToolsRows \cup CodexRows(m) \cup DiagnosticsRows
    /\ r \notin m.disabled
    /\ r = "compactNow" => CompactNowEnabled(m)

MarkDirty(m) == [m EXCEPT !.state = "dirty"]
Edited(m, c) == MarkDirty([m EXCEPT !.draft = c])

CycleThrough(value, values) ==
    LET i == CHOOSE j \in DOMAIN values : values[j] = value
    IN  values[(i % Cardinality(DOMAIN values)) + 1]
FlipAutoOff(value) == IF value = "auto" THEN "off" ELSE "auto"
ToggleFocused(c, r) == [c EXCEPT ![r] = ~@]
\* cycleFocused on an enum row other than the two policies.
CycleFocused(c, r) ==
    CASE r \in {"viewImage", "imageGeneration"} -> [c EXCEPT ![r] = FlipAutoOff(@)]
      [] r = "serviceTier" ->
            [c EXCEPT ![r] = CycleThrough(@, <<"default", "priority", "flex">>)]
      [] r = "verbosity" -> [c EXCEPT ![r] = CycleThrough(@, <<"low", "medium", "high">>)]
      [] r = "transport" -> [c EXCEPT ![r] = CycleThrough(@, <<"auto", "sse">>)]
      [] r = "webSearch" ->
            [c EXCEPT ![r] = CycleThrough(@, <<"disabled", "cached", "indexed", "live">>)]
      [] r = "compaction" ->
            [c EXCEPT !.compaction = IF @ = "off" THEN "auto" ELSE "off",
                      !.autoCompactTokenLimit = ModelLimit]

-----------------------------------------------------------------------------
(* What the ends of tasks and the dialogs do to the model.                   *)

\* A plausible bug: a late result is applied to a closed overlay.
MarkSaved_Late(m, live, c) ==
    [m EXCEPT !.saved = c, !.draft = c, !.active = FormatActivationStatus(c), !.state = "saved"]
MarkSaved(m, live, c) ==
    IF ~live THEN m
    ELSE [m EXCEPT !.saved = c, !.draft = c, !.active = FormatActivationStatus(c),
                   !.state = "saved"]
ReplaceWithSaved(m, live, c) ==
    IF ~live THEN m ELSE [MarkSaved(m, live, c) EXCEPT !.dialog = None, !.checked = FALSE]
\* A plausible bug: a failed save is shown as a clean draft.
MarkError_Clean(m, live, state) == IF live THEN [m EXCEPT !.state = "pristine"] ELSE m
MarkError(m, live, state) == IF live THEN [m EXCEPT !.state = state] ELSE m
Discard(m) == [m EXCEPT !.draft = m.saved, !.state = "pristine", !.dialog = None]
Dispose(m) == [m EXCEPT !.phase = "disposed", !.dialog = None, !.prompt = "none"]
\* The tasks of a disposed overlay go on, their results are dropped.
Detach(ts) == [t \in TaskIds |-> [ts[t] EXCEPT !.live = FALSE]]

-----------------------------------------------------------------------------
(* The capability cache.                                                     *)

Request(c) ==
    LET k == CapabilityCacheKey(c)
    IN  cache' = [l \in DOMAIN cache \cup {k} |->
                    IF l \in DOMAIN cache THEN cache[l] ELSE [ready |-> FALSE, config |-> c]]
Resolved(c) == LET k == CapabilityCacheKey(c) IN k \in DOMAIN cache /\ cache[k].ready
CachedContext(c) ==
    CapabilityContextFromSnapshot(Resolve(cache[CapabilityCacheKey(c)].config, Env), Env)

ResolveSettles(k) ==
    /\ ~cache[k].ready
    /\ cache' = [cache EXCEPT ![k].ready = TRUE]
    /\ UNCHANGED <<storeVars, ui, confirmed, consented, overwritten, seen, bound>>
\* The bridge or its answer fails: everyone who waits for the entry is told.
ResolveFails(k) ==
    /\ ~cache[k].ready /\ Spend("faults")
    /\ cache' = [l \in DOMAIN cache \ {k} |-> cache[l]]
    /\ tasks' = [t \in TaskIds |->
                    IF At(t, "resolving") /\ CapabilityCacheKey(tasks[t].config) = k
                    THEN [tasks[t] EXCEPT !.step = IF tasks[t].op = "load" THEN "unresolved"
                                                              ELSE "failed"]
                    ELSE tasks[t]]
    /\ UNCHANGED <<file, backup, told, prev, writer, overlapped, damaged,
                   ui, confirmed, consented, overwritten, seen>>

-----------------------------------------------------------------------------
(* openSettingsOverlay                                                       *)

OpenSettings(t) ==
    /\ ui.phase \in {"closed", "disposed"} /\ Spend("keys")
    /\ Begin(t, Task("load", "load", "self", CreateDefaultConfig, CreateDefaultConfig))
    /\ ui' = [Closed EXCEPT !.phase = "opening"]
    /\ UNCHANGED <<file, backup, told, prev, writer, damaged,
                   cache, confirmed, consented, overwritten, seen>>
\* A plausible bug: the settings of the Tools category are left out.
DisabledReasons_CodexOnly(c, x) == Unsupported(c, x) \ ToolsRows
DisabledReasons(c, x) ==
    Unsupported(c, x) \cup (IF "compaction" \in Unsupported(c, x) THEN {"compactNow"} ELSE {})
Opens(t, checked, disabled) ==
    LET c == tasks[t].config
    IN  /\ ui' = [Closed EXCEPT !.phase = "open", !.draft = c, !.saved = c,
                                !.disabled = disabled, !.checked = checked,
                                !.active = FormatActivationStatus(c)]
        /\ confirmed' = Danger(c) /\ overwritten' = FALSE
        /\ Ends(t)
\* The capabilities of the loaded configuration are resolved before rendering; an
\* overlay whose resolution fails, or without a model, disables no row.
ResolveForOverlay(t) ==
    /\ tasks[t].op = "load" /\ tasks[t].by = "self" /\ At(t, "loaded") /\ Env.selected
    /\ Request(tasks[t].config) /\ Goes(t, "resolving")
    /\ UNCHANGED <<file, backup, told, prev, writer, overlapped, damaged,
                   ui, confirmed, consented, overwritten, seen, bound>>
ShowOverlay(t) ==
    /\ tasks[t].op = "load" /\ tasks[t].by = "self"
    /\ \/ /\ At(t, "resolving") /\ Resolved(tasks[t].config)
          /\ Opens(t, TRUE, DisabledReasons(tasks[t].config, CachedContext(tasks[t].config)))
       \/ At(t, "loaded") /\ ~Env.selected /\ Opens(t, FALSE, {})
       \/ At(t, "unresolved") /\ Opens(t, FALSE, {})
    /\ UNCHANGED <<file, backup, told, prev, writer, overlapped, damaged,
                   cache, consented, seen, bound>>
LoadFailed(t) ==
    /\ tasks[t].op = "load" /\ tasks[t].by = "self" /\ At(t, "failed")
    /\ Ends(t) /\ ui' = Closed
    /\ UNCHANGED <<file, backup, told, prev, writer, overlapped, damaged,
                   cache, confirmed, consented, overwritten, seen, bound>>

-----------------------------------------------------------------------------
(* Keys.  While a Pi-owned prompt is shown the overlay is hidden.            *)

Interactive == ui.phase = "open" /\ ui.prompt = "none" /\ ui.dialog = None
UntouchedByKeys == <<file, backup, told, prev, writer, damaged, cache, seen>>
ModelOnly == UNCHANGED <<UntouchedByKeys, tasks, overlapped, consented, overwritten>>
Focused(r) == Interactive /\ r \in bound.rows /\ Enabled(ui, r) /\ Spend("keys")

Toggle(r) ==
    /\ r \in {"backgroundSessions", "status"} /\ Focused(r)
    /\ ui' = Edited(ui, ToggleFocused(ui.draft, r))
    /\ UNCHANGED confirmed /\ ModelOnly
Cycle(r) ==
    /\ r \in {"viewImage", "imageGeneration", "serviceTier", "verbosity", "transport",
              "webSearch", "compaction"}
    /\ Focused(r)
    /\ ui' = Edited(ui, CycleFocused(ui.draft, r))
    /\ UNCHANGED confirmed /\ ModelOnly
\* A plausible bug: the dialog opens on the dangerous choice.
SecurityDialog_Armed(kind) == [kind |-> kind, focus |-> 1]
\* The dialog opens on Cancel.
SecurityDialog(kind) == Dialog(kind)
\* The safe policy is chosen at once, the dangerous one asks first.
CyclePolicy(r, safe, dangerous, kind) ==
    /\ Focused(r)
    /\ IF ui.draft[r] = safe
       THEN ui' = [ui EXCEPT !.dialog = SecurityDialog(kind)] /\ UNCHANGED confirmed
       ELSE /\ ui' = Edited(ui, [ui.draft EXCEPT ![r] = safe])
            /\ confirmed' = confirmed \ {dangerous}
    /\ ModelOnly
OpenDialog(kind) ==
    /\ kind \in {"help", "reset-confirm"} /\ Interactive /\ Spend("keys")
    /\ kind = "reset-confirm" => "reset" \in bound.rows
    /\ kind = "help" => "help" \in bound.rows
    /\ ui' = [ui EXCEPT !.dialog = Dialog(kind)]
    /\ UNCHANGED confirmed /\ ModelOnly
\* Rows that open a prompt of Pi.
OpenPrompt(r) ==
    /\ r \in {"autoCompactTokenLimit", "providers", "export", "compactNow"} /\ Focused(r)
    /\ ui' = [ui EXCEPT !.prompt = r]
    /\ UNCHANGED confirmed /\ ModelOnly

BeginSave(t, op) ==
    /\ \/ /\ ~ParseConfig(ui.draft)
          /\ ui' = [MarkError(ui, TRUE, "validation-error") EXCEPT !.dialog = None]
          /\ UNCHANGED <<cache, tasks, overlapped>>
       \/ /\ ParseConfig(ui.draft)
          /\ ui' = [ui EXCEPT !.state = "saving", !.dialog = None]
          /\ Begin(t, Task(op, "resolving", "self", ui.draft, ui.draft))
          /\ IF Env.selected THEN Request(ui.draft) ELSE UNCHANGED cache
    /\ UNCHANGED <<file, backup, told, prev, writer, damaged,
                   confirmed, consented, overwritten, seen>>
Save(t) == Interactive /\ Spend("keys") /\ BeginSave(t, "save")
Close == /\ ui' = Dispose(ui) /\ tasks' = Detach(tasks)
         /\ UNCHANGED <<UntouchedByKeys, overlapped, confirmed, consented, overwritten>>
\* Escape asks only in the state "dirty".
Escape ==
    /\ Interactive
    /\ \/ ui.state # "dirty" /\ Close /\ UNCHANGED bound
       \/ /\ ui.state = "dirty"
          /\ ui' = [ui EXCEPT !.dialog = Dialog("dirty-close")]
          /\ UNCHANGED <<confirmed, bound>> /\ ModelOnly
\* Pi closes the overlay, a session shutdown for one.
PiDisposes == ui.phase = "open" /\ Spend("faults") /\ Close

-----------------------------------------------------------------------------
(* Keys of a dialog.                                                         *)

Options(kind) == CASE kind = "dirty-close" -> <<"Continue editing", "Discard changes", "Save">>
                   [] kind = "reset-confirm" -> <<"Cancel", "Reset to defaults">>
                   [] kind = "approval-never-confirm" -> <<"Cancel", "never">>
                   [] kind = "filesystem-unrestricted-confirm" -> <<"Cancel", "unrestricted">>
                   [] kind = "help" -> <<"Cancel">>
Selected == Options(ui.dialog.kind)[ui.dialog.focus + 1]
InDialog == ui.phase = "open" /\ ui.prompt = "none" /\ ui.dialog # None
DialogMove(f) ==
    /\ InDialog /\ ui.dialog.kind # "help" /\ f \in {ui.dialog.focus - 1, ui.dialog.focus + 1}
    /\ f + 1 \in DOMAIN Options(ui.dialog.kind)
    /\ ui' = [ui EXCEPT !.dialog.focus = f]
    /\ consented' = consented \cup ({Options(ui.dialog.kind)[f + 1]} \cap {"never", "unrestricted"})
    /\ UNCHANGED <<UntouchedByKeys, tasks, overlapped, overwritten, confirmed, bound>>
DialogCancel ==
    /\ InDialog
    /\ ui' = [ui EXCEPT !.dialog = None]
    /\ UNCHANGED <<confirmed, bound>> /\ ModelOnly
DiscardAndClose ==
    /\ InDialog /\ Selected = "Discard changes"
    /\ ui' = Dispose(Discard(ui)) /\ tasks' = Detach(tasks)
    /\ confirmed' = Danger(ui.saved)
    /\ UNCHANGED <<UntouchedByKeys, overlapped, consented, overwritten, bound>>
SaveAndClose(t) ==
    InDialog /\ Selected = "Save" /\ BeginSave(t, "save-and-close") /\ UNCHANGED bound
ConfirmReset(t) ==
    /\ InDialog /\ Selected = "Reset to defaults"
    /\ ui' = [ui EXCEPT !.dialog = None]
    /\ Begin(t, Task("reset", "current", "self", CreateDefaultConfig, ui.draft))
    /\ UNCHANGED <<file, backup, told, prev, writer, damaged,
                   cache, confirmed, consented, overwritten, seen, bound>>
ConfirmPolicy ==
    /\ InDialog /\ Selected \in {"never", "unrestricted"}
    /\ ui' = [Edited(ui, [ui.draft EXCEPT
                 ![IF Selected = "never" THEN "approvalPolicy" ELSE "filesystemAccessPolicy"]
                     = Selected]) EXCEPT !.dialog = None]
    /\ confirmed' = confirmed \cup {Selected}
    /\ UNCHANGED bound /\ ModelOnly

-----------------------------------------------------------------------------
(* Prompts of Pi.  A cancelled prompt, or one whose overlay was disposed,    *)
(* changes nothing.                                                          *)

Prompting(r) == ui.phase = "open" /\ ui.prompt = r
Answered(m) == /\ ui' = [m EXCEPT !.prompt = "none"]
               /\ UNCHANGED <<confirmed, bound>> /\ ModelOnly
CancelPrompt == ui.prompt # "none" /\ Prompting(ui.prompt) /\ Answered(ui)
\* The compaction itself is the manual compaction of ProviderRequest; the export
\* asks for a path and writes a file of its own.
Confirm(r) == r \in {"compactNow", "export"} /\ Prompting(r) /\ Answered(ui)
SetAutoCompactTokenLimit(m, n) ==
    IF m.draft.compaction = "auto"
    THEN Edited(m, [m.draft EXCEPT !.autoCompactTokenLimit = n]) ELSE m
EditAutoCompactTokenLimit ==
    /\ Prompting("autoCompactTokenLimit")
    /\ \/ Answered(MarkError(ui, TRUE, "validation-error"))
       \/ \E n \in Limits \cup {ModelLimit} : Answered(SetAutoCompactTokenLimit(ui, n))
EditProviders ==
    /\ Prompting("providers")
    /\ \/ Answered(MarkError(ui, TRUE, "validation-error"))
       \/ \E p \in ProviderInputs : Answered(Edited(ui, [ui.draft EXCEPT !.providers = p]))

-----------------------------------------------------------------------------
(* The tasks of this process.                                                *)

\* applyDraft: the draft the save began with, checked in the context resolved for it.
ApplyDraft(t) ==
    /\ tasks[t].op \in {"save", "save-and-close"} /\ At(t, "resolving")
    /\ LET c == tasks[t].config
       IN  /\ Env.selected => Resolved(c)
           /\ Goes(t, IF ValidateConfigForSave(c, IF Env.selected THEN CachedContext(c)
                                                                   ELSE EmptyContext)
                      THEN "current" ELSE "rejected")
    /\ UNCHANGED <<file, backup, told, prev, writer, overlapped, damaged, uiVars, bound>>
\* A plausible bug: the listeners hear only of saves whose overlay is still open.
Notify_Live(t) == told' = IF tasks[t].live THEN {tasks[t].config} ELSE told
Notify(t) == told' = {tasks[t].config}
Overwrites(t) == tasks[t].live /\ ui.draft # tasks[t].base
\* The listeners are told, and the overlay is updated in a microtask that follows, before
\* any key or timer.
SaveEnds(t) ==
    /\ tasks[t].op \in {"save", "save-and-close"} /\ tasks[t].by = "self" /\ At(t, "written")
    /\ Notify(t)
    /\ LET saved == MarkSaved(ui, tasks[t].live, tasks[t].config)
           ended == [tasks EXCEPT ![t] = Idle]
       IN  IF tasks[t].op = "save-and-close" /\ tasks[t].live
           THEN ui' = Dispose(saved) /\ tasks' = Detach(ended)
           ELSE ui' = saved /\ tasks' = ended
    /\ overwritten' = (overwritten \/ Overwrites(t))
    /\ UNCHANGED <<file, backup, prev, writer, overlapped, damaged,
                   cache, confirmed, consented, seen, bound>>
ResetEnds(t) ==
    /\ tasks[t].op = "reset" /\ At(t, "written")
    /\ Notify(t) /\ Ends(t)
    /\ ui' = ReplaceWithSaved(ui, tasks[t].live, tasks[t].config)
    /\ confirmed' = IF tasks[t].live THEN {} ELSE confirmed
    /\ overwritten' = (overwritten \/ Overwrites(t))
    /\ UNCHANGED <<file, backup, prev, writer, overlapped, damaged,
                   cache, consented, seen, bound>>
WriteEndsBadly(t) ==
    /\ tasks[t].op \in {"save", "save-and-close", "reset"} /\ tasks[t].by = "self"
    /\ \E pair \in {<<"failed", "write-error">>, <<"rejected", "validation-error">>} :
          At(t, pair[1]) /\ ui' = MarkError(ui, tasks[t].live, pair[2])
    /\ Ends(t)
    /\ UNCHANGED <<file, backup, told, prev, writer, overlapped, damaged,
                   cache, confirmed, consented, overwritten, seen, bound>>
\* ConfigurationService.inspect offers it and restoreBackup performs it.
Restore(t) ==
    /\ file.is # "absent" /\ ~Whole(file) /\ Whole(backup) /\ Spend("keys")
    /\ Begin(t, Task("restore", "restore", "self", CreateDefaultConfig, CreateDefaultConfig))
    /\ UNCHANGED <<file, backup, told, prev, writer, damaged, uiVars>>
RestoreEnds(t) ==
    /\ tasks[t].op = "restore" /\ tasks[t].step \in {"written", "failed"} /\ Ends(t)
    /\ IF At(t, "written") THEN Notify(t) ELSE UNCHANGED told
    /\ UNCHANGED <<file, backup, prev, writer, overlapped, damaged, uiVars, bound>>

StoreActs(t) ==
    /\ StoreStep(t)
    /\ seen' = IF tasks[t].by = "other" THEN seen /\ file' = file
               ELSE seen \/ tasks'[t].step \in {"loaded", "written"}
    /\ UNCHANGED <<ui, cache, confirmed, consented, overwritten, bound>>
StorageFault(t) == StorageFails(t) /\ Spend("faults") /\ UNCHANGED uiVars

-----------------------------------------------------------------------------
(* Another Pi process, and a crash of this one.                              *)

OtherBegins(t) ==
    /\ Spend("others")
    /\ \/ \E c \in OtherConfigs :
             /\ Begin(t, Task("save", "current", "other", c, c))
             /\ consented' = consented \cup Danger(c)
       \/ /\ Begin(t, Task("load", "load", "other", CreateDefaultConfig, CreateDefaultConfig))
          /\ UNCHANGED consented
    /\ UNCHANGED <<file, backup, told, prev, writer, damaged,
                   ui, cache, confirmed, overwritten, seen>>
OtherTaskEnds(t) == OtherEnds(t) /\ UNCHANGED <<uiVars, bound>>
CrashAndRestart ==
    /\ Spend("faults") /\ Crash
    /\ ui' = Closed /\ cache' = <<>> /\ seen' = TRUE
    /\ UNCHANGED <<confirmed, consented, overwritten>>

UserKeys ==
    \/ \E r \in bound.rows : Toggle(r) \/ Cycle(r) \/ OpenPrompt(r)
    \/ CyclePolicy("approvalPolicy", "on-request", "never", "approval-never-confirm")
    \/ CyclePolicy("filesystemAccessPolicy", "workspace", "unrestricted",
                   "filesystem-unrestricted-confirm")
    \/ \E kind \in {"help", "reset-confirm"} : OpenDialog(kind)
    \/ \E f \in 0..2 : DialogMove(f)
    \/ Escape \/ DialogCancel \/ DiscardAndClose \/ ConfirmPolicy
    \/ CancelPrompt \/ EditAutoCompactTokenLimit \/ EditProviders
    \/ \E r \in {"compactNow", "export"} : Confirm(r)
TaskSteps(t) ==
    \/ OpenSettings(t) \/ Save(t) \/ SaveAndClose(t) \/ ConfirmReset(t) \/ Restore(t)
    \/ ResolveForOverlay(t) \/ ShowOverlay(t) \/ LoadFailed(t) \/ ApplyDraft(t)
    \/ StoreActs(t) \/ SaveEnds(t) \/ ResetEnds(t) \/ WriteEndsBadly(t) \/ RestoreEnds(t)
    \/ OtherTaskEnds(t)
Faults == PiDisposes \/ CrashAndRestart \/ (\E t \in TaskIds : StorageFault(t))
          \/ (\E k \in DOMAIN cache : ResolveFails(k))
Next ==
    \/ UserKeys \/ Faults
    \/ \E t \in TaskIds : TaskSteps(t) \/ OtherBegins(t)
    \/ \E k \in DOMAIN cache : ResolveSettles(k)
Spec == Init /\ [][Next]_vars

-----------------------------------------------------------------------------
(* Properties.                                                               *)

\* Every variable keeps its type; a dialog is open only in an open overlay without
\* a prompt, and a cached resolution is filed under its own key.
TypeOK ==
    /\ StoreTypeOK
    /\ ui.phase \in {"closed", "opening", "open", "disposed"}
    /\ ui.state \in {"pristine", "dirty", "saving", "saved", "validation-error", "write-error"}
    /\ ParseConfig(ui.saved)
    /\ ui.dialog # None => ui.phase = "open" /\ ui.prompt = "none"
    /\ confirmed \cup consented \subseteq {"never", "unrestricted"}
    /\ \A k \in DOMAIN cache : CapabilityCacheKey(cache[k].config) = k

\* Overlay and store together: what an open overlay presents as pristine or saved
\* is what the file holds, unless operations overlapped, another process has
\* written since, or one of this process is about to.
ShownAsSavedIsStored ==
    /\ ui.phase = "open" /\ ui.state \in {"pristine", "saved"} /\ ~overlapped /\ seen
    /\ Running = {}
    => file = Json(ui.saved) /\ ui.draft = ui.saved

\* Listeners: after a write of this process that overlapped with no other, the
\* policy listeners hold the configuration of the file, even if the overlay was
\* closed, or its save was reported as an error, before the write ended.
ToldIsStored ==
    /\ told # {} /\ ~overlapped /\ writer = "self"
    /\ ~\E t \in TaskIds : At(t, "written")
    => told = {file.config}

\* Security policies: the draft suppresses approvals or lifts the workspace
\* restriction only if the user's last word did, or the loaded file says so (a
\* finished save that overwrites newer edits apart); and what is stored or about
\* to be was enabled by moving to the confirming choice, here or elsewhere.
DangerIsConfirmed ==
    /\ ui.phase = "open" /\ ~overwritten => Danger(ui.draft) \subseteq confirmed
    /\ ui.phase = "open" => Danger(ui.draft) \subseteq consented
    /\ \A t \in Running : Danger(tasks[t].config) \subseteq consented
    /\ Whole(file) => Danger(file.config) \subseteq consented

\* Overlay: once disposed it is never changed again by the saves, resets, prompts
\* and resolutions it started.
DisposedIsFrozen ==
    [][ui.phase = "disposed" /\ ui'.phase = "disposed" => ui' = ui]_vars

\* Rules: whatever a save refuses for want of a capability, the evaluation of the
\* same draft in the same context shows as unsupported.  The exception is a limit
\* under a context window that is no safe integer.
RefusalsAreExplained ==
    ui.phase = "open" =>
        \A x \in Contexts \cup {SnapshotContext(ui.draft)} :
            CollectCapabilityIssues(ui.draft, x)
                \subseteq Unsupported(ui.draft, x) \cup Unexplained(ui.draft, x)

\* Overlay: a save can be refused only for a setting whose row is disabled with a
\* reason or that the user changed (turning compaction on brings its limit along),
\* in an overlay whose capabilities were resolved and not reset since.  The limit
\* that no evaluation shows is the exception.
RefusedIsVisible ==
    ui.phase = "open" /\ ui.checked =>
        \A r \in CollectCapabilityIssues(ui.draft, SnapshotContext(ui.draft)) :
            \/ r \in ui.disabled \/ ui.draft[r] # ui.saved[r]
            \/ r = "autoCompactTokenLimit" /\ ui.draft.compaction # ui.saved.compaction
            \/ r \in Unexplained(ui.draft, SnapshotContext(ui.draft))

\* Capability cache: the snapshot found under the key of a configuration is the one
\* its own resolution would give.
CachedSnapshotIsExact ==
    \A t \in TaskIds : At(t, "resolving") /\ Env.selected =>
        LET c == tasks[t].config
        IN  Resolve(cache[CapabilityCacheKey(c)].config, Env) = Resolve(c, Env)

\* The files are sound: the state is typed, only the creation of the default
\* tears the configuration file, and the backup is what a save replaced.
FilesAreSound == TypeOK /\ TornOnlyByCreation /\ BackupIsPredecessor

\* What the user is shown as saved, and what listeners are told, is stored.
ViewsAreStored == ShownAsSavedIsStored /\ ToldIsStored

\* A save is refused only for a reason the user can see: the rules explain each
\* refusal, and a refused setting has a disabled row or was changed by the user;
\* a limit under a window that is no safe integer is the one exception.
RefusalsAreVisible == RefusalsAreExplained /\ RefusedIsVisible
=============================================================================
