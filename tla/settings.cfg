SPECIFICATION Spec
CONSTANTS
    t1 = t1
    t2 = t2
    TaskIds <- MCTaskIds
    ProviderIds = {"openai-codex", "other"}
    Foreign <- MCForeign
    Limits = {4, 5}
    ProviderInputs <- MCProviderInputs
    OtherConfigs <- MCOtherConfigs
    Contexts <- MCContexts
    Bounds <- MCBounds
SYMMETRY Symmetric
CHECK_DEADLOCK FALSE
INVARIANTS
    FilesAreSound
    ViewsAreStored
    DangerIsConfirmed
    RefusalsAreVisible
    CachedSnapshotIsExact
PROPERTIES
    DisposedIsFrozen
