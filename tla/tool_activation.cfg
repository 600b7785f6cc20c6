SPECIFICATION FairSpec
CONSTANTS
    m1 = m1
    m2 = m2
    x = x
    y = y
    NoModel = NoModel
    Models <- MCModels
    Options <- MCOptions
    Configs <- MCConfigs
    DefaultSelected <- MCDefaultSelected
    Core = {"read", "bash"}
    Additive = {"search"}
    ManagedOrder <- MCManagedOrder
    InitialTools <- MCInitialTools
    MaxOverlapping = 2
    MaxGeneration = 3
    MaxHostChanges = 1
CHECK_DEADLOCK FALSE
INVARIANTS
    ProfileIsCurrent
    PiIsRestored
PROPERTIES
    PendingEnds
