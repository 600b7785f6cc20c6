SPECIFICATION Spec
CONSTANTS
    m1 = m1
    m2 = m2
    s1 = s1
    s2 = s2
    None = None
    Models = {m1, m2}
    Slots <- MCSlots
    Claim <- MCClaim
    AuthOptions <- MCAuthOptions
    EntryKinds = {"message"}
    InitialModel = m1
    InitialAuth <- MCInitialAuth
    InitialKinds <- MCInitialKinds
    Bounds <- MCBounds
SYMMETRY Symmetric
CHECK_DEADLOCK FALSE
INVARIANTS
    RequestsAreComplete
    CheckpointsAreSound
    CompactionIsExclusive
PROPERTIES
    AccountingIsCurrent
    DispatchIsApproved
