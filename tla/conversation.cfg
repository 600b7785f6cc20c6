SPECIFICATION Spec
CONSTANTS
    None = None
    Bounds <- MCBounds
CHECK_DEADLOCK FALSE
INVARIANTS
    StreamIsExact
    ReplayIsFaithful
    CallsAreMatched
PROPERTIES
    InputOnlyGrows
