SPECIFICATION FairSpec
CONSTANTS
    Requests = {r1}
    Controls = {c1}
    MaxRequestIds = 4
    MaxEvents = 1
INVARIANTS
    FramesAreAttributed
    ShutdownQuiesces
PROPERTIES
    DrainingEnds
