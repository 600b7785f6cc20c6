SPECIFICATION FairSpec
CONSTANTS
    Polls = {p1}
    MaxRetained = 1
    MaxWritten = 2
INVARIANTS
    OutputIsAccountedFor
    ProcessesAreTracked
PROPERTIES
    WaitersEnd
