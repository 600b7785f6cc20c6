SPECIFICATION FairSpec
CONSTANTS
    MaxOutput = 2
    MaxWritten = 4
INVARIANTS
    ResultIsWhole
PROPERTIES
    CommandEnds
