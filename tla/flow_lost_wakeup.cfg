SPECIFICATION FairSpec
CONSTANTS
    Window = 1
    OutputCapacity = 1
    MaxSequence = 2
PROPERTIES
    ResumesAfterAcknowledgement
