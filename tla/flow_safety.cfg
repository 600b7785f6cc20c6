SPECIFICATION FairSpec
CONSTANTS
    Window = 2
    OutputCapacity = 2
    MaxSequence = 4
INVARIANTS
    TypeOK
    EndToEndWindow
    InOrderWithoutGaps
    OnlyLateResumeIsFatal
PROPERTIES
    ImplementsEventStream
    EmitterProgress
