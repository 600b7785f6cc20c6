SPECIFICATION FairSpec
CONSTANTS
    Operations = {o1}
    Kinds = {"patch", "image", "process", "stdin", "network", "imageGeneration"}
    MaxDecisions = 2
INVARIANTS
    AuthorizedEffects
    AbortedIsUntouched
PROPERTIES
    CancelledOperationEnds
