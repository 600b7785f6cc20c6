SPECIFICATION Spec
CONSTANTS
    Calls = {k1, k2, k3, k4}
    Resolvers = {k4}
    Shutdowns = 1
SYMMETRY Symmetry
INVARIANTS
    BridgesAreOwned
PROPERTIES
    HealthyClientIsKept
