CONSTANTS
    Ports = {0, 1, 7, 8, 15, 16, 17}
    Half = 8
    Lookups = {"found", "HOST_NOT_FOUND", "TRY_AGAIN"}
    HasTimeout = TRUE
    MaxSockets = 2
    MaxSignals = 1
SPECIFICATION Spec
INVARIANTS
    OpenMeansConnected
    ReachesPort
    OwnsItsDescriptor
CHECK_DEADLOCK FALSE
