SPECIFICATION Spec
CONSTANTS
    NumChannels = 2
    Transfers = {t1, t2}
    Gemms = {}
    LoadsCin = {}
    LoadsBias = {}
    NoArg = NoArg
    MaxPolls = 1
    BarMayFail = TRUE
SYMMETRY Symmetry
INVARIANTS
    QueueEnabledOnlyProgrammed
    InitializedMeansProgrammed
    OneEngineAtATime
    SuccessMeansDone
    ExitMeansDown
PROPERTIES
    BusyEngineUndisturbed
