SPECIFICATION FairSpec
CONSTANTS
    NumChannels = 1
    Transfers = {}
    Gemms = {g1, g2}
    LoadsCin = {g1}
    LoadsBias = {g2}
    NoArg = NoArg
    MaxPolls = 2
    BarMayFail = TRUE
INVARIANTS
    RunsWholeDescriptor
    SuccessMeansDone
PROPERTIES
    CallAdvances
    CallReturns
    ServiceSpec
