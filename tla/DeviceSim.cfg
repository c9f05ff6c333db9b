SPECIFICATION Spec
CONSTANTS
    NumChannels = 2
    Transfers = {t1, t2}
    Gemms = {g1}
    LoadsCin = {g1}
    LoadsBias = {}
    NoArg = NoArg
    MaxPolls = 1
    BarMayFail = FALSE
SYMMETRY Symmetry
INVARIANTS
    TypeOK
    FlagsMatchCard
    StatusIdleIsIdle
