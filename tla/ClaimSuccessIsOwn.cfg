SPECIFICATION Spec
CONSTANTS
    NumChannels = 1
    Transfers = {t1, t2}
    Gemms = {}
    LoadsCin = {}
    LoadsBias = {}
    NoArg = NoArg
    MaxPolls = 1
    BarMayFail = FALSE
INVARIANT SuccessIsOwnTransfer
