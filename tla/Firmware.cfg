SPECIFICATION FairSpec
CONSTANTS
    Images = {f1, f2}
    Junk = Junk
    NumWords = 2
    MaxTicks = 1
INVARIANTS
    TypeOK
    BootsWholeImage
    GoodStatusHadNoError
PROPERTIES
    BootAdvances
    BootReturns
