SPECIFICATION Spec
CONSTANTS
    Images = {f1}
    Junk = Junk
    NumWords = 2
    MaxTicks = 1
INVARIANT OkMeansDramUp
