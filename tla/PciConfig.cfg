SPECIFICATION Spec
CONSTANT Machines <- MCMachines
INVARIANTS
    TypeOK
    HandlesFreed
    HandlesLive
    FromOneSource
    ParsesWholeDescriptors
PROPERTIES
    SearchAdvances
    CallReturns
