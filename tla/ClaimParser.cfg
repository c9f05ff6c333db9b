SPECIFICATION Spec
CONSTANT Machines <- MCMachines
INVARIANT NoStructError
