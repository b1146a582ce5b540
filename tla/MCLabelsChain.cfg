CONSTANT Inputs <- MCInputs
SPECIFICATION Spec
INVARIANT ChainFollowed
