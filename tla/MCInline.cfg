CONSTANTS Designs <- MCDesigns MaxDepth = 4 MaxPasses = 4
SPECIFICATION Spec
INVARIANTS ReadsAsWritten OutputsJoined BindsApplied
CHECK_DEADLOCK FALSE
