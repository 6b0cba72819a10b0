SPECIFICATION Spec
CONSTANTS
  Lines <- MCLines
  Inputs <- MCInputs
  Files = {"f"}
  Macros = {"A", "B"}
  MaxIncludeDepth = 1
  Passes = 2
CHECK_DEADLOCK FALSE
INVARIANTS BranchSelection OriginsTrue
