SPECIFICATION Spec
CONSTANTS
  W = 3
  MaxWidth = 9
  IndexBits = 5
  PowCap = 8
  Widest = 7
  Lefts <- MCLefts
  Operands <- MCOperands
  Counts <- MCCounts
  Indices <- MCIndices
INVARIANTS Canonical Faithful
