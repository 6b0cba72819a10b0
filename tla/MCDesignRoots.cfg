CONSTANTS
  Names = {1, 2, 3, 4, 5, 6}
  Descs <- MCDescs
  MaxDescs = 4
  Libraries <- MCLibraries
  Tops = {0, 1, 4, 9}
  Overrides = {0}
SPECIFICATION Spec
INVARIANTS EveryTopRuns DataNamesKept
