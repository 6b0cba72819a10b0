CONSTANTS
  Names = {"a", "b", "c", "d", "e", "top", "t", "x", "misc"}
  LibFiles <- MCLibFiles
  DirFiles <- MCDirFiles
  Stem <- MCStem
  Texts <- MCTexts
  Designs <- MCDesigns
SPECIFICATION Spec
INVARIANTS SearchExact SourcesTrue
PROPERTIES Terminates
