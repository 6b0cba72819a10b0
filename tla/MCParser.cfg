CONSTANT Sources <- MCSources
SPECIFICATION Spec
INVARIANTS ReadsTheGrammar ContextRestored SpeculationUndone
PROPERTY ParseEnds
CHECK_DEADLOCK FALSE
