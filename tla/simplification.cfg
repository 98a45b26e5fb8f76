SPECIFICATION Spec
INVARIANTS
  ClausesIndexed
  AnswersRight
PROPERTIES
  EliminateEnds
CHECK_DEADLOCK FALSE
