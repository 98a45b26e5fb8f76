SPECIFICATION Spec
INVARIANTS
  ClausesMeanFormulas
  
  PairsRelatedOnce
CHECK_DEADLOCK FALSE
