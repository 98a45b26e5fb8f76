SPECIFICATION MCSpec
CONSTANTS
  Var = {1, 2, 3, 4}
  Schedule <- UFLASchedule
  Valid <- UFLAValid
  Inconsistent <- UFLAInconsistent
  Eager = {"ufsolver"}
  Deducers = {"lasolver", "ufsolver"}
  Forgets = {"ufsolver"}
INVARIANTS
  InSync
  UFLAAnswers
  ArrayAnswers
  ArrayStructure
PROPERTIES
  ReasonsFound
  CheckAnswers
CHECK_DEADLOCK FALSE
