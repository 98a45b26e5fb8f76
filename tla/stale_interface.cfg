SPECIFICATION FramesSpec
CONSTANTS
  Var = {1, 2, 3, 4}
  Schedule <- UFLASchedule
  Valid <- UFLAValid
  Inconsistent <- UFLAInconsistent
  Eager = {"ufsolver"}
  Deducers = {"lasolver", "ufsolver"}
  Forgets = {"ufsolver"}
INVARIANT SatAfterPop
CHECK_DEADLOCK FALSE
