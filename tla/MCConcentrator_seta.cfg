SPECIFICATION Spec
CONSTANTS
  MaxSeta = 2
  MaxDown = 1
  MaxRx = 1
INVARIANTS
  RestartSurvives
CHECK_DEADLOCK FALSE
