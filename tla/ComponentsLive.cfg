SPECIFICATION Spec
CONSTANTS
  Hidden = Hidden
  NoRow = NoRow
PROPERTIES
  EveryWaitEnds
  LeftoversFinished
CHECK_DEADLOCK FALSE
