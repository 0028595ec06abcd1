SPECIFICATION Spec
CONSTANTS
  CurvePoints = 3
  PWMMax = 2
  DefaultLimits <- Scaled
  Described <- Descriptions
  Placeholder <- Rising
  ForeignCurves <- Foreign
  Watts <- Limits
  MaxDrags = 1
  MaxWrites = 1
INVARIANTS
  DrawnCurveAcceptable
  RefusedOnlyUnderNewFloor
  ResetFollowsFloor
  MovedPointWins
