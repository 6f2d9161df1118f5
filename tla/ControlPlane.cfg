SPECIFICATION Spec
CONSTANTS
  Nil = Nil
  None = None
  Operator = {o1, o2}
  Seed <- MCSeed
  Form <- MCForm
  Identifier <- MCIdentifier
  MaxThrottle = 1000000000
  MaxRules = 2
  MaxClicks = 3
INVARIANT TypeOK
INVARIANT BadgeMirrorsDataPlane
INVARIANT PercentIsKept
INVARIANT SeesOwnChanges
PROPERTY ClickDoesWhatItSays
CHECK_DEADLOCK FALSE
