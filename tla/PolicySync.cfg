\* Two fleets, reload between them, failures and a process exit.
CONSTANTS
  fa = fa
  fb = fb
  p1 = p1
  p2 = p2
  big = big
  Nil = Nil
  Fleet <- TwoFleets
  Policy <- ThreePolicies
  TooLarge <- OneTooLarge
  MaxEdits = 2
  MaxFailures = 2
SPECIFICATION FairSpec
INVARIANT TypeOK
INVARIANT TagIsPublished
INVARIANT NotModifiedMeansCurrent
PROPERTY ImplementsRuleCache
PROPERTY EventuallyEnforced
