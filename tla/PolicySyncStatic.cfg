\* The promise of an empty sync_endpoint, against a reload that empties it.
CONSTANTS
  fa = fa
  fb = fb
  p1 = p1
  p2 = p2
  big = big
  Nil = Nil
  Fleet <- OneFleet
  Policy <- TwoPolicies
  TooLarge <- NoneTooLarge
  MaxEdits = 1
  MaxFailures = 0
SPECIFICATION Spec
INVARIANT EmptyEndpointPassesThrough
