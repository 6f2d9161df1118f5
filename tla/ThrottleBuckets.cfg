\* Two goroutines, three buckets, generations of one key, one ruleset published in between.
CONSTANTS
  t1 = t1
  t2 = t2
  k1 = k1
  k2 = k2
  k3 = k3
  long = long
  None = None
  Thread <- MCThreads
  Key <- MCKeys
  Short <- MCShort
  MaxKeys = 1
  Burst = 1
  MaxCalls = 6
  MaxElapsed = 1
  MaxGroups = 2
SYMMETRY Symmetry
SPECIFICATION Spec
INVARIANT TypeOK
INVARIANT RetentionBounded
INVARIANT OneLimiterPerKey
INVARIANT EvictedOnlyUnderChurn
INVARIANT RateClamped
CHECK_DEADLOCK FALSE
