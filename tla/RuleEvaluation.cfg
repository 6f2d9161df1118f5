\* Every pair of rules on every batch of each signal; metrics with publications and refusals.
CONSTANTS
  Nil = Nil
  Ruleset <- MCRulesets
  Batch <- MCBatches
  Number <- MCNumber
  Bucket <- MCBucket
  Republished <- MCRepublished
  MaxPublishes <- MCPublishes
  MaxRefusals <- MCRefusals
  MaxBatches = 1
SPECIFICATION Spec
INVARIANT TypeOK
INVARIANT DropsAreIndependentFilters
INVARIANT EnvelopesKept
INVARIANT MaskedWhereResolved
INVARIANT NobodyDodgesThrottle
INVARIANT CountsAddUp
CHECK_DEADLOCK FALSE
