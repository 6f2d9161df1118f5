\* Two ROUTE rules that match different records of one resource.
CONSTANTS
  Nil = Nil
  Ruleset <- MCRulesets
  Batch <- MCBatches
  Number <- MCNumber
  Bucket <- MCBucket
  Republished <- MCRepublished
  MaxPublishes <- MCPublishes
  MaxRefusals <- MCRefusals
  MaxBatches = 1
SPECIFICATION Spec
INVARIANT DestinationFromLaterRule
CHECK_DEADLOCK FALSE
