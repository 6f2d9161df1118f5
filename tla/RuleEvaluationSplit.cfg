\* A SAMPLE rule whose condition not every span of a trace meets.
CONSTANTS
  Nil = Nil
  Ruleset <- MCRulesets
  Batch <- MCBatches
  Number <- MCNumber
  Bucket <- MCBucket
  Republished <- MCRepublished
  MaxPublishes <- MCPublishes
  MaxRefusals <- MCRefusals
  MaxBatches = 1
SPECIFICATION Spec
INVARIANT TracesKeptWhole
CHECK_DEADLOCK FALSE
