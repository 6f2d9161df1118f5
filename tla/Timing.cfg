\* Steps of five seconds: timeout 10 s, stale after 30 s, refreshed every 10 s.
CONSTANTS
  Config <- MCConfig
  MinInterval = 1
  RequestTimeout = 2
  Latency = 1
  Stale = 6
  RefreshEvery = 2
  None = None
  MaxTime = 13
  MaxEdits = 1
  MaxStarts = 2
SPECIFICATION Spec
INVARIANT TypeOK
INVARIANT PollsOnTime
INVARIANT EnforcedInTime
INVARIANT DeadShownOffline
PROPERTY OfflineMeansMissed
