\* Three processors, three services in a row.
CONSTANTS
  traces = traces
  logs = logs
  metrics = metrics
  Nil = Nil
  Processor <- MCProcessors
  MaxReloads = 3
SPECIFICATION FairSpec
INVARIANT TypeOK
INVARIANT QuietAfterLastStop
INVARIANT OneLoopPerEndpoint
PROPERTY ConfigStableUnderLoops
PROPERTY ShutdownCompletes
CHECK_DEADLOCK FALSE
