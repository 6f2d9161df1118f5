SPECIFICATION Spec
CONSTANTS
  noise = noise
  checkout = checkout
  None = None
  LogStream <- MCLogStream
  TraceStream <- MCTraceStream
  Rate <- MCRate
  Second = 2
  MetricsEvery = 3
  ReportEvery = 3
  ExportTimeout = 3
  MaxTime = 6
INVARIANT TypeOK
INVARIANT RateKept
INVARIANT EveryRecordAccounted
INVARIANT ReportsAddUp
PROPERTY ShutdownFinishes
