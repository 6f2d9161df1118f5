\* "Sums across reports are exact": refuted by a stored but unanswered report.
CONSTANTS
  t1 = t1
  t2 = t2
  Thread <- OneThread
  SignalOrder <- MCOneSignal
  MaxBatch = 1
  MaxObserved = 1
  MaxFailures = 1
  Int4Max = 10
SPECIFICATION Spec
INVARIANT SumsAcrossReportsExact
CHECK_DEADLOCK FALSE
