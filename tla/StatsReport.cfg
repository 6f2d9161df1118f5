\* Two consume goroutines, one signal: accounting under every interleaving.
CONSTANTS
  t1 = t1
  t2 = t2
  Thread <- MCThreads
  SignalOrder <- MCOneSignal
  MaxBatch = 2
  MaxObserved = 2
  MaxFailures = 2
  Int4Max = 1
SPECIFICATION FairSpec
INVARIANT TypeOK
INVARIANT Conservation
INVARIANT DropsBacked
PROPERTY CarriedOver
CHECK_DEADLOCK FALSE
