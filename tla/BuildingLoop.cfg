SPECIFICATION FairSpec
CONSTANTS
  Torn = Torn
  BigLog = 100
  MaxIterations = 3
  StagnationThreshold = 2
  MaxRecords = 2
  MaxFaults = 2
INVARIANT TypeOK
INVARIANT CompleteMeansApproved
INVARIANT CompletionHonoured
INVARIANT CircuitOnRecord
PROPERTY Terminates
CHECK_DEADLOCK FALSE
