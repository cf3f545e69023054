CONSTANTS
  MaxJobs = 2
  Concurrency = 1
  Workers = 1
  ModelCount = 1
  MaxBatches = 1
SPECIFICATION Spec
INVARIANTS EachTargetIsProcessed
