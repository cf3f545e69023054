CONSTANTS
  MaxJobs = 3
  Concurrency = 2
  Workers = 2
  ModelCount = 2
  MaxBatches = 2
SPECIFICATION FairSpec
INVARIANTS TypeOK BooksBalance
PROPERTIES CancelStops BatchIsJoined
