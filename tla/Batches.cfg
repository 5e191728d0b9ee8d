\* Two batches handed over by one client, for a pool of two threads and a tagged thread.
CONSTANTS
  Client = {c1}
  Tagged = 1
  Pool = 2
  MaxJobs = 2
  MaxBatches = 2
  MaxTimers = 0
  MaxMessages = 2
SPECIFICATION FairSpec
INVARIANTS TypeOK NoUseAfterFree
PROPERTIES BatchEnds BatchesKeepPromise
