\* Two tagged threads beside the pool, under the fairness of FairSpec; also an
\* object that is never started.
SPECIFICATION FairSpec
CONSTANTS
  a = a
  b = b
  t1 = t1
  t2 = t2
  BATCH = BATCH
  REPLY = REPLY
  Category = {b}
  Tagged = {t1, t2}
  general_workers = 1
  batch_threads = 0
  reply_threads <- Unset
  cat_reserved <- OneReserved
  cat_max_queue <- Queues
  MaxJobs = 2
INVARIANTS
  WorkerProtocol
PROPERTIES
  TaggedReferenceStable
  EveryJobRuns
  ShutdownCompletes
