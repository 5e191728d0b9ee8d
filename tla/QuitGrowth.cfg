\* Commands that arrive while the proxy is quitting.
SPECIFICATION Spec
CONSTANTS
  a = a
  b = b
  t1 = t1
  t2 = t2
  BATCH = BATCH
  REPLY = REPLY
  Category = {a}
  Tagged = {}
  general_workers = 1
  batch_threads = 0
  reply_threads = 0
  cat_reserved <- OneReserved
  cat_max_queue <- Queues
  MaxJobs = 3
INVARIANT WorkersAllocatedOnce
