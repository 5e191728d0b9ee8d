\* Categories, batch jobs and replies on a pool of at most three threads.
SPECIFICATION Spec
CONSTANTS
  a = a
  b = b
  t1 = t1
  t2 = t2
  BATCH = BATCH
  REPLY = REPLY
  Category = {a, b}
  Tagged = {}
  general_workers = 1
  batch_threads <- Unset
  reply_threads = 0
  cat_reserved <- OneReserved
  cat_max_queue <- Queues
  MaxJobs = 4
INVARIANTS
  TypeOK
  IdleOnce
  CountersExact
  PoolWithinLimit
  ReservationsHonoured
  NoCommandOverlooked
  EachJobInOnePlace
PROPERTIES
  CategoryFifo
