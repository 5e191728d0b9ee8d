-------------------------- MODULE WorkerPoolProofs --------------------------
(***************************************************************************)
(* Theorems about WorkerPool, for any categories, reservations, queue      *)
(* limits, tagged threads and number of jobs: the pool is never larger     *)
(* than max_workers, and the reservations hold.                            *)
(*                                                                         *)
(* The exchange between the proxy and a pool thread (ExchangeInv) makes    *)
(* the counters exact (CountInv); exact counters are never negative; and   *)
(* so every busy thread beyond the general ones sits in a reserved place   *)
(* of its own class (LimitInv), of which there are max_workers at most.    *)
(***************************************************************************)
EXTENDS WorkerPool, TLAPS, FiniteSetTheorems

\* The order in which the provers are tried.
USE ZenonT(2), SMTT(20)

USE DEF proxyVars, poolVars, tagVars, queueVars, threadVars, jobVars

-----------------------------------------------------------------------------
(* Facts about the helpers.                                                *)

\* Binding a value of S keeps a function into S a function into S.
LEMMA PutType ==
  ASSUME NEW D, NEW S, NEW f \in [D -> S], NEW x, NEW v \in S
  PROVE  Put(f, x, v) \in [D \cup {x} -> S]
BY DEF Put

\* The empty sequence is the one without elements.
LEMMA SeqEmpty ==
  ASSUME NEW S
  PROVE  <<>> \in Seq(S) /\ \A s \in Seq(S) : s = <<>> <=> Len(s) = 0
OBVIOUS

\* A sequence is a function on the numbers up to its length.
LEMMA SeqLen ==
  ASSUME NEW S, NEW s \in Seq(S)
  PROVE  Len(s) \in Nat /\ DOMAIN s = 1 .. Len(s) /\ \A i \in 1 .. Len(s) : s[i] \in S
OBVIOUS

\* Appending keeps what is there.
LEMMA SeqAppend ==
  ASSUME NEW S, NEW s \in Seq(S), NEW e \in S
  PROVE  /\ Append(s, e) \in Seq(S) /\ Append(s, e) # <<>> /\ Len(Append(s, e)) = Len(s) + 1
         /\ \A i \in 1 .. Len(s) : Append(s, e)[i] = s[i]
         /\ Append(s, e)[Len(s) + 1] = e
OBVIOUS

\* The first element, and the rest.
LEMMA SeqHeadTail ==
  ASSUME NEW S, NEW s \in Seq(S), s # <<>>
  PROVE  Head(s) \in S /\ Tail(s) \in Seq(S)
OBVIOUS

\* What is left of a non-empty idle list when its last thread is taken.
LEMMA FrontType ==
  ASSUME NEW S, NEW s \in Seq(S), s # <<>>
  PROVE  /\ SubSeq(s, 1, Len(s) - 1) \in Seq(S) /\ s[Len(s)] \in S
         /\ Len(SubSeq(s, 1, Len(s) - 1)) = Len(s) - 1 /\ Len(s) \in Nat \ {0}
         /\ \A i \in 1 .. Len(s) - 1 : SubSeq(s, 1, Len(s) - 1)[i] = s[i]
<1>1. Len(s) \in Nat \ {0} /\ s[Len(s)] \in S
  OBVIOUS
<1> DEFINE n == Len(s) - 1
<1>2. n \in Nat /\ n <= Len(s)
  BY <1>1
<1> HIDE DEF n
<1>3. SubSeq(s, 1, n) \in Seq(S) /\ Len(SubSeq(s, 1, n)) = n
  BY <1>2
<1>4. \A i \in 1 .. n : SubSeq(s, 1, n)[i] = s[i]
  BY <1>2
<1> QED
  BY <1>1, <1>3, <1>4 DEF n

\* s without its i-th element.
Erased(s, i) == SubSeq(s, 1, i - 1) \o SubSeq(s, i + 1, Len(s))

\* Erasing one element of a queue keeps the others.
LEMMA ErasedType ==
  ASSUME NEW S, NEW s \in Seq(S), NEW i \in 1 .. Len(s)
  PROVE  Erased(s, i) \in Seq(S)
BY DEF Erased

\* A queue of threads of a pool is one of threads of a larger pool.
LEMMA SeqMonotone ==
  ASSUME NEW S, NEW T, S \subseteq T, NEW s \in Seq(S)
  PROVE  s \in Seq(T)
OBVIOUS

\* The reservations are natural numbers, the defaults of proxy_loop included.
LEMMA ReservedType == reserved_threads \in [Class -> Nat]
<1>1. batch_jobs_reserved \in Nat
  BY ThreadsAssumption DEF batch_jobs_reserved
<1>2. reply_jobs_reserved \in Nat
  BY ThreadsAssumption DEF reply_jobs_reserved
<1> QED BY <1>1, <1>2, ThreadsAssumption DEF reserved_threads, Class

-----------------------------------------------------------------------------
(* Type correctness.                                                       *)

\* The job that a calling thread, a remote or a timer submits has its type.
LEMMA NewJobType ==
  ASSUME TypeOK, next_job <= MaxJobs, NEW c \in Class \cup Tagged,
         NEW k \in {"command", "job", "completion"}
  PROVE  NewJob(c, k) \in Job /\ NewJob(c, k).cls = c
BY ThreadsAssumption DEF NewJob, Job, TypeOK

\* Dispatch keeps the types of what it writes, whether it takes the thread from
\* the idle list or adds a new one to the pool.
LEMMA DispatchType ==
  ASSUME TypeOK, NEW j \in Job, j.cls \in Class, Dispatch(j), tagged' = tagged
  PROVE  /\ nworkers' \in Nat
         /\ idle_workers' \in Seq(Workers')
         /\ active_threads' \in [Class -> Int]
         /\ run' \in [Threads' -> Job]
         /\ pc' \in [Threads' -> {"connecting", "starting", "waiting", "running", "exited", "joined"}]
         /\ to_worker' \in [Threads' -> Seq({"START", "RUN", "QUIT"})]
         /\ to_proxy' \in [Threads' -> Seq({"STARTING", "RAN", "QUITTING"})]
<1> DEFINE w == get_idle_worker
           PC == {"connecting", "starting", "waiting", "running", "exited", "joined"}
           ToW == Seq({"START", "RUN", "QUIT"})
           ToP == Seq({"STARTING", "RAN", "QUITTING"})
<1>1. active_threads' \in [Class -> Int]
  BY DEF TypeOK, Dispatch
<1>2. nworkers' \in Nat /\ idle_workers' \in Seq(Workers') /\ Threads' = Threads \cup {w}
  <2>1. CASE idle_workers = <<>>
    BY <2>1, SeqEmpty DEF TypeOK, Dispatch, get_idle_worker, IdleLeft, Workers, Threads
  <2>2. CASE idle_workers # <<>>
    <3>1. nworkers' = nworkers /\ Workers' = Workers
      BY <2>2 DEF Dispatch, Workers
    <3>2. w \in Workers /\ idle_workers' \in Seq(Workers)
      BY <2>2, FrontType DEF TypeOK, Dispatch, get_idle_worker, IdleLeft
    <3> QED BY <3>1, <3>2 DEF TypeOK, Threads
  <2> QED BY <2>1, <2>2
<1>3. run' \in [Threads' -> Job]
  BY <1>2, PutType DEF TypeOK, Dispatch
<1>4. pc' \in [Threads' -> PC] /\ to_worker' \in [Threads' -> ToW] /\ to_proxy' \in [Threads' -> ToP]
  <2>1. CASE joinable(w)
    <3>1. w \in Threads /\ Threads' = Threads
      BY <2>1, <1>2 DEF joinable
    <3>2. Append(to_worker[w], "RUN") \in ToW
      BY <3>1 DEF TypeOK
    <3>3. to_worker' = Put(to_worker, w, Append(to_worker[w], "RUN"))
      BY <2>1 DEF Dispatch, proxy_run_worker
    <3>4. to_worker' \in [Threads' -> ToW]
      BY <3>2, <3>3, <1>2, PutType DEF TypeOK
    <3> QED BY <2>1, <3>1, <3>4 DEF TypeOK, Dispatch, proxy_run_worker
  <2>2. CASE ~joinable(w)
    <3>1. <<>> \in ToW /\ <<>> \in ToP /\ "running" \in PC
      BY SeqEmpty
    <3>2. pc' = Put(pc, w, "running") /\ to_worker' = Put(to_worker, w, <<>>)
          /\ to_proxy' = Put(to_proxy, w, <<>>)
      BY <2>2 DEF Dispatch, proxy_run_worker
    <3> QED BY <3>1, <3>2, <1>2, PutType DEF TypeOK
  <2> QED BY <2>1, <2>2
<1> QED BY <1>1, <1>2, <1>3, <1>4

\* The pool has no thread before the loop runs.
NoneYet == ~Started => nworkers = 0

\* Setting up, starting, and destroying an object that was never started.
LEMMA SetupType ==
  ASSUME TypeOK, NoneYet,
         \/ Setup \/ ReserveDone \/ StartTagged \/ AbandonJoin
         \/ \E c \in Category : ReserveCategory(c)
         \/ \E t \in Tagged : AbandonQuit(t)
  PROVE  TypeOK'
<1>1. ASSUME NEW t \in Tagged, add_tagged_thread(t) PROVE TypeOK'
  <2>1. tagged' = tagged \cup {t} /\ Workers' = Workers /\ Threads' = Threads \cup {t}
    BY <1>1 DEF add_tagged_thread, Workers, Threads
  <2>2. busy' \in [tagged' -> BOOLEAN]
    <3>1. busy' = Put(busy, t, FALSE)
      BY <1>1 DEF add_tagged_thread
    <3> QED BY <3>1, <2>1, PutType, Zenon DEF TypeOK
  <2>3. jobs' \in [{BATCH, REPLY} \cup tagged' -> Seq(Job)]
        /\ \A q \in DOMAIN jobs' : \A i \in DOMAIN jobs'[q] : jobs'[q][i].cls = q
    BY <1>1, <2>1, SeqEmpty DEF add_tagged_thread, TypeOK, Put
  <2>4. run' \in [Threads' -> Job]
    <3>1. [cls |-> t, id |-> 0, kind |-> "none"] \in Job
      BY ThreadsAssumption DEF Job
    <3> QED BY <1>1, <2>1, <3>1, PutType DEF add_tagged_thread, TypeOK
  <2>5. pc' \in [Threads' -> {"connecting", "starting", "waiting", "running", "exited", "joined"}]
    BY <1>1, <2>1, PutType DEF add_tagged_thread, TypeOK
  <2>6. /\ to_worker' \in [Threads' -> Seq({"START", "RUN", "QUIT"})]
        /\ to_proxy' \in [Threads' -> Seq({"STARTING", "RAN", "QUITTING"})]
    BY <1>1, <2>1, PutType, SeqEmpty DEF add_tagged_thread, TypeOK
  <2> QED BY <1>1, <2>1, <2>2, <2>3, <2>4, <2>5, <2>6 DEF add_tagged_thread, TypeOK
<1>2. CASE start
  <2>1. batch_jobs_reserved \in Nat /\ reply_jobs_reserved \in Nat /\ general_workers \in Nat
    BY ThreadsAssumption DEF batch_jobs_reserved, reply_jobs_reserved
  <2>2. max_workers' \in Nat
    BY <1>2, <2>1 DEF start
  <2> QED BY <1>2, <2>2 DEF start, TypeOK, Workers, Threads
<1>3. CASE Abandon
  BY <1>3 DEF Abandon, TypeOK, Workers, Threads
<1>4. ASSUME NEW c \in Category, ReserveCategory(c) PROVE TypeOK'
  BY <1>4, ThreadsAssumption DEF ReserveCategory, TypeOK, Workers, Threads
<1>5. CASE ReserveDone
  BY <1>5 DEF ReserveDone, TypeOK, Workers, Threads
<1>6. CASE StartTagged
  <2>1. Threads = tagged /\ Threads' = tagged /\ Workers' = Workers
    BY <1>6 DEF StartTagged, TypeOK, NoneYet, Started, Workers, Threads
  <2>2. to_proxy' \in [Threads' -> Seq({"STARTING", "RAN", "QUITTING"})]
    BY <1>6, <2>1, SeqHeadTail DEF StartTagged, TypeOK
  <2>3. to_worker' \in [Threads' -> Seq({"START", "RUN", "QUIT"})]
    BY <1>6, <2>1 DEF StartTagged, TypeOK
  <2> QED BY <1>6, <2>1, <2>2, <2>3 DEF StartTagged, TypeOK
<1>7. ASSUME NEW t \in Tagged, AbandonQuit(t) PROVE TypeOK'
  BY <1>7 DEF AbandonQuit, TypeOK, Workers, Threads
<1>8. CASE AbandonJoin
  <2>1. Threads = tagged /\ Threads' = tagged /\ Workers' = Workers
    BY <1>8 DEF AbandonJoin, TypeOK, NoneYet, Started, Workers, Threads
  <2> QED BY <1>8, <2>1, SeqEmpty DEF AbandonJoin, TypeOK
<1> QED BY <1>1, <1>2, <1>3, <1>4, <1>5, <1>6, <1>7, <1>8 DEF Setup

\* Queuing a job of class q, wherever it comes from.
LEMMA QueueJobType ==
  ASSUME TypeOK, NEW q \in {BATCH, REPLY} \cup tagged, NEW k \in {"job", "completion"},
         QueueJob(q, k), tagged' = tagged
  PROVE  /\ next_job' \in 1 .. MaxJobs + 1
         /\ jobs' \in [{BATCH, REPLY} \cup tagged' -> Seq(Job)]
         /\ \A p \in DOMAIN jobs' : \A i \in DOMAIN jobs'[p] : jobs'[p][i].cls = p
<1> DEFINE j == NewJob(q, k)
<1>1. j \in Job /\ j.cls = q
  BY NewJobType DEF QueueJob, TypeOK, Class
<1>2. next_job' \in 1 .. MaxJobs + 1
  BY ThreadsAssumption DEF QueueJob, TypeOK
<1>3. jobs' = [jobs EXCEPT ![q] = Append(jobs[q], j)]
  BY DEF QueueJob
<1>4. jobs[q] \in Seq(Job) /\ \A i \in DOMAIN jobs[q] : jobs[q][i].cls = q
  BY DEF TypeOK
<1> HIDE DEF j
<1>5. Append(jobs[q], j) \in Seq(Job)
      /\ \A i \in DOMAIN Append(jobs[q], j) : Append(jobs[q], j)[i].cls = q
  BY <1>1, <1>4, SeqAppend
<1>6. jobs' \in [{BATCH, REPLY} \cup tagged' -> Seq(Job)]
  BY <1>3, <1>5 DEF TypeOK
<1>7. \A p \in DOMAIN jobs' : \A i \in DOMAIN jobs'[p] : jobs'[p][i].cls = p
  BY <1>3, <1>5 DEF TypeOK
<1> QED BY <1>2, <1>6, <1>7

\* What callers, remotes and timers ask of the proxy.
LEMMA RequestType ==
  ASSUME TypeOK, Request
  PROVE  TypeOK'
<1>1. ASSUME NEW c \in Category, SubmitCommand(c) PROVE TypeOK'
  <2> DEFINE j == NewJob(c, "command")
  <2>1. j \in Job /\ j.cls = c /\ next_job' \in 1 .. MaxJobs + 1 /\ tagged' = tagged
    BY <1>1, NewJobType, ThreadsAssumption DEF SubmitCommand, TypeOK, Class
  <2>2. CASE Dispatch(j) /\ UNCHANGED <<pending_commands, queued, dropped>>
    <3> HIDE DEF j
    <3> QED BY <1>1, <2>1, <2>2, DispatchType DEF SubmitCommand, TypeOK, Class
  <2>3. CASE QueueCommand(c) /\ UNCHANGED <<poolVars, threadVars, dropped>>
    <3>1. pending_commands' = Append(pending_commands, j)
      BY <2>3 DEF QueueCommand
    <3> HIDE DEF j
    <3>2. pending_commands' \in Seq(Job)
          /\ \A i \in DOMAIN pending_commands' : pending_commands'[i].cls \in Category
      BY <2>1, <3>1, SeqAppend DEF TypeOK
    <3>3. queued' \in [Category -> Int]
      BY <2>3 DEF QueueCommand, TypeOK
    <3>4. UNCHANGED <<poolVars, threadVars, dropped, proxyVars, tagVars, it, jobs, executed>>
      BY <1>1, <2>3 DEF SubmitCommand
    <3> QED BY <2>1, <3>2, <3>3, <3>4 DEF TypeOK, Workers, Threads
  <2>4. CASE /\ dropped' = dropped \cup {next_job}
             /\ UNCHANGED <<poolVars, threadVars, pending_commands, queued>>
    <3>1. dropped' \subseteq 1 .. MaxJobs
      BY <1>1, <2>4, ThreadsAssumption DEF SubmitCommand, TypeOK
    <3> HIDE DEF j
    <3> QED BY <1>1, <2>1, <2>4, <3>1 DEF SubmitCommand, TypeOK, Workers, Threads
  <2> QED BY <1>1, <2>2, <2>3, <2>4 DEF SubmitCommand
<1>2. ASSUME NEW q \in {BATCH} \cup Tagged, proxy_batch(q) \/ queue_timer_job(q) PROVE TypeOK'
  <2>1. q \in {BATCH, REPLY} \cup tagged /\ QueueJob(q, "job") /\ tagged' = tagged
    BY <1>2 DEF proxy_batch, queue_timer_job
  <2> QED BY <1>2, <2>1, QueueJobType DEF proxy_batch, queue_timer_job, TypeOK, Workers, Threads
<1>3. CASE proxy_schedule_reply_job
  <2>1. QueueJob(REPLY, "job") /\ tagged' = tagged
    BY <1>3 DEF proxy_schedule_reply_job
  <2> QED BY <1>3, <2>1, QueueJobType DEF proxy_schedule_reply_job, TypeOK, Workers, Threads
<1>4. CASE Quit
  <2>1. Threads' = Threads /\ Workers' = Workers
    BY <1>4 DEF Quit, Threads, Workers
  <2>2. to_worker' \in [Threads' -> Seq({"START", "RUN", "QUIT"})]
    BY <1>4, <2>1 DEF Quit, TypeOK
  <2> QED BY <1>4, <2>1, <2>2, SeqEmpty DEF Quit, TypeOK
<1> QED BY <1>1, <1>2, <1>3, <1>4 DEF Request, proxy_inject_task, proxy_to_worker

\* The head and the tail of a queue of jobs of class q.
LEMMA JobsHeadTail ==
  ASSUME TypeOK, NEW q \in {BATCH, REPLY} \cup tagged, jobs[q] # <<>>
  PROVE  /\ Head(jobs[q]) \in Job /\ Head(jobs[q]).cls = q
         /\ Tail(jobs[q]) \in Seq(Job)
         /\ \A i \in DOMAIN Tail(jobs[q]) : Tail(jobs[q])[i].cls = q
<1> DEFINE s == jobs[q]
<1>1. s \in Seq(Job) /\ s # <<>> /\ \A i \in DOMAIN s : s[i].cls = q
  BY DEF TypeOK
<1> HIDE DEF s
<1>2. 1 \in DOMAIN s /\ Head(s) = s[1]
  BY <1>1
<1>3. Head(s) \in Job /\ Tail(s) \in Seq(Job) /\ Len(Tail(s)) = Len(s) - 1
      /\ \A i \in 1 .. Len(Tail(s)) : Tail(s)[i] = s[i + 1]
  BY <1>1, SeqHeadTail
<1>4. \A i \in DOMAIN Tail(s) : i + 1 \in DOMAIN s /\ Tail(s)[i] = s[i + 1]
  BY <1>1, <1>3
<1>5. \A i \in DOMAIN Tail(s) : Tail(s)[i].cls = q
  BY <1>1, <1>4
<1> QED BY <1>1, <1>2, <1>3, <1>5 DEF s

\* Erasing a pending command leaves pending commands.
LEMMA PendingErase ==
  ASSUME TypeOK, NEW i \in 1 .. Len(pending_commands)
  PROVE  /\ Erased(pending_commands, i) \in Seq(Job)
         /\ \A k \in DOMAIN Erased(pending_commands, i) :
              Erased(pending_commands, i)[k].cls \in Category
<1> DEFINE S == {j \in Job : j.cls \in Category}
<1>1. pending_commands \in Seq(S)
  BY DEF TypeOK
<1>2. Erased(pending_commands, i) \in Seq(S)
  BY <1>1, ErasedType
<1> QED BY <1>2

\* The steps of proxy_process_queue, and moving along the loop.
LEMMA LoopType ==
  ASSUME TypeOK,
         \/ LoopTop \/ PhaseDone \/ RunTagged \/ RunPending \/ PendingDone
         \/ \E q \in {BATCH, REPLY} : proxy_run_batch_jobs(q)
  PROVE  TypeOK'
<1>1. CASE LoopTop
  BY <1>1 DEF LoopTop, TypeOK, Workers, Threads
<1>2. CASE PhaseDone
  BY <1>2 DEF PhaseDone, NextPhase, TypeOK, Workers, Threads
<1>3. CASE PendingDone
  BY <1>3 DEF PendingDone, TypeOK, Workers, Threads
<1>4. CASE RunTagged
  <2>1. Threads' = Threads /\ Workers' = Workers /\ tagged' = tagged
    BY <1>4 DEF RunTagged, Threads, Workers
  <2>2. \A t \in Ready : t \in tagged /\ jobs[t] # <<>>
    BY DEF Ready
  <2>3. jobs' \in [{BATCH, REPLY} \cup tagged' -> Seq(Job)]
        /\ \A q \in DOMAIN jobs' : \A i \in DOMAIN jobs'[q] : jobs'[q][i].cls = q
    BY <1>4, <2>1, <2>2, JobsHeadTail DEF RunTagged, TypeOK
  <2>4. run' \in [Threads' -> Job]
    BY <1>4, <2>1, <2>2, JobsHeadTail DEF RunTagged, TypeOK
  <2>5. to_worker' \in [Threads' -> Seq({"START", "RUN", "QUIT"})]
    BY <1>4, <2>1 DEF RunTagged, TypeOK
  <2>6. busy' \in [tagged' -> BOOLEAN]
    BY <1>4, <2>1, Zenon DEF RunTagged, TypeOK
  <2> QED BY <1>4, <2>1, <2>3, <2>4, <2>5, <2>6 DEF RunTagged, TypeOK
<1>5. ASSUME NEW q \in {BATCH, REPLY}, proxy_run_batch_jobs(q) PROVE TypeOK'
  <2>1. CASE jobs[q] # <<>> /\ active_workers < max_workers /\ HasRoom(q)
    <3> DEFINE j == Head(jobs[q])
    <3>1. Dispatch(j) /\ jobs' = [jobs EXCEPT ![q] = Tail(jobs[q])]
      BY <1>5, <2>1 DEF proxy_run_batch_jobs
    <3>2. j \in Job /\ j.cls \in Class /\ tagged' = tagged
      BY <1>5, <2>1, JobsHeadTail DEF Class, proxy_run_batch_jobs
    <3>3. jobs' \in [{BATCH, REPLY} \cup tagged' -> Seq(Job)]
          /\ \A p \in DOMAIN jobs' : \A i \in DOMAIN jobs'[p] : jobs'[p][i].cls = p
      BY <2>1, <3>1, <3>2, JobsHeadTail DEF TypeOK
    <3> HIDE DEF j
    <3>4. UNCHANGED <<phase, it, unsummed, max_workers, capacity, tagVars, pending_commands,
                      queued, jobVars>>
      BY <1>5, <2>1 DEF proxy_run_batch_jobs
    <3> QED BY <3>1, <3>2, <3>3, <3>4, DispatchType DEF TypeOK
  <2>2. CASE ~(jobs[q] # <<>> /\ active_workers < max_workers /\ HasRoom(q))
    <3>1. /\ phase' \in {"reply", "commands"} /\ it' = 1
          /\ UNCHANGED <<poolVars, threadVars, jobs, unsummed, max_workers, capacity, tagVars,
                         pending_commands, queued, jobVars>>
      BY <1>5, <2>2 DEF proxy_run_batch_jobs
    <3> QED BY <3>1 DEF TypeOK, Workers, Threads
  <2> QED BY <2>1, <2>2
<1>6. CASE RunPending
  <2> DEFINE j == pending_commands[it]
  <2>1. it \in 1 .. Len(pending_commands) /\ j \in Job /\ j.cls \in Category /\ j.cls \in Class
    <3>1. /\ pending_commands \in Seq(Job) /\ it \in Nat \ {0}
          /\ \A i \in DOMAIN pending_commands : pending_commands[i].cls \in Category
      BY DEF TypeOK
    <3>2. it <= Len(pending_commands)
      BY <1>6 DEF RunPending
    <3>3. it \in DOMAIN pending_commands /\ it \in 1 .. Len(pending_commands) /\ j \in Job
      BY <3>1, <3>2
    <3> QED BY <3>1, <3>3 DEF Class
  <2>2. CASE HasRoom(j.cls)
    <3>1. /\ Dispatch(j) /\ tagged' = tagged
          /\ pending_commands' = Erased(pending_commands, it)
          /\ queued' = [queued EXCEPT ![j.cls] = @ - 1]
          /\ UNCHANGED <<proxyVars, tagVars, it, jobs, jobVars>>
      BY <1>6, <2>2 DEF RunPending, Erased
    <3> HIDE DEF j
    <3>2. queued' \in [Category -> Int]
      BY <2>1, <3>1 DEF TypeOK
    <3> QED BY <2>1, <3>1, <3>2, DispatchType, PendingErase DEF TypeOK
  <2>3. CASE ~HasRoom(j.cls)
    <3>1. /\ it' = it + 1
          /\ UNCHANGED <<poolVars, threadVars, pending_commands, queued, proxyVars, tagVars, jobs,
                         jobVars>>
      BY <1>6, <2>3 DEF RunPending
    <3> QED BY <3>1 DEF TypeOK, Workers, Threads
  <2> QED BY <2>2, <2>3
<1> QED BY <1>1, <1>2, <1>3, <1>4, <1>5, <1>6

\* The messages of the threads, and the threads' own steps.
LEMMA ThreadType ==
  ASSUME TypeOK, NEW w \in Threads,
         proxy_worker_RAN(w) \/ proxy_worker_QUITTING(w) \/ Worker(w)
  PROVE  TypeOK'
<1> DEFINE ToW == Seq({"START", "RUN", "QUIT"})
           ToP == Seq({"STARTING", "RAN", "QUITTING"})
<1>0. to_worker[w] \in ToW /\ to_proxy[w] \in ToP
  BY DEF TypeOK
<1>1. CASE proxy_worker_RAN(w)
  <2>1. tagged' = tagged /\ Threads' = Threads /\ Workers' = Workers
    BY <1>1 DEF proxy_worker_RAN, Threads, Workers
  <2>2. to_proxy' \in [Threads' -> ToP]
    BY <1>0, <1>1, <2>1, SeqHeadTail DEF proxy_worker_RAN, TypeOK
  <2>3. active_threads' \in [Class -> Int]
    <3>1. Release(w)
      BY <1>1, Zenon DEF proxy_worker_RAN
    <3> QED BY <3>1 DEF Release, TypeOK
  <2>4. busy' \in [tagged' -> BOOLEAN]
    BY <1>1, <2>1, Zenon DEF proxy_worker_RAN, Release, TypeOK
  <2>5. idle_workers' \in Seq(Workers') /\ to_worker' \in [Threads' -> ToW]
    <3>1. w \notin tagged => w \in Workers
      BY DEF Threads
    <3>2. idle_workers' \in Seq(Workers')
      <4>1. \/ idle_workers' = idle_workers
            \/ w \notin tagged /\ idle_workers' = Append(idle_workers, w)
        BY <1>1 DEF proxy_worker_RAN, Rest
      <4>2. idle_workers \in Seq(Workers)
        BY DEF TypeOK
      <4> QED BY <4>1, <4>2, <2>1, <3>1, SeqAppend
    <3>3. Append(to_worker[w], "QUIT") \in ToW
      BY <1>0
    <3>4. to_worker' \in [Threads' -> ToW]
      BY <1>1, <2>1, <3>3 DEF proxy_worker_RAN, Rest, TypeOK
    <3> QED BY <3>2, <3>4
  <2>6. /\ next_job' \in 1 .. MaxJobs + 1
        /\ jobs' \in [{BATCH, REPLY} \cup tagged' -> Seq(Job)]
        /\ \A p \in DOMAIN jobs' : \A i \in DOMAIN jobs'[p] : jobs'[p][i].cls = p
    <3>1. CASE UNCHANGED <<jobs, next_job>>
      BY <2>1, <3>1 DEF TypeOK
    <3>2. ASSUME NEW q \in tagged \cup {BATCH}, QueueJob(q, "completion")
          PROVE  <2>6!1 /\ <2>6!2 /\ <2>6!3
      BY <2>1, <3>2, QueueJobType
    <3> QED BY <1>1, <3>1, <3>2 DEF proxy_worker_RAN, JobFinished
  <2>7. UNCHANGED <<proxyVars, nworkers, tagged, pending_commands, it, queued, run, pc,
                    executed, dropped>>
    BY <1>1 DEF proxy_worker_RAN
  <2> QED BY <2>1, <2>2, <2>3, <2>4, <2>5, <2>6, <2>7 DEF TypeOK
<1>2. CASE proxy_worker_QUITTING(w)
  <2>1. to_proxy' \in [Threads -> ToP]
    BY <1>0, <1>2, SeqHeadTail DEF proxy_worker_QUITTING, TypeOK
  <2> QED BY <1>2, <2>1 DEF proxy_worker_QUITTING, TypeOK, Workers, Threads
<1>3. CASE WorkerStarting(w)
  BY <1>0, <1>3, SeqAppend DEF WorkerStarting, TypeOK, Workers, Threads
<1>4. CASE worker_wait_for(w)
  <2>1. to_worker' \in [Threads -> ToW]
    BY <1>0, <1>4, SeqHeadTail DEF worker_wait_for, TypeOK
  <2>2. to_proxy' \in [Threads -> ToP]
    BY <1>0, <1>4, SeqAppend DEF worker_wait_for, TypeOK
  <2>3. pc' \in [Threads -> {"connecting", "starting", "waiting", "running", "exited", "joined"}]
    BY <1>4 DEF worker_wait_for, TypeOK
  <2> QED BY <1>4, <2>1, <2>2, <2>3 DEF worker_wait_for, TypeOK, Workers, Threads
<1>5. CASE WorkerRan(w)
  <2>1. to_proxy' \in [Threads -> ToP]
    <3>1. Append(to_proxy[w], "RAN") \in ToP
      BY <1>0, SeqAppend
    <3> QED BY <1>5, <3>1 DEF WorkerRan, TypeOK
  <2>2. executed' \subseteq 0 .. MaxJobs
    BY <1>5 DEF WorkerRan, TypeOK, Job
  <2> QED BY <1>5, <2>1, <2>2 DEF WorkerRan, TypeOK, Workers, Threads
<1> QED BY <1>1, <1>2, <1>3, <1>4, <1>5 DEF Worker

\* No pool thread is created before the loop runs.
LEMMA NoneYetStep ==
  ASSUME TypeOK, NoneYet, [Next]_vars
  PROVE  NoneYet'
<1>1. ASSUME Started PROVE Started'
  BY <1>1 DEF Started, Next, vars, Setup, Request, Proxy, Worker, Stopped, add_tagged_thread,
    start, Abandon, proxy_inject_task, proxy_to_worker, SubmitCommand, proxy_batch,
    queue_timer_job, proxy_schedule_reply_job, Quit, ReserveCategory, ReserveDone, StartTagged,
    AbandonQuit, AbandonJoin, LoopTop, PhaseDone, NextPhase, RunTagged, proxy_run_batch_jobs,
    QueuePhase, RunPending, PendingDone, proxy_worker_RAN, proxy_worker_QUITTING,
    WorkerStarting, worker_wait_for, WorkerRan
<1>2. ASSUME ~Started PROVE nworkers' = nworkers
  BY <1>2 DEF Started, Next, vars, Setup, Request, Proxy, Worker, Stopped, add_tagged_thread,
    start, Abandon, proxy_inject_task, proxy_to_worker, proxy_batch,
    queue_timer_job, proxy_schedule_reply_job, Quit, ReserveCategory, ReserveDone, StartTagged,
    AbandonQuit, AbandonJoin, LoopTop, PhaseDone, RunTagged, proxy_run_batch_jobs,
    QueuePhase, RunPending, PendingDone, proxy_worker_RAN, proxy_worker_QUITTING,
    WorkerStarting, worker_wait_for, WorkerRan
<1> QED BY <1>1, <1>2 DEF NoneYet

\* Every variable of the proxy and of the threads keeps its type, for any
\* categories, reservations and number of jobs.
THEOREM TypeCorrect == Spec => [](TypeOK /\ NoneYet)
<1>1. Init => TypeOK /\ NoneYet
  BY SeqEmpty, ThreadsAssumption DEF Init, TypeOK, NoneYet, Workers, Threads
<1>2. TypeOK /\ NoneYet /\ [Next]_vars => TypeOK' /\ NoneYet'
  <2> SUFFICES ASSUME TypeOK, NoneYet, [Next]_vars PROVE TypeOK'
    BY NoneYetStep
  <2>1. CASE UNCHANGED vars
    BY <2>1 DEF vars, TypeOK, Workers, Threads
  <2>2. CASE Stopped
    BY <2>2 DEF Stopped, vars, TypeOK, Workers, Threads
  <2> QED BY <2>1, <2>2, SetupType, RequestType, LoopType, ThreadType DEF Next, Proxy
<1> QED BY <1>1, <1>2, PTL DEF Spec

-----------------------------------------------------------------------------
(* The inductive invariant.                                                *)

State(w) == <<pc[w], to_worker[w], to_proxy[w]>>

Working(w) == \/ State(w) = <<"running", <<>>, <<>>>>
              \/ State(w) = <<"waiting", <<"RUN">>, <<>>>>
              \/ State(w) = <<"waiting", <<>>, <<"RAN">>>>
Resting(w) == State(w) = <<"waiting", <<>>, <<>>>>
Gone(w) == \/ State(w) = <<"waiting", <<"QUIT">>, <<>>>>
           \/ State(w) = <<"exited", <<>>, <<"QUITTING">>>>
           \/ State(w) = <<"joined", <<>>, <<>>>>

IsIdle(w) == \E i \in 1 .. Len(idle_workers) : idle_workers[i] = w

ExchangeInv ==
  /\ IdleOnce
  /\ \A w \in Workers : /\ IsIdle(w) => Resting(w)
                        /\ ~IsIdle(w) => Working(w) \/ (max_workers = 0 /\ Gone(w))

\* The pool threads that work on a job of class c.
On(c) == {w \in Workers : Working(w) /\ run[w].cls = c}

CountInv == \A c \in Class : active_threads[c] = Cardinality(On(c))

\* The reserved places of the classes in S, and those that are taken when each
\* class c has a[c] threads.
Reserved(S) == UNION {{c} \X (1 .. reserved_threads[c]) : c \in S}
TakenBy(a) == {p \in Reserved(Class) : p[2] <= a[p[1]]}
Taken == TakenBy(active_threads)

LimitInv ==
  /\ phase \in {"setup", "abandon"} => unsummed = Category /\ max_workers = 0
  /\ phase = "reserve" =>
       max_workers = general_workers + Cardinality(Reserved(Class \ unsummed))
  /\ phase = "starting" \/ Running =>
       max_workers = general_workers + Cardinality(Reserved(Class))
  /\ Running => /\ nworkers <= max_workers
                /\ active_workers <= general_workers + Cardinality(Taken)

PoolInv == TypeOK /\ NoneYet /\ ExchangeInv /\ CountInv /\ LimitInv

-----------------------------------------------------------------------------
(* Counting.                                                               *)

\* The threads on a class are finitely many, so their number is natural.
LEMMA OnFinite ==
  ASSUME TypeOK, NEW c
  PROVE  IsFiniteSet(On(c)) /\ Cardinality(On(c)) \in Nat
<1>1. IsFiniteSet(Workers)
  BY FS_Interval DEF Workers, TypeOK
<1> QED BY <1>1, FS_Subset, FS_CardinalityType DEF On

\* A column of n places.
LEMMA Column ==
  ASSUME NEW c, NEW n \in Nat
  PROVE  IsFiniteSet({c} \X (1 .. n)) /\ Cardinality({c} \X (1 .. n)) = n
<1> DEFINE I == 1 .. n
<1>1. IsFiniteSet(I) /\ Cardinality(I) = n
  BY FS_Interval
<1>2. IsFiniteSet({c}) /\ Cardinality({c}) = 1
  BY FS_Singleton
<1> HIDE DEF I
<1>3. IsFiniteSet({c} \X I) /\ Cardinality({c} \X I) = Cardinality({c}) * Cardinality(I)
  BY <1>1, <1>2, FS_Product
<1>4. Cardinality({c} \X I) = n
  BY <1>1, <1>2, <1>3
<1> QED BY <1>3, <1>4 DEF I

\* A class has as many places as threads are reserved for it.
LEMMA OwnPlaces ==
  ASSUME NEW c \in Class
  PROVE  /\ IsFiniteSet({c} \X (1 .. reserved_threads[c]))
         /\ Cardinality({c} \X (1 .. reserved_threads[c])) = reserved_threads[c]
BY Column, ReservedType

\* The reserved places of finitely many classes are finitely many.
LEMMA ReservedFinite ==
  ASSUME NEW S \in SUBSET Class
  PROVE  IsFiniteSet(Reserved(S)) /\ Cardinality(Reserved(S)) \in Nat
<1> DEFINE T == {{c} \X (1 .. reserved_threads[c]) : c \in S}
           f == [c \in S |-> {c} \X (1 .. reserved_threads[c])]
<1>1. IsFiniteSet(S)
  BY ClassAssumption, FS_Subset
<1>2. f \in Surjection(S, T)
  BY DEF Surjection
<1>3. IsFiniteSet(T)
  BY <1>1, <1>2, FS_Surjection
<1>4. \A c \in S : IsFiniteSet({c} \X (1 .. reserved_threads[c]))
  BY OwnPlaces
<1>5. IsFiniteSet(UNION T)
  BY <1>3, <1>4, FS_UNION
<1> QED BY <1>5, FS_CardinalityType DEF Reserved

\* One more class adds the places that are reserved for it.
LEMMA ReservedAdd ==
  ASSUME NEW S \in SUBSET Class, NEW c \in Class \ S
  PROVE  Cardinality(Reserved(S \cup {c})) = Cardinality(Reserved(S)) + reserved_threads[c]
<1> DEFINE C == {c} \X (1 .. reserved_threads[c])
<1>1. IsFiniteSet(C) /\ Cardinality(C) = reserved_threads[c]
  BY OwnPlaces
<1>2. Reserved(S \cup {c}) = Reserved(S) \cup C
  BY DEF Reserved
<1>3. Reserved(S) \cap C = {}
  BY DEF Reserved
<1>4. Cardinality(Reserved(S) \cap C) = 0
  BY <1>3, FS_EmptySet
<1>5. IsFiniteSet(Reserved(S)) /\ Cardinality(Reserved(S)) \in Nat /\ reserved_threads[c] \in Nat
  BY ReservedFinite, ReservedType
<1> HIDE DEF C
<1>6. Cardinality(Reserved(S) \cup C)
      = Cardinality(Reserved(S)) + Cardinality(C) - Cardinality(Reserved(S) \cap C)
  BY <1>1, <1>5, FS_Union
<1>7. Cardinality(Reserved(S) \cup C) = Cardinality(Reserved(S)) + reserved_threads[c]
  BY <1>1, <1>4, <1>5, <1>6
<1> QED BY <1>2, <1>7, Zenon

\* Membership in the reserved places.
LEMMA ReservedMember ==
  ASSUME NEW S, NEW c, NEW k
  PROVE  <<c, k>> \in Reserved(S) <=> c \in S /\ k \in 1 .. reserved_threads[c]
BY DEF Reserved

-----------------------------------------------------------------------------
(* The exchange with the pool threads, and what it means for the counters. *)

\* A pool thread is not a tagged one: they have ids of their own.
LEMMA PoolThread ==
  ASSUME TypeOK, NEW w \in Workers
  PROVE  w \notin tagged /\ w \in Threads
<1>1. nworkers \in Nat /\ tagged \subseteq Tagged
  BY DEF TypeOK
<1>2. w \in Nat
  BY <1>1 DEF Workers
<1> QED BY <1>1, <1>2, ClassAssumption DEF Threads

\* A step that touches neither the pool nor what its threads send and receive.
LEMMA PoolFrame ==
  ASSUME ExchangeInv, CountInv, UNCHANGED <<nworkers, idle_workers, active_threads>>,
         \A w \in Workers : /\ pc'[w] = pc[w] /\ run'[w] = run[w]
                            /\ to_worker'[w] = to_worker[w] /\ to_proxy'[w] = to_proxy[w],
         max_workers' = max_workers \/ Workers = {}
  PROVE  ExchangeInv' /\ CountInv'
<1>1. Workers' = Workers /\ \A w \in Workers : (IsIdle(w)' <=> IsIdle(w))
  BY DEF Workers, IsIdle
<1>2. \A w \in Workers : State(w)' = State(w)
  BY DEF State
<1>3. \A w \in Workers : /\ Working(w)' <=> Working(w)
                         /\ Resting(w)' <=> Resting(w)
                         /\ Gone(w)' <=> Gone(w)
  BY <1>2 DEF Working, Resting, Gone
<1>4. ExchangeInv'
  BY <1>1, <1>3 DEF ExchangeInv, IdleOnce
<1>5. \A c \in Class : On(c)' = On(c)
  BY <1>1, <1>3 DEF On
<1> QED BY <1>4, <1>5 DEF CountInv

\* Dispatch gives the job to a thread that has none, and counts it.
LEMMA DispatchExchange ==
  ASSUME TypeOK, ExchangeInv, CountInv, NEW j \in Job, j.cls \in Class, Dispatch(j),
         UNCHANGED <<tagged, max_workers>>
  PROVE  ExchangeInv' /\ CountInv'
<1>0. PICK w : w = get_idle_worker
  OBVIOUS
<1>1. /\ Workers' = Workers \cup {w}
      /\ w \in Workers => ~Working(w)
      /\ run'[w] = j /\ Working(w)' /\ ~IsIdle(w)'
      /\ IdleOnce'
      /\ \A u \in Workers : u # w =>
           /\ pc'[u] = pc[u] /\ run'[u] = run[u]
           /\ to_worker'[u] = to_worker[u] /\ to_proxy'[u] = to_proxy[u]
           /\ IsIdle(u)' <=> IsIdle(u)
  <2>0. Workers \subseteq Threads /\ DOMAIN pc = Threads /\ DOMAIN run = Threads
        /\ DOMAIN to_worker = Threads /\ DOMAIN to_proxy = Threads
    BY DEF TypeOK, Threads
  <2>1. run' = Put(run, w, j)
    BY <1>0 DEF Dispatch
  <2>2. CASE idle_workers = <<>>
    <3>1. w = nworkers + 1 /\ nworkers' = nworkers + 1 /\ idle_workers' = <<>>
      BY <1>0, <2>2 DEF Dispatch, get_idle_worker, IdleLeft
    <3>2. w \notin Threads /\ ~joinable(w) /\ Workers' = Workers \cup {w}
      <4>1. nworkers \in Nat /\ tagged \subseteq Tagged
        BY DEF TypeOK
      <4>2. w \in Nat /\ w \notin Workers /\ Workers' = Workers \cup {w}
        BY <3>1, <4>1 DEF Workers
      <4>3. w \notin tagged
        BY <4>1, <4>2, ClassAssumption
      <4> QED BY <4>2, <4>3 DEF Threads, joinable
    <3>3. /\ pc' = Put(pc, w, "running") /\ to_worker' = Put(to_worker, w, <<>>)
          /\ to_proxy' = Put(to_proxy, w, <<>>)
      BY <1>0, <3>2 DEF Dispatch, proxy_run_worker
    <3>4. \A u : ~IsIdle(u) /\ ~IsIdle(u)'
      BY <2>2, <3>1 DEF IsIdle
    <3>5. pc'[w] = "running" /\ to_worker'[w] = <<>> /\ to_proxy'[w] = <<>> /\ run'[w] = j
      BY <2>1, <3>3 DEF Put
    <3>6. \A u \in Workers : /\ pc'[u] = pc[u] /\ run'[u] = run[u]
                             /\ to_worker'[u] = to_worker[u] /\ to_proxy'[u] = to_proxy[u]
      BY <2>0, <2>1, <3>2, <3>3 DEF Put
    <3>7. Working(w)' /\ IdleOnce'
      BY <3>1, <3>5 DEF Working, State, IdleOnce
    <3> QED BY <2>0, <3>2, <3>4, <3>5, <3>6, <3>7
  <2>3. CASE idle_workers # <<>>
    <3>1. /\ Len(idle_workers) \in Nat \ {0} /\ w = idle_workers[Len(idle_workers)]
          /\ w \in Workers
          /\ nworkers' = nworkers
          /\ idle_workers' = SubSeq(idle_workers, 1, Len(idle_workers) - 1)
      BY <1>0, <2>3, FrontType DEF Dispatch, get_idle_worker, IdleLeft, TypeOK
    <3>2. /\ Len(idle_workers') = Len(idle_workers) - 1
          /\ \A i \in 1 .. Len(idle_workers) - 1 : idle_workers'[i] = idle_workers[i]
      <4>1. idle_workers \in Seq(Workers)
        BY DEF TypeOK
      <4>2. /\ Len(SubSeq(idle_workers, 1, Len(idle_workers) - 1)) = Len(idle_workers) - 1
            /\ \A i \in 1 .. Len(idle_workers) - 1 : SubSeq(idle_workers, 1, Len(idle_workers) - 1)[i] = idle_workers[i]
        BY <2>3, <4>1, FrontType
      <4> QED BY <3>1, <4>2
    <3>3. IsIdle(w) /\ Resting(w)
      BY <3>1 DEF ExchangeInv, IsIdle
    <3>4. pc[w] = "waiting" /\ to_worker[w] = <<>> /\ to_proxy[w] = <<>>
      BY <3>3 DEF Resting, State
    <3>5. joinable(w)
      BY <2>0, <3>1, <3>4 DEF joinable
    <3>6. to_worker' = Put(to_worker, w, Append(to_worker[w], "RUN")) /\ UNCHANGED <<pc, to_proxy>>
      BY <1>0, <3>5 DEF Dispatch, proxy_run_worker
    <3>7. to_worker'[w] = <<"RUN">> /\ run'[w] = j
      BY <2>1, <3>4, <3>6 DEF Put
    <3>8. Working(w)' /\ ~Working(w)
      BY <3>4, <3>6, <3>7 DEF Working, State
    <3>9. \A u \in Workers : u # w =>
            /\ pc'[u] = pc[u] /\ run'[u] = run[u]
            /\ to_worker'[u] = to_worker[u] /\ to_proxy'[u] = to_proxy[u]
      BY <2>0, <2>1, <3>6 DEF Put
    <3>10. DOMAIN idle_workers = 1 .. Len(idle_workers)
           /\ DOMAIN idle_workers' = 1 .. Len(idle_workers) - 1
      BY <3>1, <3>2, DispatchType, SeqLen DEF TypeOK
    <3>11. IdleOnce' /\ ~IsIdle(w)'
      BY <3>1, <3>2, <3>10 DEF ExchangeInv, IdleOnce, IsIdle
    <3>12. \A u \in Workers : u # w => (IsIdle(u)' <=> IsIdle(u))
      BY <3>1, <3>2 DEF IsIdle
    <3>13. Workers' = Workers \cup {w}
      BY <3>1 DEF Workers
    <3> QED BY <3>7, <3>8, <3>9, <3>11, <3>12, <3>13
  <2> QED BY <2>2, <2>3
<1>2. \A u \in Workers : u # w => /\ Working(u)' <=> Working(u)
                                  /\ Resting(u)' <=> Resting(u)
                                  /\ Gone(u)' <=> Gone(u)
  BY <1>1 DEF Working, Resting, Gone, State
<1>3. ExchangeInv'
  BY <1>1, <1>2 DEF ExchangeInv
<1>4. ASSUME NEW c \in Class PROVE active_threads'[c] = Cardinality(On(c)')
  <2>1. active_threads' = [active_threads EXCEPT ![j.cls] = active_threads[j.cls] + 1]
    BY <1>0 DEF Dispatch
  <2>2. CASE c = j.cls
    <3>1. On(c)' = On(c) \cup {w} /\ w \notin On(c)
      BY <1>1, <1>2, <2>2 DEF On
    <3>2. Cardinality(On(c)') = Cardinality(On(c)) + 1
      BY <3>1, OnFinite, FS_AddElement
    <3> QED BY <2>1, <2>2, <3>2 DEF CountInv, TypeOK
  <2>3. CASE c # j.cls
    <3>1. On(c)' = On(c)
      BY <1>1, <1>2, <2>3 DEF On
    <3> QED BY <2>1, <2>3, <3>1 DEF CountInv, TypeOK
  <2> QED BY <2>2, <2>3
<1> QED BY <1>3, <1>4 DEF CountInv

\* A step of one pool thread w that leaves it working, and the others alone.
LEMMA StillWorking ==
  ASSUME ExchangeInv, CountInv, NEW w \in Workers, Working(w), Working(w)',
         UNCHANGED <<nworkers, idle_workers, active_threads, max_workers, run>>,
         \A u \in Workers : u # w => /\ pc'[u] = pc[u]
                                     /\ to_worker'[u] = to_worker[u] /\ to_proxy'[u] = to_proxy[u]
  PROVE  ExchangeInv' /\ CountInv'
<1>1. Workers' = Workers /\ \A u \in Workers : (IsIdle(u)' <=> IsIdle(u))
  BY DEF Workers, IsIdle
<1>2. \A u \in Workers : u # w => /\ Working(u)' <=> Working(u)
                                  /\ Resting(u)' <=> Resting(u)
                                  /\ Gone(u)' <=> Gone(u)
  <2>1. \A u \in Workers : u # w => State(u)' = State(u)
    BY DEF State
  <2> QED BY <2>1 DEF Working, Resting, Gone
<1>3. ~Resting(w)
  BY DEF Working, Resting
<1>4. ExchangeInv'
  BY <1>1, <1>2, <1>3 DEF ExchangeInv, IdleOnce
<1>5. \A c \in Class : On(c)' = On(c)
  BY <1>1, <1>2 DEF On
<1> QED BY <1>4, <1>5 DEF CountInv

\* A thread's RAN: the thread is counted off its class and rests, or is told to
\* quit.  It was working, so its class counted it.
LEMMA RanExchange ==
  ASSUME TypeOK, ExchangeInv, CountInv, NEW w \in Workers, proxy_worker_RAN(w)
  PROVE  /\ ExchangeInv' /\ CountInv'
         /\ run[w].cls \in Class => active_threads[run[w].cls] \in Nat \ {0}
<1>0. w \notin tagged /\ w \in Threads /\ DOMAIN to_proxy = Threads /\ DOMAIN to_worker = Threads
  <2>1. w \notin tagged /\ w \in Threads
    BY PoolThread
  <2>2. DOMAIN to_proxy = Threads /\ DOMAIN to_worker = Threads
    BY DEF TypeOK
  <2> QED BY <2>1, <2>2
<1>1. to_proxy[w] # <<>> /\ Head(to_proxy[w]) = "RAN"
  BY DEF proxy_worker_RAN
<1>2. pc[w] = "waiting" /\ to_worker[w] = <<>> /\ to_proxy[w] = <<"RAN">> /\ ~IsIdle(w) /\ Working(w)
  <2>1. ~IsIdle(w)
    BY <1>1 DEF ExchangeInv, Resting, State
  <2>2. ~Gone(w)
    BY <1>1 DEF Gone, State
  <2>3. Working(w)
    BY <2>1, <2>2 DEF ExchangeInv
  <2> QED BY <1>1, <2>1, <2>3 DEF Working, State
<1>3. /\ to_proxy' = [to_proxy EXCEPT ![w] = Tail(to_proxy[w])]
      /\ UNCHANGED <<max_workers, nworkers, run, pc>>
      /\ active_threads' = [active_threads EXCEPT ![run[w].cls] = active_threads[run[w].cls] - 1]
  <2>1. Release(w) /\ to_proxy' = [to_proxy EXCEPT ![w] = Tail(to_proxy[w])]
    BY Zenon DEF proxy_worker_RAN
  <2>2. active_threads' = [active_threads EXCEPT ![run[w].cls] = active_threads[run[w].cls] - 1]
    BY <1>0, <2>1 DEF Release
  <2>3. UNCHANGED <<max_workers, nworkers, run, pc>>
    BY DEF proxy_worker_RAN
  <2> QED BY <2>1, <2>2, <2>3
<1>4. pc'[w] = "waiting" /\ to_proxy'[w] = <<>> /\ Workers' = Workers
  BY <1>0, <1>2, <1>3 DEF Workers
<1>5. \A u \in Workers : u # w => pc'[u] = pc[u] /\ to_proxy'[u] = to_proxy[u]
  BY <1>0, <1>3
<1>6. /\ \A u \in Workers : u # w => to_worker'[u] = to_worker[u]
      /\ ~Working(w)' /\ IdleOnce'
      /\ \A u \in Workers : u # w => (IsIdle(u)' <=> IsIdle(u))
      /\ IsIdle(w)' => Resting(w)'
      /\ ~IsIdle(w)' => max_workers' = 0 /\ Gone(w)'
  <2>1. CASE max_workers = 0
    <3>1. to_worker' = [to_worker EXCEPT ![w] = Append(to_worker[w], "QUIT")]
          /\ idle_workers' = idle_workers
      BY <2>1 DEF proxy_worker_RAN, Rest
    <3>2. to_worker'[w] = <<"QUIT">>
      BY <1>0, <1>2, <3>1
    <3>3. \A u : IsIdle(u)' <=> IsIdle(u)
      BY <3>1 DEF IsIdle
    <3>4. ~Working(w)' /\ Gone(w)'
      BY <1>4, <3>2 DEF Working, Gone, State
    <3> QED BY <1>0, <1>2, <1>3, <2>1, <3>1, <3>3, <3>4 DEF ExchangeInv, IdleOnce
  <2>2. CASE max_workers # 0
    <3>1. idle_workers' = Append(idle_workers, w) /\ to_worker' = to_worker
      BY <1>0, <2>2 DEF proxy_worker_RAN, Rest
    <3>2. ~Working(w)' /\ Resting(w)'
      BY <1>2, <1>4, <3>1 DEF Working, Resting, State
    <3>3. idle_workers \in Seq(Workers)
      BY DEF TypeOK
    <3>4. /\ Len(idle_workers) \in Nat /\ Len(idle_workers') = Len(idle_workers) + 1
          /\ \A i \in 1 .. Len(idle_workers) : idle_workers'[i] = idle_workers[i]
          /\ idle_workers'[Len(idle_workers) + 1] = w
          /\ DOMAIN idle_workers = 1 .. Len(idle_workers)
          /\ DOMAIN idle_workers' = 1 .. Len(idle_workers) + 1
      BY <3>1, <3>3, SeqAppend, SeqLen
    <3>5. \A u : IsIdle(u)' <=> IsIdle(u) \/ u = w
      BY <3>4 DEF IsIdle
    <3>6. IdleOnce'
      BY <1>2, <3>4 DEF ExchangeInv, IdleOnce, IsIdle
    <3> QED BY <3>1, <3>2, <3>5, <3>6
  <2> QED BY <2>1, <2>2
<1>7. \A u \in Workers : u # w => /\ Working(u)' <=> Working(u)
                                  /\ Resting(u)' <=> Resting(u)
                                  /\ Gone(u)' <=> Gone(u)
  BY <1>5, <1>6 DEF Working, Resting, Gone, State
<1>8. ExchangeInv'
  BY <1>3, <1>4, <1>6, <1>7 DEF ExchangeInv
<1>9. ASSUME NEW c \in Class
      PROVE  /\ active_threads'[c] = Cardinality(On(c)')
             /\ c = run[w].cls => active_threads[c] \in Nat \ {0}
  <2>0. active_threads[c] = Cardinality(On(c)) /\ IsFiniteSet(On(c)) /\ Cardinality(On(c)) \in Nat
    BY OnFinite DEF CountInv
  <2>1. CASE c = run[w].cls
    <3>1. On(c)' = On(c) \ {w} /\ w \in On(c)
      BY <1>2, <1>3, <1>4, <1>6, <1>7, <2>1 DEF On
    <3>2. Cardinality(On(c)') = Cardinality(On(c)) - 1 /\ Cardinality(On(c)) # 0
      BY <2>0, <3>1, FS_RemoveElement, FS_EmptySet
    <3> QED BY <1>3, <2>0, <2>1, <3>2 DEF TypeOK
  <2>2. CASE c # run[w].cls
    <3>1. On(c)' = On(c)
      BY <1>2, <1>3, <1>4, <1>6, <1>7, <2>2 DEF On
    <3> QED BY <1>3, <2>0, <2>2, <3>1 DEF TypeOK
  <2> QED BY <2>1, <2>2
<1> QED BY <1>8, <1>9 DEF CountInv

\* A pool thread that was told to quit, or that has quit, stays that way.
LEMMA StillGone ==
  ASSUME ExchangeInv, CountInv, NEW w \in Workers, Gone(w), Gone(w)',
         UNCHANGED <<nworkers, idle_workers, active_threads, max_workers, run>>,
         \A u \in Workers : u # w => /\ pc'[u] = pc[u]
                                     /\ to_worker'[u] = to_worker[u] /\ to_proxy'[u] = to_proxy[u]
  PROVE  ExchangeInv' /\ CountInv'
<1>1. Workers' = Workers /\ \A u \in Workers : (IsIdle(u)' <=> IsIdle(u))
  BY DEF Workers, IsIdle
<1>2. \A u \in Workers : u # w => /\ Working(u)' <=> Working(u)
                                  /\ Resting(u)' <=> Resting(u)
                                  /\ Gone(u)' <=> Gone(u)
  <2>1. \A u \in Workers : u # w => State(u)' = State(u)
    BY DEF State
  <2> QED BY <2>1 DEF Working, Resting, Gone
<1>3. ~Resting(w) /\ ~Working(w) /\ ~Working(w)'
  BY DEF Working, Resting, Gone, State
<1>4. ExchangeInv'
  BY <1>1, <1>2, <1>3 DEF ExchangeInv, IdleOnce
<1>5. \A c \in Class : On(c)' = On(c)
  BY <1>1, <1>2, <1>3 DEF On
<1> QED BY <1>4, <1>5 DEF CountInv

\* QUIT: the idle threads are told, so they are gone, and the others still work.
LEMMA QuitExchange ==
  ASSUME TypeOK, ExchangeInv, CountInv, Quit
  PROVE  ExchangeInv' /\ CountInv'
<1>1. /\ max_workers' = 0 /\ idle_workers' = <<>> /\ Workers' = Workers
      /\ max_workers # 0
      /\ UNCHANGED <<active_threads, run, pc, to_proxy>>
  BY DEF Quit, Workers
<1>2. \A w \in Workers : to_worker'[w] = IF IsIdle(w) THEN Append(to_worker[w], "QUIT")
                                        ELSE to_worker[w]
  <2>1. \A w \in Workers : w \notin tagged /\ w \in Threads
    BY PoolThread
  <2>2. \A w : w \in Range(idle_workers) <=> IsIdle(w)
    BY DEF Range, IsIdle, TypeOK
  <2> QED BY <2>1, <2>2 DEF Quit
<1>3. \A w : ~IsIdle(w)'
  BY <1>1 DEF IsIdle
<1>4. ASSUME NEW w \in Workers, IsIdle(w) PROVE Gone(w)' /\ ~Working(w) /\ ~Working(w)'
  <2>1. pc[w] = "waiting" /\ to_worker[w] = <<>> /\ to_proxy[w] = <<>>
    BY <1>4 DEF ExchangeInv, Resting, State
  <2>2. to_worker'[w] = Append(<<>>, "QUIT")
    BY <1>2, <1>4, <2>1
  <2> QED BY <1>1, <2>1, <2>2 DEF Gone, Working, State
<1>5. ASSUME NEW w \in Workers, ~IsIdle(w) PROVE Working(w)' /\ Working(w)
  BY <1>1, <1>2, <1>5 DEF ExchangeInv, Working, State
<1>6. ExchangeInv'
  BY <1>1, <1>3, <1>4, <1>5 DEF ExchangeInv, IdleOnce
<1>7. \A c \in Class : On(c)' = On(c)
  BY <1>1, <1>4, <1>5 DEF On
<1> QED BY <1>1, <1>6, <1>7 DEF CountInv

\* A step of a pool thread, or the proxy joining one.
LEMMA ThreadExchange ==
  ASSUME TypeOK, ExchangeInv, CountInv, NEW w \in Workers,
         proxy_worker_QUITTING(w) \/ Worker(w)
  PROVE  ExchangeInv' /\ CountInv'
<1>0. w \notin tagged /\ w \in Threads /\ \A u \in Workers : u \in Threads
  BY PoolThread
<1>1. DOMAIN pc = Threads /\ DOMAIN to_proxy = Threads /\ DOMAIN to_worker = Threads
  BY DEF TypeOK
<1>2. UNCHANGED <<nworkers, idle_workers, active_threads, max_workers, run>>
  BY <1>0 DEF proxy_worker_QUITTING, Worker, WorkerStarting, worker_wait_for, WorkerRan
<1>3. \A u \in Workers : u # w => /\ pc'[u] = pc[u]
                                  /\ to_worker'[u] = to_worker[u] /\ to_proxy'[u] = to_proxy[u]
  BY <1>0, <1>1 DEF proxy_worker_QUITTING, Worker, WorkerStarting, worker_wait_for, WorkerRan
<1>4. \/ Working(w) /\ Working(w)'
      \/ Gone(w) /\ Gone(w)'
  <2>1. CASE proxy_worker_QUITTING(w)
    <3>1. pc[w] = "exited" /\ to_proxy[w] # <<>>
      BY <2>1 DEF proxy_worker_QUITTING
    <3>2. Gone(w)
      BY <3>1 DEF ExchangeInv, Working, Resting, State
    <3>3. to_worker[w] = <<>> /\ to_proxy[w] = <<"QUITTING">>
      BY <3>1, <3>2 DEF Gone, State
    <3>4. pc'[w] = "joined" /\ to_worker'[w] = <<>> /\ to_proxy'[w] = <<>>
      BY <1>0, <1>1, <2>1, <3>3 DEF proxy_worker_QUITTING
    <3> QED BY <3>2, <3>4 DEF Gone, State
  <2>2. CASE WorkerRan(w)
    <3>1. pc[w] = "running"
      BY <2>2 DEF WorkerRan
    <3>2. Working(w) /\ to_worker[w] = <<>> /\ to_proxy[w] = <<>>
      BY <3>1 DEF ExchangeInv, Working, Resting, Gone, State
    <3>3. pc'[w] = "waiting" /\ to_worker'[w] = <<>>
      BY <1>0, <1>1, <2>2, <3>2 DEF WorkerRan
    <3>4. to_proxy'[w] = Append(<<>>, "RAN")
      BY <1>0, <1>1, <2>2, <3>2 DEF WorkerRan
    <3>5. to_proxy'[w] = <<"RAN">>
      BY <3>4
    <3> QED BY <3>2, <3>3, <3>5 DEF Working, State
  <2>3. CASE worker_wait_for(w)
    <3>1. pc[w] \in {"starting", "waiting"} /\ to_worker[w] # <<>>
      BY <2>3 DEF worker_wait_for
    <3>2. \/ Working(w) /\ pc[w] = "waiting" /\ to_worker[w] = <<"RUN">> /\ to_proxy[w] = <<>>
          \/ Gone(w) /\ pc[w] = "waiting" /\ to_worker[w] = <<"QUIT">> /\ to_proxy[w] = <<>>
      BY <3>1 DEF ExchangeInv, Working, Resting, Gone, State
    <3>3. to_worker[w] = <<"RUN">> =>
            pc'[w] = "running" /\ to_worker'[w] = <<>> /\ to_proxy'[w] = <<>>
      BY <1>0, <1>1, <2>3, <3>2 DEF worker_wait_for
    <3>4. to_worker[w] = <<"QUIT">> =>
            pc'[w] = "exited" /\ to_worker'[w] = <<>> /\ to_proxy'[w] = <<"QUITTING">>
      BY <1>0, <1>1, <2>3, <3>2 DEF worker_wait_for
    <3> QED BY <3>2, <3>3, <3>4 DEF Working, Gone, State
  <2> QED BY <1>0, <2>1, <2>2, <2>3 DEF Worker, WorkerStarting
<1> QED BY <1>2, <1>3, <1>4, StillWorking, StillGone

\* What a tagged thread does, and what the proxy does about it, is no concern
\* of the pool.
LEMMA TaggedExchange ==
  ASSUME TypeOK, ExchangeInv, CountInv, NEW t \in tagged,
         proxy_worker_RAN(t) \/ proxy_worker_QUITTING(t) \/ Worker(t)
  PROVE  ExchangeInv' /\ CountInv'
<1>1. t \in Threads /\ \A w \in Workers : w # t /\ w \in Threads
  BY PoolThread DEF Threads
<1>2. DOMAIN pc = Threads /\ DOMAIN to_proxy = Threads /\ DOMAIN to_worker = Threads
  BY DEF TypeOK
<1>3. CASE proxy_worker_RAN(t)
  <2>1. Release(t) /\ to_proxy' = [to_proxy EXCEPT ![t] = Tail(to_proxy[t])]
    BY <1>3, Zenon DEF proxy_worker_RAN
  <2>2. Rest(t)
    BY <1>3, Zenon DEF proxy_worker_RAN
  <2>3. UNCHANGED <<max_workers, nworkers, run, pc>>
    BY <1>3 DEF proxy_worker_RAN
  <2>4. UNCHANGED active_threads
    BY <2>1 DEF Release
  <2>5. UNCHANGED idle_workers /\ \A w \in Workers : to_worker'[w] = to_worker[w]
    BY <1>1, <1>2, <2>2 DEF Rest
  <2>6. \A w \in Workers : to_proxy'[w] = to_proxy[w]
    BY <1>1, <1>2, <2>1
  <2> QED BY <2>3, <2>4, <2>5, <2>6, PoolFrame
<1>4. CASE proxy_worker_QUITTING(t) \/ Worker(t)
  <2>1. UNCHANGED <<nworkers, idle_workers, active_threads, max_workers, run>>
    BY <1>4 DEF proxy_worker_QUITTING, Worker, WorkerStarting, worker_wait_for, WorkerRan
  <2>2. \A w \in Workers : /\ pc'[w] = pc[w]
                           /\ to_worker'[w] = to_worker[w] /\ to_proxy'[w] = to_proxy[w]
    BY <1>1, <1>2, <1>4 DEF proxy_worker_QUITTING, Worker, WorkerStarting, worker_wait_for, WorkerRan
  <2> QED BY <2>1, <2>2, PoolFrame
<1> QED BY <1>3, <1>4

\* Every step keeps the exchange with the pool in order and the counters exact.
LEMMA ExchangeStep ==
  ASSUME TypeOK, NoneYet, ExchangeInv, CountInv, [Next]_vars
  PROVE  ExchangeInv' /\ CountInv'
<1>1. ASSUME ~Started, UNCHANGED <<nworkers, idle_workers, active_threads>>
      PROVE  ExchangeInv' /\ CountInv'
  <2>1. Workers = {}
    BY <1>1 DEF NoneYet, Workers
  <2> QED BY <1>1, <2>1, PoolFrame
<1>2. ASSUME UNCHANGED <<max_workers, poolVars, threadVars>>
      PROVE  ExchangeInv' /\ CountInv'
  BY <1>2, PoolFrame
<1>3. CASE \/ Setup \/ ReserveDone \/ StartTagged \/ AbandonJoin
           \/ \E c \in Category : ReserveCategory(c)
           \/ \E t \in Tagged : AbandonQuit(t)
  BY <1>1, <1>3 DEF Setup, add_tagged_thread, start, Abandon, ReserveDone, StartTagged, AbandonJoin,
    ReserveCategory, AbandonQuit, Started
<1>4. ASSUME NEW c \in Category, SubmitCommand(c) PROVE ExchangeInv' /\ CountInv'
  <2>1. UNCHANGED <<tagged, max_workers>>
    BY <1>4 DEF SubmitCommand
  <2>2. CASE Dispatch(NewJob(c, "command"))
    <3>1. NewJob(c, "command") \in Job /\ NewJob(c, "command").cls \in Class
      BY <1>4, NewJobType DEF SubmitCommand, Class
    <3> QED BY <2>1, <2>2, <3>1, DispatchExchange
  <2>3. CASE UNCHANGED <<poolVars, threadVars>>
    BY <1>2, <2>1, <2>3
  <2> QED BY <1>4, <2>2, <2>3 DEF SubmitCommand
<1>5. CASE Request
  BY <1>2, <1>4, <1>5, QuitExchange DEF Request, proxy_inject_task, proxy_to_worker, proxy_batch,
    queue_timer_job, proxy_schedule_reply_job
<1>6. CASE LoopTop \/ PhaseDone \/ PendingDone \/ Stopped \/ UNCHANGED vars
  BY <1>2, <1>6 DEF LoopTop, PhaseDone, PendingDone, Stopped, vars
<1>7. CASE RunTagged
  <2>1. \A w \in Workers : w \notin Ready /\ w \in Threads
    BY PoolThread DEF Ready
  <2>2. \A w \in Workers : run'[w] = run[w] /\ to_worker'[w] = to_worker[w]
    BY <1>7, <2>1 DEF RunTagged
  <2> QED BY <1>7, <2>2, PoolFrame DEF RunTagged
<1>8. ASSUME NEW q \in {BATCH, REPLY}, proxy_run_batch_jobs(q) PROVE ExchangeInv' /\ CountInv'
  <2>1. UNCHANGED <<tagged, max_workers>>
    BY <1>8 DEF proxy_run_batch_jobs
  <2>2. CASE jobs[q] # <<>> /\ Dispatch(Head(jobs[q]))
    <3>1. Head(jobs[q]) \in Job /\ Head(jobs[q]).cls \in Class
      BY <2>2, JobsHeadTail DEF Class
    <3> QED BY <2>1, <2>2, <3>1, DispatchExchange
  <2>3. CASE UNCHANGED <<poolVars, threadVars>>
    BY <1>2, <2>1, <2>3
  <2> QED BY <1>8, <2>2, <2>3 DEF proxy_run_batch_jobs
<1>9. CASE RunPending
  <2>1. UNCHANGED <<tagged, max_workers>> /\ it <= Len(pending_commands)
    BY <1>9 DEF RunPending
  <2>2. CASE Dispatch(pending_commands[it])
    <3>1. pending_commands[it] \in Job /\ pending_commands[it].cls \in Class
      <4>1. /\ pending_commands \in Seq(Job) /\ it \in Nat \ {0}
            /\ \A i \in DOMAIN pending_commands : pending_commands[i].cls \in Category
        BY DEF TypeOK
      <4>2. it \in DOMAIN pending_commands /\ pending_commands[it] \in Job
        BY <2>1, <4>1
      <4> QED BY <4>1, <4>2 DEF Class
    <3> QED BY <2>1, <2>2, <3>1, DispatchExchange
  <2>3. CASE UNCHANGED <<poolVars, threadVars>>
    BY <1>2, <2>1, <2>3
  <2> QED BY <1>9, <2>2, <2>3 DEF RunPending
<1>10. ASSUME NEW w \in Threads, proxy_worker_RAN(w) \/ proxy_worker_QUITTING(w) \/ Worker(w)
       PROVE  ExchangeInv' /\ CountInv'
  <2>1. w \in Workers \/ w \in tagged
    BY DEF Threads
  <2> QED BY <1>10, <2>1, RanExchange, ThreadExchange, TaggedExchange
<1> QED BY <1>3, <1>5, <1>6, <1>7, <1>8, <1>9, <1>10 DEF Next, Proxy

-----------------------------------------------------------------------------
(* The limit on the pool.                                                  *)

\* The places taken are some of the reserved ones.
LEMMA TakenFinite ==
  ASSUME NEW a
  PROVE  /\ IsFiniteSet(TakenBy(a)) /\ Cardinality(TakenBy(a)) \in Nat
         /\ Cardinality(Reserved(Class)) \in Nat
         /\ Cardinality(TakenBy(a)) <= Cardinality(Reserved(Class))
<1>1. IsFiniteSet(Reserved(Class)) /\ Cardinality(Reserved(Class)) \in Nat
  BY ReservedFinite
<1>2. TakenBy(a) \subseteq Reserved(Class)
  BY DEF TakenBy
<1> QED BY <1>1, <1>2, FS_Subset, FS_CardinalityType

\* One thread more on a class with a place to spare takes a place.
LEMMA TakeOne ==
  ASSUME NEW a \in [Class -> Int], NEW c \in Class, a[c] \in Nat, a[c] < reserved_threads[c]
  PROVE  Cardinality(TakenBy([a EXCEPT ![c] = a[c] + 1])) = Cardinality(TakenBy(a)) + 1
<1> DEFINE b == [a EXCEPT ![c] = a[c] + 1]
           p == <<c, a[c] + 1>>
<1>1. reserved_threads[c] \in Nat /\ a[c] + 1 \in 1 .. reserved_threads[c]
  BY ReservedType
<1>2. p \in Reserved(Class) /\ p \notin TakenBy(a)
  BY <1>1, ReservedMember DEF TakenBy
<1>3. ASSUME NEW x PROVE x \in TakenBy(b) <=> x \in TakenBy(a) \/ x = p
  <2>1. CASE x \notin Reserved(Class)
    BY <1>2, <2>1 DEF TakenBy
  <2>2. CASE x \in Reserved(Class)
    <3>1. PICK d \in Class, k \in Nat : k \in 1 .. reserved_threads[d] /\ x = <<d, k>>
      BY <2>2, ReservedType DEF Reserved
    <3>2. k \in Int /\ a[d] \in Int /\ b[d] = IF d = c THEN a[c] + 1 ELSE a[d]
      BY <3>1, ReservedType
    <3>3. x \in TakenBy(b) <=> k <= b[d]
      BY <2>2, <3>1 DEF TakenBy
    <3>4. x \in TakenBy(a) <=> k <= a[d]
      BY <2>2, <3>1 DEF TakenBy
    <3>5. x = p <=> d = c /\ k = a[c] + 1
      BY <3>1
    <3> HIDE DEF b, p
    <3> QED BY <3>2, <3>3, <3>4, <3>5
  <2> QED BY <2>1, <2>2
<1>4. TakenBy(b) = TakenBy(a) \cup {p}
  BY <1>3
<1> QED BY <1>2, <1>4, TakenFinite, FS_AddElement

\* One thread less on a class gives back one place at most.
LEMMA GiveBackOne ==
  ASSUME NEW a \in [Class -> Int], NEW c \in Class
  PROVE  Cardinality(TakenBy([a EXCEPT ![c] = a[c] - 1])) >= Cardinality(TakenBy(a)) - 1
<1> DEFINE b == [a EXCEPT ![c] = a[c] - 1]
           p == <<c, a[c]>>
<1>1. ASSUME NEW x \in TakenBy(a), x # p PROVE x \in TakenBy(b)
  <2>1. PICK d \in Class, k \in Nat : k \in 1 .. reserved_threads[d] /\ x = <<d, k>>
    BY ReservedType DEF TakenBy, Reserved
  <2>2. k \in Int /\ a[d] \in Int /\ k <= a[d] /\ b[d] = IF d = c THEN a[c] - 1 ELSE a[d]
    BY <2>1, ReservedType DEF TakenBy
  <2>3. ~(d = c /\ k = a[c])
    BY <1>1, <2>1
  <2>4. x \in TakenBy(b) <=> k <= b[d]
    BY <2>1 DEF TakenBy
  <2> HIDE DEF b, p
  <2> QED BY <2>2, <2>3, <2>4
<1>2. TakenBy(a) \ {p} \subseteq TakenBy(b)
  BY <1>1
<1>3. IsFiniteSet(TakenBy(a)) /\ IsFiniteSet(TakenBy(b)) /\ Cardinality(TakenBy(a)) \in Nat
      /\ Cardinality(TakenBy(b)) \in Nat
  BY TakenFinite
<1>4. IsFiniteSet(TakenBy(a) \ {p}) /\ Cardinality(TakenBy(a) \ {p}) \in Nat
      /\ Cardinality(TakenBy(a) \ {p}) >= Cardinality(TakenBy(a)) - 1
  <2> HIDE DEF p
  <2>1. /\ IsFiniteSet(TakenBy(a) \ {p})
        /\ Cardinality(TakenBy(a) \ {p}) = IF p \in TakenBy(a) THEN Cardinality(TakenBy(a)) - 1
                                           ELSE Cardinality(TakenBy(a))
    BY <1>3, FS_RemoveElement
  <2>2. Cardinality(TakenBy(a) \ {p}) \in Nat
    BY <2>1, FS_CardinalityType
  <2> QED BY <1>3, <2>1, <2>2
<1>5. Cardinality(TakenBy(a) \ {p}) <= Cardinality(TakenBy(b))
  BY <1>2, <1>3, FS_Subset
<1> HIDE DEF b, p
<1> QED BY <1>3, <1>4, <1>5 DEF b

\* A step that touches neither the pool nor the limit.
LEMMA LimitFrame ==
  ASSUME LimitInv, UNCHANGED <<max_workers, nworkers, idle_workers, active_threads>>,
         Started, Started'
  PROVE  LimitInv'
BY DEF LimitInv, Running, Started, active_workers, Taken

\* Dispatch: a job that fits the general threads keeps the pool within them; one
\* that does not takes a reserved place of its class.
LEMMA LimitDispatch ==
  ASSUME TypeOK, CountInv, LimitInv, NEW j \in Job, j.cls \in Class, HasRoom(j.cls), Dispatch(j),
         UNCHANGED max_workers, Started, Started'
  PROVE  LimitInv'
<1> DEFINE c == j.cls
           n == Cardinality(Taken)
           m == Cardinality(Reserved(Class))
<1>1. /\ nworkers \in Nat /\ Len(idle_workers) \in Nat /\ max_workers \in Nat
      /\ general_workers \in Nat
  BY ThreadsAssumption DEF TypeOK
<1>2. n \in Nat /\ m \in Nat /\ n <= m /\ Cardinality(Taken') \in Nat /\ Cardinality(Taken') <= m
  BY TakenFinite DEF Taken
<1>3. /\ active_workers' = active_workers + 1
      /\ nworkers' = nworkers \/ nworkers' = active_workers'
  <2>1. CASE idle_workers = <<>>
    BY <1>1, <2>1 DEF Dispatch, IdleLeft, active_workers
  <2>2. CASE idle_workers # <<>>
    <3>1. Len(SubSeq(idle_workers, 1, Len(idle_workers) - 1)) = Len(idle_workers) - 1
      BY <2>2, FrontType DEF TypeOK
    <3>2. nworkers' = nworkers /\ Len(idle_workers') = Len(idle_workers) - 1
      BY <2>2, <3>1 DEF Dispatch, IdleLeft
    <3> QED BY <1>1, <3>2 DEF active_workers
  <2> QED BY <2>1, <2>2
<1>4. active_threads[c] \in Nat /\ reserved_threads[c] \in Nat
  BY OnFinite, ReservedType DEF CountInv
<1>5. active_threads' = [active_threads EXCEPT ![c] = active_threads[c] + 1]
  BY DEF Dispatch
<1>6. active_threads[c] < reserved_threads[c] => Cardinality(Taken') = n + 1
  BY <1>4, <1>5, TakeOne DEF TypeOK, Taken
<1>7. Running' => Running /\ max_workers = general_workers + m
  BY DEF Running, LimitInv
<1> HIDE DEF n, m
<1>8. active_workers \in Int
  BY <1>1 DEF active_workers
<1>9. Running' => active_workers' <= general_workers + Cardinality(Taken')
  <2>1. CASE active_threads[c] < reserved_threads[c]
    BY <1>1, <1>2, <1>3, <1>6, <1>7, <1>8, <2>1 DEF LimitInv, n
  <2>2. CASE active_workers < general_workers
    BY <1>1, <1>2, <1>3, <1>8, <2>2
  <2> QED BY <2>1, <2>2 DEF HasRoom
<1>10. Running' => nworkers' <= max_workers'
  BY <1>1, <1>2, <1>3, <1>7, <1>8, <1>9 DEF LimitInv
<1> QED BY <1>7, <1>9, <1>10 DEF LimitInv, Started, m, Running

\* RAN: a thread less is active, and one place at most is given back.
LEMMA LimitRan ==
  ASSUME TypeOK, LimitInv, NEW w \in Workers, proxy_worker_RAN(w)
  PROVE  LimitInv'
<1>1. Started /\ Started' /\ UNCHANGED <<max_workers, nworkers>>
  BY DEF proxy_worker_RAN, Started
<1>2. w \notin tagged
  BY PoolThread
<1>3. Release(w) /\ Rest(w)
  BY Zenon DEF proxy_worker_RAN
<1>4. active_threads' = [active_threads EXCEPT ![run[w].cls] = active_threads[run[w].cls] - 1]
  BY <1>2, <1>3 DEF Release
<1>5. /\ Cardinality(Taken) \in Nat /\ Cardinality(Taken') \in Nat
      /\ general_workers \in Nat /\ nworkers \in Nat /\ Len(idle_workers) \in Nat
  BY TakenFinite, ThreadsAssumption DEF Taken, TypeOK
<1>6. Cardinality(Taken') >= Cardinality(Taken) - 1
  <2>1. CASE run[w].cls \in Class
    BY <1>4, <2>1, GiveBackOne DEF TypeOK, Taken
  <2>2. CASE run[w].cls \notin Class
    <3>1. active_threads' = active_threads
      BY <1>4, <2>2 DEF TypeOK
    <3> QED BY <1>5, <3>1 DEF Taken
  <2> QED BY <2>1, <2>2
<1>7. Running' => active_workers' = active_workers - 1
  <2>1. Running' => idle_workers' = Append(idle_workers, w)
    BY <1>1, <1>2, <1>3 DEF Rest, Running
  <2>2. Len(Append(idle_workers, w)) = Len(idle_workers) + 1
    BY DEF TypeOK
  <2> QED BY <1>1, <1>5, <2>1, <2>2 DEF active_workers
<1>8. active_workers \in Int /\ (Running' => Running)
  BY <1>1, <1>5 DEF active_workers, Running
<1>9. Running' => active_workers' <= general_workers + Cardinality(Taken')
  BY <1>5, <1>6, <1>7, <1>8 DEF LimitInv
<1> QED BY <1>1, <1>8, <1>9 DEF LimitInv, Started, Running

\* Before the first thread: the reservations are summed up class by class.
LEMMA LimitSetup ==
  ASSUME TypeOK, NoneYet, LimitInv,
         \/ Setup \/ ReserveDone \/ StartTagged \/ AbandonJoin
         \/ \E c \in Category : ReserveCategory(c)
         \/ \E t \in Tagged : AbandonQuit(t)
  PROVE  LimitInv'
<1>1. CASE \/ \E t \in Tagged : add_tagged_thread(t)
           \/ Abandon \/ AbandonJoin
           \/ \E t \in Tagged : AbandonQuit(t)
  BY <1>1 DEF LimitInv, Running, Started, add_tagged_thread, Abandon, AbandonJoin, AbandonQuit
<1>2. CASE start
  <2>1. /\ unsummed' = Category /\ phase' = "reserve"
        /\ max_workers' = general_workers + batch_jobs_reserved + reply_jobs_reserved
    BY <1>2 DEF start, LimitInv
  <2>2. /\ Class \ Category = ({} \cup {BATCH}) \cup {REPLY}
        /\ BATCH \in Class /\ REPLY \in Class /\ REPLY # BATCH
    BY ClassAssumption DEF Class
  <2>3. reserved_threads[BATCH] = batch_jobs_reserved /\ reserved_threads[REPLY] = reply_jobs_reserved
    BY <2>2 DEF reserved_threads
  <2>4. Cardinality(Reserved({})) = 0
    BY FS_EmptySet DEF Reserved
  <2>5. Cardinality(Reserved({} \cup {BATCH})) = batch_jobs_reserved
    BY <2>2, <2>3, <2>4, ReservedAdd, ReservedType
  <2>6. Cardinality(Reserved(Class \ Category)) = batch_jobs_reserved + reply_jobs_reserved
    BY <2>2, <2>3, <2>5, ReservedAdd
  <2>7. batch_jobs_reserved \in Nat /\ reply_jobs_reserved \in Nat /\ general_workers \in Nat
    BY <2>2, <2>3, ReservedType, ThreadsAssumption
  <2> QED BY <2>1, <2>6, <2>7 DEF LimitInv, Running, Started
<1>3. ASSUME NEW c \in Category, ReserveCategory(c) PROVE LimitInv'
  <2>1. /\ phase = "reserve" /\ phase' = "reserve" /\ c \in unsummed
        /\ max_workers' = max_workers + cat_reserved[c] /\ unsummed' = unsummed \ {c}
    BY <1>3 DEF ReserveCategory
  <2>2. /\ Class \ unsummed' = (Class \ unsummed) \cup {c}
        /\ c \in Class \ (Class \ unsummed)
    BY <2>1 DEF Class
  <2>3. reserved_threads[c] = cat_reserved[c] /\ cat_reserved[c] \in Nat
    BY ClassAssumption, ThreadsAssumption DEF reserved_threads, Class
  <2>4. Cardinality(Reserved(Class \ unsummed')) = Cardinality(Reserved(Class \ unsummed)) + cat_reserved[c]
    BY <2>2, <2>3, ReservedAdd
  <2>5. max_workers = general_workers + Cardinality(Reserved(Class \ unsummed))
    BY <2>1 DEF LimitInv
  <2>6. Cardinality(Reserved(Class \ unsummed)) \in Nat /\ general_workers \in Nat
    BY ReservedFinite, ThreadsAssumption
  <2>7. max_workers' = general_workers + Cardinality(Reserved(Class \ unsummed'))
    <3>1. PICK before \in Nat : before = Cardinality(Reserved(Class \ unsummed))
      BY <2>6
    <3>2. PICK more \in Nat : more = cat_reserved[c]
      BY <2>3
    <3>3. max_workers' = (general_workers + before) + more
      BY <2>1, <2>5, <3>1, <3>2
    <3>4. max_workers' = general_workers + (before + more)
      BY <2>6, <3>3
    <3> QED BY <2>4, <3>1, <3>2, <3>4
  <2> QED BY <2>1, <2>7 DEF LimitInv, Running, Started
<1>4. CASE ReserveDone
  <2>1. Class \ unsummed = Class
    BY <1>4 DEF ReserveDone
  <2> QED BY <1>4, <2>1 DEF ReserveDone, LimitInv, Running, Started
<1>5. CASE StartTagged
  <2>1. /\ phase = "starting" /\ phase' = "top" /\ nworkers = 0
        /\ UNCHANGED <<max_workers, nworkers, idle_workers, active_threads>>
    BY <1>5 DEF StartTagged, NoneYet, Started
  <2>2. /\ general_workers \in Nat /\ Cardinality(Taken) \in Nat /\ Len(idle_workers) \in Nat
        /\ max_workers \in Nat
    BY TakenFinite, ThreadsAssumption DEF Taken, TypeOK
  <2>3. active_workers' <= general_workers + Cardinality(Taken') /\ nworkers' <= max_workers'
    BY <2>1, <2>2 DEF active_workers, Taken
  <2> QED BY <2>1, <2>3 DEF LimitInv, Running, Started
<1> QED BY <1>1, <1>2, <1>3, <1>4, <1>5 DEF Setup

\* Every step keeps the pool within its limit.
LEMMA LimitStep ==
  ASSUME TypeOK, NoneYet, CountInv, LimitInv, [Next]_vars
  PROVE  LimitInv'
<1>1. ASSUME NEW c \in Category, SubmitCommand(c), Started PROVE LimitInv'
  <2>1. UNCHANGED <<phase, max_workers>> /\ Started'
    BY <1>1 DEF SubmitCommand, Started
  <2>2. CASE HasRoom(c) /\ Dispatch(NewJob(c, "command"))
    <3>1. NewJob(c, "command") \in Job /\ NewJob(c, "command").cls = c /\ c \in Class
      BY <1>1, NewJobType DEF SubmitCommand, Class
    <3> QED BY <1>1, <2>1, <2>2, <3>1, LimitDispatch
  <2>3. CASE UNCHANGED poolVars
    BY <1>1, <2>1, <2>3, LimitFrame
  <2> QED BY <1>1, <2>2, <2>3 DEF SubmitCommand
<1>2. CASE Quit
  BY <1>2 DEF Quit, LimitInv, Running, Started
<1>3. CASE Request
  <2>1. ASSUME NEW c \in Category, proxy_inject_task(c) \/ proxy_to_worker(c) PROVE LimitInv'
    BY <1>1, <2>1 DEF proxy_inject_task, proxy_to_worker, Started
  <2>2. CASE \/ \E q \in {BATCH} \cup Tagged : proxy_batch(q) \/ queue_timer_job(q)
             \/ proxy_schedule_reply_job
    BY <2>2, LimitFrame DEF proxy_batch, queue_timer_job, proxy_schedule_reply_job, Started
  <2> QED BY <1>2, <1>3, <2>1, <2>2 DEF Request
<1>4. CASE LoopTop \/ PhaseDone \/ PendingDone \/ RunTagged
  BY <1>4, LimitFrame DEF LoopTop, PhaseDone, NextPhase, PendingDone, RunTagged, Started
<1>5. CASE Stopped \/ UNCHANGED vars
  BY <1>5 DEF Stopped, vars, LimitInv, Running, Started, active_workers, Taken
<1>6. ASSUME NEW q \in {BATCH, REPLY}, proxy_run_batch_jobs(q) PROVE LimitInv'
  <2>1. UNCHANGED max_workers /\ Started /\ Started'
    BY <1>6 DEF proxy_run_batch_jobs, QueuePhase, Started
  <2>2. CASE jobs[q] # <<>> /\ HasRoom(q) /\ Dispatch(Head(jobs[q]))
    <3>1. Head(jobs[q]) \in Job /\ Head(jobs[q]).cls = q /\ q \in Class
      BY <2>2, JobsHeadTail DEF Class
    <3> QED BY <2>1, <2>2, <3>1, LimitDispatch
  <2>3. CASE UNCHANGED poolVars
    BY <2>1, <2>3, LimitFrame
  <2> QED BY <1>6, <2>2, <2>3 DEF proxy_run_batch_jobs
<1>7. CASE RunPending
  <2>1. /\ UNCHANGED max_workers /\ Started /\ Started'
        /\ it <= Len(pending_commands)
    BY <1>7 DEF RunPending, Started
  <2>2. CASE HasRoom(pending_commands[it].cls) /\ Dispatch(pending_commands[it])
    <3>1. pending_commands[it] \in Job /\ pending_commands[it].cls \in Class
      <4>1. /\ pending_commands \in Seq(Job) /\ it \in Nat \ {0}
            /\ \A i \in DOMAIN pending_commands : pending_commands[i].cls \in Category
        BY DEF TypeOK
      <4>2. it \in DOMAIN pending_commands /\ pending_commands[it] \in Job
        BY <2>1, <4>1
      <4> QED BY <4>1, <4>2 DEF Class
    <3> QED BY <2>1, <2>2, <3>1, LimitDispatch
  <2>3. CASE UNCHANGED poolVars
    BY <2>1, <2>3, LimitFrame
  <2> QED BY <1>7, <2>2, <2>3 DEF RunPending
<1>8. ASSUME NEW w \in Threads, proxy_worker_RAN(w) PROVE LimitInv'
  <2>1. CASE w \in Workers
    BY <1>8, <2>1, LimitRan
  <2>2. CASE w \in tagged
    <3>1. Started /\ Started' /\ UNCHANGED <<max_workers, nworkers>>
      BY <1>8 DEF proxy_worker_RAN, Started
    <3>2. Release(w) /\ Rest(w)
      BY <1>8, Zenon DEF proxy_worker_RAN
    <3>3. UNCHANGED <<idle_workers, active_threads>>
      BY <2>2, <3>2 DEF Release, Rest
    <3> QED BY <3>1, <3>3, LimitFrame
  <2> QED BY <2>1, <2>2 DEF Threads
<1>9. ASSUME NEW w \in Threads, proxy_worker_QUITTING(w) \/ Worker(w) PROVE LimitInv'
  <2>1. UNCHANGED <<phase, unsummed, max_workers, nworkers, idle_workers, active_threads>>
    BY <1>9 DEF proxy_worker_QUITTING, Worker, WorkerStarting, worker_wait_for, WorkerRan
  <2> QED BY <2>1 DEF LimitInv, Running, Started, active_workers, Taken
<1> QED BY <1>3, <1>4, <1>5, <1>6, <1>7, <1>8, <1>9, LimitSetup DEF Next, Proxy

-----------------------------------------------------------------------------
(* The theorems.                                                           *)

\* The exchange with the pool threads, the counters and the limit hold together.
THEOREM PoolInvariant == Spec => []PoolInv
<1>1. Init => ExchangeInv /\ CountInv /\ LimitInv
  <2> SUFFICES ASSUME Init PROVE ExchangeInv /\ CountInv /\ LimitInv
    OBVIOUS
  <2>1. Workers = {} /\ idle_workers = <<>>
    BY DEF Init, Workers
  <2>2. ExchangeInv
    BY <2>1 DEF ExchangeInv, IdleOnce
  <2>3. CountInv
    BY <2>1, FS_EmptySet DEF CountInv, On, Init
  <2>4. LimitInv
    BY DEF Init, LimitInv, Running, Started
  <2> QED BY <2>2, <2>3, <2>4
<1>2. TypeOK /\ NoneYet /\ ExchangeInv /\ CountInv /\ LimitInv /\ [Next]_vars
      => ExchangeInv' /\ CountInv' /\ LimitInv'
  BY ExchangeStep, LimitStep
<1> QED BY <1>1, <1>2, TypeCorrect, PTL DEF Spec, PoolInv

\* There are never more pool threads than max_workers while the proxy runs: what
\* get_idle_worker adds to `workers` fits, though only proxy_run_batch_jobs and
\* proxy_process_queue look at the limit.
THEOREM PoolLimit == Spec => []PoolWithinLimit
<1>1. PoolInv => PoolWithinLimit
  BY DEF PoolInv, LimitInv, PoolWithinLimit
<1> QED BY <1>1, PoolInvariant, PTL

\* No pool thread is on the idle list twice.
THEOREM IdleOncePerThread == Spec => []IdleOnce
<1>1. PoolInv => IdleOnce
  BY DEF PoolInv, ExchangeInv
<1> QED BY <1>1, PoolInvariant, PTL

\* Reserving M of N threads for a class leaves at most N - M to the others, for
\* any categories and reservations.  The threads beyond the general ones sit in
\* reserved places, and a class has at most as many of its own as it has threads.
THEOREM Reservations == Spec => []ReservationsHonoured
<1>1. ASSUME PoolInv, Running, NEW c \in Class
      PROVE  active_workers - active_threads[c] <= max_workers - reserved_threads[c]
  <2> DEFINE a == active_threads[c]
             r == reserved_threads[c]
             Others == Reserved(Class \ {c})
             Own == {c} \X (1 .. a)
  <2>1. TypeOK /\ CountInv /\ LimitInv
    BY <1>1 DEF PoolInv
  <2>2. a \in Nat /\ r \in Nat
    BY <2>1, OnFinite, ReservedType DEF CountInv
  <2>3. /\ active_workers <= general_workers + Cardinality(Taken)
        /\ max_workers = general_workers + Cardinality(Reserved(Class))
    BY <1>1, <2>1 DEF LimitInv
  <2>4. Cardinality(Reserved(Class)) = Cardinality(Others) + r
    <3>1. Class = (Class \ {c}) \cup {c}
      OBVIOUS
    <3> QED BY <3>1, ReservedAdd
  <2>5. Taken \subseteq Others \cup Own
    <3> SUFFICES ASSUME NEW x \in Taken PROVE x \in Others \cup Own
      OBVIOUS
    <3>1. PICK d \in Class, k \in Nat : k \in 1 .. reserved_threads[d] /\ x = <<d, k>>
      BY ReservedType DEF Taken, TakenBy, Reserved
    <3>2. k <= active_threads[d]
      BY <3>1 DEF Taken, TakenBy
    <3>3. CASE d = c
      BY <2>2, <3>1, <3>2, <3>3
    <3>4. CASE d # c
      BY <3>1, <3>4, ReservedMember
    <3> QED BY <3>3, <3>4
  <2>6. IsFiniteSet(Others) /\ Cardinality(Others) \in Nat
    BY ReservedFinite
  <2>7. IsFiniteSet(Own) /\ Cardinality(Own) = a
    BY <2>2, Column
  <2> HIDE DEF Others, Own
  <2>8. /\ IsFiniteSet(Others \cup Own)
        /\ Cardinality(Others \cup Own)
             = Cardinality(Others) + Cardinality(Own) - Cardinality(Others \cap Own)
    BY <2>6, <2>7, FS_Union
  <2>9. Cardinality(Others \cap Own) \in Nat
    BY <2>6, <2>7, FS_Intersection, FS_CardinalityType
  <2>10. Cardinality(Taken) \in Nat /\ Cardinality(Taken) <= Cardinality(Others \cup Own)
    BY <2>5, <2>8, FS_Subset, TakenFinite DEF Taken
  <2>11. Cardinality(Taken) <= Cardinality(Others) + a
    <3>1. PICK others \in Nat : others = Cardinality(Others)
      BY <2>6
    <3>2. PICK both \in Nat : both = Cardinality(Others \cap Own)
      BY <2>9
    <3>3. PICK taken \in Nat : taken = Cardinality(Taken)
      BY <2>10
    <3>4. taken <= others + a - both
      BY <2>7, <2>8, <2>10, <3>1, <3>2, <3>3
    <3>5. taken <= others + a
      BY <2>2, <3>4
    <3> QED BY <3>1, <3>3, <3>5
  <2>12. active_workers \in Int /\ general_workers \in Nat
    BY <2>1, ThreadsAssumption DEF active_workers, TypeOK
  <2> HIDE DEF a, r
  <2>13. active_workers - a <= max_workers - r
    BY <2>2, <2>3, <2>4, <2>6, <2>10, <2>11, <2>12
  <2> QED BY <2>13 DEF a, r
<1>2. PoolInv => ReservationsHonoured
  BY <1>1 DEF ReservationsHonoured
<1> QED BY <1>2, PoolInvariant, PTL
=============================================================================
