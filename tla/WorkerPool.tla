----------------------------- MODULE WorkerPool -----------------------------
(***************************************************************************)
(* The proxy thread, its pool of worker threads and the tagged threads     *)
(* (proxy.cpp, worker.cpp, jobs.cpp): how a job reaches a thread, how the  *)
(* thread reports back, and how everything is shut down.                   *)
(*                                                                         *)
(* The proxy is one thread; `phase` says where it is in proxy_loop.  What  *)
(* the calling threads and the remotes send it is input of the handler     *)
(* that receives it.  A worker talks to the proxy over an inproc socket    *)
(* pair: one FIFO each way (to_worker, to_proxy); the proxy takes the      *)
(* messages of different workers in any order.                             *)
(*                                                                         *)
(* A job is [cls, id, kind].  `cls` says who counts it: a category, BATCH, *)
(* REPLY, or the tagged thread it must run on.  What the job's function    *)
(* does is left out; a finished batch job has one of the results that      *)
(* Batch::job_finished can give.                                           *)
(***************************************************************************)
EXTENDS Integers, Sequences, FiniteSets, Functions

CONSTANTS
  Category,         \* the command categories
  BATCH, REPLY,     \* the job classes of batch_jobs and of reply_jobs
  Tagged,           \* the tagged threads that may be added
  general_workers,  \* set_general_threads
  batch_threads,    \* set_batch_threads, -1 for the default
  reply_threads,    \* set_reply_threads, -1 for the default
  cat_reserved,     \* add_category: reserved_threads
  cat_max_queue,    \* add_category: max_queue, negative for no limit
  MaxJobs           \* bound: the jobs that are ever submitted

Class == Category \cup {BATCH, REPLY}

ASSUME ClassAssumption ==
  /\ BATCH # REPLY
  /\ BATCH \notin Category /\ REPLY \notin Category
  /\ Tagged \cap Class = {}
  /\ \A t \in Tagged : t \notin Nat
  /\ IsFiniteSet(Class) /\ IsFiniteSet(Tagged)

ASSUME ThreadsAssumption ==
  /\ general_workers \in Nat \ {0}
  /\ batch_threads \in Nat \cup {-1}
  /\ reply_threads \in Nat \cup {-1}
  /\ cat_reserved \in [Category -> Nat]
  /\ cat_max_queue \in [Category -> Int]
  /\ MaxJobs \in Nat

batch_jobs_reserved ==
  IF batch_threads < 0 THEN (general_workers + 1) \div 2 ELSE batch_threads

reply_jobs_reserved ==
  IF reply_threads < 0 THEN (general_workers + 7) \div 8 ELSE reply_threads

reserved_threads ==
  [c \in Class |-> IF c = BATCH THEN batch_jobs_reserved
                   ELSE IF c = REPLY THEN reply_jobs_reserved
                   ELSE cat_reserved[c]]

VARIABLES
  phase,            \* where the proxy thread is
  unsummed,         \* categories whose reservation is not in max_workers yet
  max_workers,      \* 0 once the proxy is quitting
  capacity,         \* workers.capacity()
  nworkers,         \* workers.size(); the pool threads are 1 .. nworkers
  idle_workers,     \* the pool threads with nothing to do
  tagged,           \* the tagged threads added so far
  busy,             \* the busy flag of each tagged thread
  active_threads,   \* active_threads, batch_jobs_active, reply_jobs_active
  pending_commands, \* commands waiting for a thread
  it,               \* the position of proxy_process_queue in pending_commands
  queued,           \* category.queued
  jobs,             \* batch_jobs, reply_jobs and the tagged threads' queues
  run,              \* the job loaded in the run_info of each thread
  pc,               \* what each thread is doing
  to_worker,        \* control messages on their way to each thread
  to_proxy,         \* control messages on their way from each thread
  next_job,         \* id of the next job submitted
  executed,         \* ids of the jobs that have run
  dropped           \* ids of the jobs turned away, their queue being full

proxyVars  == <<phase, unsummed, max_workers, capacity>>
poolVars   == <<nworkers, idle_workers, active_threads>>
tagVars    == <<tagged, busy>>
queueVars  == <<pending_commands, it, queued, jobs>>
threadVars == <<run, pc, to_worker, to_proxy>>
jobVars    == <<next_job, executed, dropped>>
vars == <<proxyVars, poolVars, tagVars, queueVars, threadVars, jobVars>>

Workers == 1 .. nworkers
Threads == Workers \cup tagged

\* f with x bound to v, whether or not x was in its domain
Put(f, x, v) == [y \in DOMAIN f \cup {x} |-> IF y = x THEN v ELSE f[y]]

NewJob(c, k) == [cls |-> c, id |-> next_job, kind |-> k]

joinable(w) == w \in Threads /\ pc[w] # "joined"

active_workers == nworkers - Len(idle_workers)

\* Mutant: one general thread too many.
HasRoomOffByOne(c) == active_threads[c] < reserved_threads[c]
                      \/ active_workers <= general_workers

\* Mutant: any thread will do, reserved for another class or not.
HasRoomAny(c) == active_workers < max_workers

HasRoom(c) == active_threads[c] < reserved_threads[c]
              \/ active_workers < general_workers

-----------------------------------------------------------------------------
(* Dispatch: the idle thread used last, or else a new one, gets the job.   *)

\* Mutant: the new thread's id is taken after it was added.
get_idle_worker_late == IF idle_workers = <<>> THEN nworkers + 2 ELSE idle_workers[Len(idle_workers)]

get_idle_worker == IF idle_workers = <<>> THEN nworkers + 1 ELSE idle_workers[Len(idle_workers)]

\* Mutant: the thread is not popped.
IdleLeftUnpopped == idle_workers

IdleLeft == IF idle_workers = <<>> THEN <<>> ELSE SubSeq(idle_workers, 1, Len(idle_workers) - 1)

\* A thread that is not running yet starts with the job that is loaded.
proxy_run_worker(w) ==
  IF joinable(w)
  THEN /\ to_worker' = Put(to_worker, w, Append(to_worker[w], "RUN"))
       /\ UNCHANGED <<pc, to_proxy>>
  ELSE /\ pc' = Put(pc, w, "running")
       /\ to_worker' = Put(to_worker, w, <<>>)
       /\ to_proxy' = Put(to_proxy, w, <<>>)

Dispatch(j) ==
  LET w == get_idle_worker IN
  /\ nworkers' = IF idle_workers = <<>> THEN nworkers + 1 ELSE nworkers
  /\ idle_workers' = IdleLeft
  /\ run' = Put(run, w, j)
  /\ proxy_run_worker(w)
  /\ active_threads' = [active_threads EXCEPT ![j.cls] = @ + 1]

-----------------------------------------------------------------------------
(* Setting up and starting.                                                *)

add_tagged_thread(t) ==
  /\ phase = "setup" /\ t \notin tagged
  /\ tagged' = tagged \cup {t}
  /\ busy' = Put(busy, t, FALSE)
  /\ jobs' = Put(jobs, t, <<>>)
  /\ run' = Put(run, t, [cls |-> t, id |-> 0, kind |-> "none"])
  /\ pc' = Put(pc, t, "connecting")
  /\ to_worker' = Put(to_worker, t, <<>>)
  /\ to_proxy' = Put(to_proxy, t, <<>>)
  /\ UNCHANGED <<proxyVars, poolVars, pending_commands, it, queued, jobVars>>

start ==
  /\ phase = "setup"
  /\ phase' = "reserve"
  /\ max_workers' = general_workers + batch_jobs_reserved + reply_jobs_reserved
  /\ UNCHANGED <<unsummed, capacity, poolVars, tagVars, queueVars, threadVars, jobVars>>

ReserveCategory(c) ==
  /\ phase = "reserve" /\ c \in unsummed
  /\ max_workers' = max_workers + cat_reserved[c]
  /\ unsummed' = unsummed \ {c}
  /\ UNCHANGED <<phase, capacity, poolVars, tagVars, queueVars, threadVars, jobVars>>

ReserveDone ==
  /\ phase = "reserve" /\ unsummed = {}
  /\ capacity' = max_workers
  /\ phase' = "starting"
  /\ UNCHANGED <<unsummed, max_workers, poolVars, tagVars, queueVars, threadVars, jobVars>>

\* Every tagged thread has said STARTING: take the messages, send START to all.
StartTagged ==
  /\ phase = "starting"
  /\ \A t \in tagged : to_proxy[t] # <<>>
  /\ to_proxy' = [t \in tagged |-> Tail(to_proxy[t])]
  /\ to_worker' = [t \in tagged |-> Append(to_worker[t], "START")]
  /\ phase' = "top"
  /\ UNCHANGED <<unsummed, max_workers, capacity, poolVars, tagVars, queueVars, run, pc, jobVars>>

\* ~ArqmaMQ() of an object that was never started: QUIT is retried until the
\* thread's socket is there, and then the thread is joined.  What the threads
\* sent is never read: the socket goes with the object.
Abandon ==
  /\ phase = "setup"
  /\ phase' = "abandon"
  /\ UNCHANGED <<unsummed, max_workers, capacity, poolVars, tagVars, queueVars, threadVars, jobVars>>

AbandonQuit(t) ==
  /\ phase = "abandon" /\ t \in tagged
  /\ pc[t] = "starting" /\ to_worker[t] = <<>>
  /\ to_worker' = [to_worker EXCEPT ![t] = <<"QUIT">>]
  /\ UNCHANGED <<proxyVars, poolVars, tagVars, queueVars, run, pc, to_proxy, jobVars>>

AbandonJoin ==
  /\ phase = "abandon"
  /\ \A t \in tagged : pc[t] = "exited"
  /\ pc' = [t \in tagged |-> "joined"]
  /\ to_proxy' = [t \in tagged |-> <<>>]
  /\ phase' = "stopped"
  /\ UNCHANGED <<unsummed, max_workers, capacity, poolVars, tagVars, queueVars,
                 run, to_worker, jobVars>>

-----------------------------------------------------------------------------
(* The top of the proxy loop, and moving on when a socket has nothing more. *)

LoopTop ==
  /\ phase = "top"
  /\ phase' = IF max_workers = 0 /\ \A w \in Threads : ~joinable(w)
              THEN "stopped" ELSE "control"
  /\ UNCHANGED <<unsummed, max_workers, capacity, poolVars, tagVars, queueVars, threadVars, jobVars>>

\* The phases in loop order; proxy_process_queue returns at once when quitting.
NextPhase ==
  CASE phase = "control"  -> "worker"
    [] phase = "worker"   -> "timers"
    [] phase = "timers"   -> IF max_workers = 0 THEN "incoming" ELSE "tagged"
    [] phase = "incoming" -> "top"

PhaseDone ==
  /\ phase \in {"control", "worker", "timers", "incoming"}
  /\ phase = "worker" => \A w \in Threads : to_proxy[w] = <<>>
  /\ phase' = NextPhase
  /\ UNCHANGED <<unsummed, max_workers, capacity, poolVars, tagVars, queueVars, threadVars, jobVars>>

-----------------------------------------------------------------------------
(* Jobs coming in.                                                         *)

\* Mutant: the newest command goes first.
QueueCommandFront(c) ==
  /\ pending_commands' = <<NewJob(c, "command")>> \o pending_commands
  /\ queued' = [queued EXCEPT ![c] = @ + 1]

QueueCommand(c) ==
  /\ pending_commands' = Append(pending_commands, NewJob(c, "command"))
  /\ queued' = [queued EXCEPT ![c] = @ + 1]

\* A command of category c: run it, queue it, or drop it.
SubmitCommand(c) ==
  /\ next_job <= MaxJobs
  /\ next_job' = next_job + 1
  /\ \/ /\ HasRoom(c)
        /\ Dispatch(NewJob(c, "command"))
        /\ UNCHANGED <<pending_commands, queued, dropped>>
     \/ /\ ~HasRoom(c)
        /\ cat_max_queue[c] < 0 \/ queued[c] < cat_max_queue[c]
        /\ QueueCommand(c)
        /\ UNCHANGED <<poolVars, threadVars, dropped>>
     \/ /\ ~HasRoom(c)
        /\ cat_max_queue[c] >= 0 /\ queued[c] >= cat_max_queue[c]
        /\ dropped' = dropped \cup {next_job}
        /\ UNCHANGED <<poolVars, threadVars, pending_commands, queued>>
  /\ UNCHANGED <<proxyVars, tagVars, it, jobs, executed>>

proxy_inject_task(c) == phase = "control" /\ SubmitCommand(c)

\* An authorised command arriving on a connection.
proxy_to_worker(c) == phase = "incoming" /\ SubmitCommand(c)

QueueJob(q, k) ==
  /\ next_job <= MaxJobs
  /\ next_job' = next_job + 1
  /\ jobs' = [jobs EXCEPT ![q] = Append(@, NewJob(q, k))]

\* job(), or one job of a batch, for the pool or for a tagged thread.
proxy_batch(q) ==
  /\ phase = "control" /\ q \in {BATCH} \cup tagged
  /\ QueueJob(q, "job")
  /\ UNCHANGED <<proxyVars, poolVars, tagVars, pending_commands, it, queued,
                 threadVars, executed, dropped>>

\* A timer that does not run in the proxy thread itself expires.
queue_timer_job(q) ==
  /\ phase = "timers" /\ q \in {BATCH} \cup tagged
  /\ QueueJob(q, "job")
  /\ UNCHANGED <<proxyVars, poolVars, tagVars, pending_commands, it, queued,
                 threadVars, executed, dropped>>

\* A reply, an error response or a HELLO arrives, or a connect fails.
proxy_schedule_reply_job ==
  /\ phase \in {"control", "incoming"}
  /\ QueueJob(REPLY, "job")
  /\ UNCHANGED <<proxyVars, poolVars, tagVars, pending_commands, it, queued,
                 threadVars, executed, dropped>>

-----------------------------------------------------------------------------
(* proxy_process_queue: tagged threads, batch jobs, replies, commands.     *)

Ready == {t \in tagged : ~busy[t] /\ jobs[t] # <<>>}

RunTagged ==
  /\ phase = "tagged"
  /\ phase' = "batch"
  /\ busy' = [t \in tagged |-> busy[t] \/ t \in Ready]
  /\ run' = [w \in Threads |-> IF w \in Ready THEN Head(jobs[w]) ELSE run[w]]
  /\ to_worker' = [w \in Threads |-> IF w \in Ready THEN Append(to_worker[w], "RUN")
                                     ELSE to_worker[w]]
  /\ jobs' = [q \in DOMAIN jobs |-> IF q \in Ready THEN Tail(jobs[q]) ELSE jobs[q]]
  /\ UNCHANGED <<unsummed, max_workers, capacity, poolVars, tagged, pending_commands,
                 it, queued, pc, to_proxy, jobVars>>

QueuePhase(q) == IF q = BATCH THEN "batch" ELSE "reply"

proxy_run_batch_jobs(q) ==
  /\ phase = QueuePhase(q)
  /\ IF jobs[q] # <<>> /\ active_workers < max_workers /\ HasRoom(q)
     THEN /\ Dispatch(Head(jobs[q]))
          /\ jobs' = [jobs EXCEPT ![q] = Tail(@)]
          /\ UNCHANGED <<phase, it>>
     ELSE /\ phase' = IF q = BATCH THEN "reply" ELSE "commands"
          /\ it' = 1
          /\ UNCHANGED <<poolVars, threadVars, jobs>>
  /\ UNCHANGED <<unsummed, max_workers, capacity, tagVars, pending_commands, queued, jobVars>>

RunPending ==
  /\ phase = "commands"
  /\ it <= Len(pending_commands) /\ active_workers < max_workers
  /\ LET j == pending_commands[it] IN
     IF HasRoom(j.cls)
     THEN /\ Dispatch(j)
          /\ queued' = [queued EXCEPT ![j.cls] = @ - 1]
          /\ pending_commands' = SubSeq(pending_commands, 1, it - 1)
                              \o SubSeq(pending_commands, it + 1, Len(pending_commands))
          /\ UNCHANGED it
     ELSE /\ it' = it + 1
          /\ UNCHANGED <<poolVars, threadVars, pending_commands, queued>>
  /\ UNCHANGED <<proxyVars, tagVars, jobs, jobVars>>

\* Mutant: stops when the general threads are in use.
PendingDoneEarly ==
  /\ phase = "commands"
  /\ it > Len(pending_commands) \/ active_workers >= general_workers
  /\ phase' = "incoming"
  /\ UNCHANGED <<unsummed, max_workers, capacity, poolVars, tagVars, queueVars, threadVars, jobVars>>

PendingDone ==
  /\ phase = "commands"
  /\ it > Len(pending_commands) \/ active_workers >= max_workers
  /\ phase' = "incoming"
  /\ UNCHANGED <<unsummed, max_workers, capacity, poolVars, tagVars, queueVars, threadVars, jobVars>>

-----------------------------------------------------------------------------
(* Messages from the threads.                                              *)

\* What Batch::job_finished says of the job that w ran, and what the proxy does
\* about it: the completion function is queued, or nothing is (the batch still
\* has jobs, or is over, or completes in the proxy thread).  A reply job is a
\* batch without a completion function.
JobFinished(w) ==
  \/ UNCHANGED <<jobs, next_job>>
  \/ /\ run[w].kind = "job" /\ run[w].cls # REPLY
     /\ \E q \in tagged \cup {BATCH} : QueueJob(q, "completion")

\* Mutant: reply jobs are counted off as batch jobs.
ReleaseAsBatch(w) ==
  IF w \in tagged
  THEN busy' = [busy EXCEPT ![w] = FALSE] /\ UNCHANGED active_threads
  ELSE /\ active_threads' = [active_threads EXCEPT
            ![IF run[w].cls = REPLY THEN BATCH ELSE run[w].cls] = @ - 1]
       /\ UNCHANGED busy

Release(w) ==
  IF w \in tagged
  THEN busy' = [busy EXCEPT ![w] = FALSE] /\ UNCHANGED active_threads
  ELSE active_threads' = [active_threads EXCEPT ![run[w].cls] = @ - 1] /\ UNCHANGED busy

\* Mutant: a thread that comes back after QUIT is not told to quit.
RestQuietly(w) ==
  /\ idle_workers' = IF w \in tagged THEN idle_workers ELSE Append(idle_workers, w)
  /\ UNCHANGED to_worker

\* Mutant: a thread that comes back is not used again.
RestForever(w) ==
  /\ to_worker' = IF max_workers = 0 THEN [to_worker EXCEPT ![w] = Append(@, "QUIT")]
                  ELSE to_worker
  /\ UNCHANGED idle_workers

\* A quitting proxy lets nobody rest.
Rest(w) ==
  IF max_workers = 0
  THEN /\ to_worker' = [to_worker EXCEPT ![w] = Append(@, "QUIT")]
       /\ UNCHANGED idle_workers
  ELSE /\ idle_workers' = IF w \in tagged THEN idle_workers ELSE Append(idle_workers, w)
       /\ UNCHANGED to_worker

proxy_worker_RAN(w) ==
  /\ phase = "worker" /\ w \in Threads
  /\ to_proxy[w] # <<>> /\ Head(to_proxy[w]) = "RAN"
  /\ to_proxy' = [to_proxy EXCEPT ![w] = Tail(@)]
  /\ Release(w)
  /\ IF run[w].cls \in Category THEN UNCHANGED <<jobs, next_job>> ELSE JobFinished(w)
  /\ Rest(w)
  /\ UNCHANGED <<proxyVars, nworkers, tagged, pending_commands, it, queued, run, pc,
                 executed, dropped>>

\* join() returns once the thread has returned.
proxy_worker_QUITTING(w) ==
  /\ phase = "worker" /\ w \in Threads
  /\ to_proxy[w] # <<>> /\ Head(to_proxy[w]) = "QUITTING"
  /\ pc[w] = "exited"
  /\ to_proxy' = [to_proxy EXCEPT ![w] = Tail(@)]
  /\ pc' = [pc EXCEPT ![w] = "joined"]
  /\ UNCHANGED <<proxyVars, poolVars, tagVars, queueVars, run, to_worker, jobVars>>

\* Mutant: QUIT goes to every tagged thread, busy or not, and once more later.
QuitToAll ==
  /\ phase = "control" /\ max_workers # 0
  /\ max_workers' = 0
  /\ to_worker' = [w \in Threads |-> IF w \in tagged \cup Range(idle_workers)
                                     THEN Append(to_worker[w], "QUIT") ELSE to_worker[w]]
  /\ idle_workers' = <<>>
  /\ UNCHANGED <<phase, unsummed, capacity, nworkers, active_threads, tagVars, queueVars,
                 run, pc, to_proxy, jobVars>>

\* The QUIT control message of ~ArqmaMQ().
Quit ==
  LET told == Range(idle_workers) \cup {t \in tagged : ~busy[t]} IN
  /\ phase = "control" /\ max_workers # 0
  /\ max_workers' = 0
  /\ to_worker' = [w \in Threads |-> IF w \in told THEN Append(to_worker[w], "QUIT")
                                     ELSE to_worker[w]]
  /\ idle_workers' = <<>>
  /\ UNCHANGED <<phase, unsummed, capacity, nworkers, active_threads, tagVars, queueVars,
                 run, pc, to_proxy, jobVars>>

-----------------------------------------------------------------------------
(* The threads: worker_thread and worker_wait_for.                         *)

\* Mutant: the thread does not wait for START.
WorkerStartingAtOnce(t) ==
  /\ t \in tagged /\ pc[t] = "connecting"
  /\ pc' = [pc EXCEPT ![t] = "waiting"]
  /\ to_proxy' = [to_proxy EXCEPT ![t] = Append(@, "STARTING")]
  /\ UNCHANGED <<proxyVars, poolVars, tagVars, queueVars, run, to_worker, jobVars>>

\* A tagged thread connects its socket and announces itself.
WorkerStarting(t) ==
  /\ t \in tagged /\ pc[t] = "connecting"
  /\ pc' = [pc EXCEPT ![t] = "starting"]
  /\ to_proxy' = [to_proxy EXCEPT ![t] = Append(@, "STARTING")]
  /\ UNCHANGED <<proxyVars, poolVars, tagVars, queueVars, run, to_worker, jobVars>>

\* A message a thread does not wait for is logged and ignored.
worker_wait_for(w) ==
  LET expect == IF pc[w] = "starting" THEN "START" ELSE "RUN"
      command == Head(to_worker[w])
  IN
  /\ w \in Threads
  /\ pc[w] \in {"starting", "waiting"} /\ to_worker[w] # <<>>
  /\ to_worker' = [to_worker EXCEPT ![w] = Tail(@)]
  /\ pc' = [pc EXCEPT ![w] = CASE command = expect -> IF expect = "START" THEN "waiting"
                                                       ELSE "running"
                               [] command = "QUIT" -> "exited"
                               [] OTHER -> @]
  /\ to_proxy' = IF command = "QUIT"
                 THEN [to_proxy EXCEPT ![w] = Append(@, "QUITTING")] ELSE to_proxy
  /\ UNCHANGED <<proxyVars, poolVars, tagVars, queueVars, run, jobVars>>

\* The loaded job runs, whether or not it throws, and the thread says so.
WorkerRan(w) ==
  /\ w \in Threads /\ pc[w] = "running"
  /\ executed' = executed \cup {run[w].id}
  /\ pc' = [pc EXCEPT ![w] = "waiting"]
  /\ to_proxy' = [to_proxy EXCEPT ![w] = Append(@, "RAN")]
  /\ UNCHANGED <<proxyVars, poolVars, tagVars, queueVars, run, to_worker, next_job, dropped>>

-----------------------------------------------------------------------------
Init ==
  /\ phase = "setup" /\ unsummed = Category
  /\ max_workers = 0 /\ capacity = 0
  /\ nworkers = 0 /\ idle_workers = <<>>
  /\ active_threads = [c \in Class |-> 0]
  /\ tagged = {} /\ busy = <<>>
  /\ pending_commands = <<>> /\ it = 1
  /\ queued = [c \in Category |-> 0]
  /\ jobs = [q \in {BATCH, REPLY} |-> <<>>]
  /\ run = <<>> /\ pc = <<>> /\ to_worker = <<>> /\ to_proxy = <<>>
  /\ next_job = 1 /\ executed = {} /\ dropped = {}

\* The owner sets the object up, and starts it or destroys it.
Setup ==
  \/ \E t \in Tagged : add_tagged_thread(t)
  \/ start
  \/ Abandon

\* What other threads and remotes ask of the proxy.
Request ==
  \/ \E c \in Category : proxy_inject_task(c) \/ proxy_to_worker(c)
  \/ \E q \in {BATCH} \cup Tagged : proxy_batch(q) \/ queue_timer_job(q)
  \/ proxy_schedule_reply_job
  \/ Quit

\* What the proxy thread does by itself.
Proxy ==
  \/ \E c \in Category : ReserveCategory(c)
  \/ ReserveDone \/ StartTagged
  \/ \E t \in Tagged : AbandonQuit(t)
  \/ AbandonJoin
  \/ LoopTop \/ PhaseDone
  \/ RunTagged
  \/ \E q \in {BATCH, REPLY} : proxy_run_batch_jobs(q)
  \/ RunPending \/ PendingDone
  \/ \E w \in Threads : proxy_worker_RAN(w) \/ proxy_worker_QUITTING(w)

Worker(w) == WorkerStarting(w) \/ worker_wait_for(w) \/ WorkerRan(w)

Stopped == phase = "stopped" /\ UNCHANGED vars

Next == Setup \/ Request \/ Proxy \/ (\E w \in Threads : Worker(w)) \/ Stopped

Spec == Init /\ [][Next]_vars

\* The proxy thread keeps running, and so does every thread: a job's function
\* returns, and the system schedules all threads.  Nobody has to ask anything.
FairSpec ==
  /\ Spec
  /\ WF_vars(Proxy)
  /\ \A w \in (1 .. MaxJobs) \cup Tagged : WF_vars(Worker(w))

-----------------------------------------------------------------------------
(* Properties.                                                             *)

Started == phase \notin {"setup", "abandon", "reserve", "starting"}
Running == Started /\ max_workers # 0

\* The thread's place in the exchange with the proxy.  A START that the thread
\* has not taken yet does not count: what follows it is already meant for it.
Stage(w) ==
  IF pc[w] = "starting" /\ to_worker[w] # <<>> /\ Head(to_worker[w]) = "START"
  THEN <<"waiting", Tail(to_worker[w]), to_proxy[w]>>
  ELSE <<pc[w], to_worker[w], to_proxy[w]>>

Busy(w) == Stage(w) \in {<<"running", <<>>, <<>>>>,
                         <<"waiting", <<"RUN">>, <<>>>>,
                         <<"waiting", <<>>, <<"RAN">>>>}
Idle(w) == Stage(w) = <<"waiting", <<>>, <<>>>>
Leaving(w) == Stage(w) \in {<<"waiting", <<"QUIT">>, <<>>>>,
                            <<"exited", <<>>, <<"QUITTING">>>>,
                            <<"joined", <<>>, <<>>>>}

Job == [cls : Class \cup Tagged, id : 0 .. MaxJobs,
        kind : {"none", "command", "job", "completion"}]

\* Every variable has its type, and the per-thread maps cover the threads there are.
TypeOK ==
  /\ phase \in {"setup", "abandon", "reserve", "starting", "top", "control", "worker",
                "timers", "tagged", "batch", "reply", "commands", "incoming", "stopped"}
  /\ unsummed \subseteq Category
  /\ max_workers \in Nat /\ capacity \in Nat /\ nworkers \in Nat
  /\ idle_workers \in Seq(Workers)
  /\ active_threads \in [Class -> Int]
  /\ tagged \subseteq Tagged
  /\ busy \in [tagged -> BOOLEAN]
  /\ pending_commands \in Seq(Job) /\ it \in Nat \ {0}
  /\ \A i \in DOMAIN pending_commands : pending_commands[i].cls \in Category
  /\ queued \in [Category -> Int]
  /\ jobs \in [{BATCH, REPLY} \cup tagged -> Seq(Job)]
  /\ \A q \in DOMAIN jobs : \A i \in DOMAIN jobs[q] : jobs[q][i].cls = q
  /\ run \in [Threads -> Job]
  /\ pc \in [Threads -> {"connecting", "starting", "waiting", "running", "exited", "joined"}]
  /\ to_worker \in [Threads -> Seq({"START", "RUN", "QUIT"})]
  /\ to_proxy \in [Threads -> Seq({"STARTING", "RAN", "QUITTING"})]
  /\ next_job \in 1 .. MaxJobs + 1
  /\ executed \subseteq 0 .. MaxJobs /\ dropped \subseteq 1 .. MaxJobs

\* The proxy and each thread agree on whose turn it is (worker_thread,
\* proxy_worker_message, the QUIT command): a pool thread on the idle list, or a
\* tagged thread that is not busy, waits with nothing in flight; any other is
\* doing one job, or, when quitting, was told QUIT exactly once and nothing since.
WorkerProtocol ==
  /\ \A w \in Workers : IF w \in Range(idle_workers) THEN Idle(w)
                        ELSE Busy(w) \/ (max_workers = 0 /\ Leaving(w))
  /\ Started => \A t \in tagged : IF busy[t] THEN Busy(t)
                                  ELSE Idle(t) \/ (max_workers = 0 /\ Leaving(t))

\* A pool thread is on the idle list at most once (get_idle_worker would give
\* it two jobs at a time otherwise).
IdleOnce == \A i, j \in DOMAIN idle_workers : idle_workers[i] = idle_workers[j] => i = j

\* The counters the dispatch decisions rest on are exact: active_threads of each
\* class is the number of pool threads working on it, and queued of a category
\* the number of its pending commands, within its max_queue.
CountersExact ==
  /\ \A c \in Class :
       active_threads[c] = Cardinality({w \in Workers : Busy(w) /\ run[w].cls = c})
  /\ \A c \in Category :
       /\ queued[c] = Cardinality({i \in DOMAIN pending_commands : pending_commands[i].cls = c})
       /\ cat_max_queue[c] >= 0 => queued[c] <= cat_max_queue[c]

\* Until the proxy quits there are never more pool threads than max_workers,
\* though neither proxy_to_worker nor proxy_inject_task looks at that limit.
PoolWithinLimit == Running => nworkers <= max_workers

\* The promise of README.md on reserved threads: of N threads, M of them reserved
\* for a class, no more than N - M are used for the other classes at any time.
ReservationsHonoured ==
  Running => \A c \in Class :
    active_workers - active_threads[c] <= max_workers - reserved_threads[c]

\* Once proxy_process_queue is done, and until the next worker is heard, no
\* pending command is left that a free general or reserved thread could run.
NoCommandOverlooked ==
  Running /\ phase \in {"incoming", "top", "control"} =>
    \A i \in DOMAIN pending_commands : ~HasRoom(pending_commands[i].cls)

\* Every place where job j is: in a queue, loaded in a thread, run, or dropped.
Places(j) ==
  {<<"pending", i>> : i \in {i \in DOMAIN pending_commands : pending_commands[i].id = j}}
  \cup (UNION {{<<q, i>> : i \in {i \in DOMAIN jobs[q] : jobs[q][i].id = j}} : q \in DOMAIN jobs})
  \cup {<<"run", w>> : w \in {w \in Threads : /\ run[w].id = j
                                              /\ pc[w] = "running" \/ "RUN" \in Range(to_worker[w])}}
  \cup {<<"executed", j>> : i \in executed \cap {j}}
  \cup {<<"dropped", j>> : i \in dropped \cap {j}}

\* No job is lost, run twice, or run and also kept: each one submitted is in
\* exactly one place, whatever the interleaving of dispatch, reports and QUIT.
EachJobInOnePlace == \A j \in 1 .. next_job - 1 : Cardinality(Places(j)) = 1

\* Commands of one category start in the order they came, though a new command
\* is dispatched without a look at pending_commands.
CategoryFifo ==
  [][Running => \A w \in DOMAIN run' : w \notin Threads \/ run'[w] # run[w] =>
       \A i \in DOMAIN pending_commands :
         pending_commands[i].cls = run'[w].cls => pending_commands[i].id >= run'[w].id]_vars

\* While tagged_workers can still grow, and so move its elements, no tagged
\* thread holds a reference to its own (worker_thread takes it after START).
TaggedReferenceStable ==
  [][tagged' # tagged => \A t \in tagged :
       pc[t] \in {"connecting", "starting"} /\ to_worker[t] = <<>>]_vars

\* Every job submitted is eventually run, unless it is dropped or the proxy quits.
EveryJobRuns ==
  \A j \in 1 .. MaxJobs :
    next_job > j ~> (j \in executed \cup dropped \/ max_workers = 0)

\* Destroying the object ends: every thread is joined and the proxy stops.
ShutdownCompletes ==
  phase = "abandon" \/ (Started /\ max_workers = 0) ~> phase = "stopped"

\* What `assert(workers.capacity() > id)` in get_idle_worker and the comment on
\* `workers` ("only allocates it once, before starting any workers") say.
WorkersAllocatedOnce == Started => nworkers <= capacity
=============================================================================
