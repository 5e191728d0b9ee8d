------------------------------ MODULE Batches ------------------------------
(***************************************************************************)
(* Batches of jobs and timers (batch.h, jobs.cpp, worker.cpp): who counts  *)
(* the jobs of a batch, who calls its completion function, and when the    *)
(* object is deleted that the proxy and several workers share by pointer.  *)
(*                                                                         *)
(* A client is a thread that uses the library; each has its own control    *)
(* socket, and the proxy takes the messages of different ones in any       *)
(* order.  The jobs of a batch are numbered from 1, and -1 is its          *)
(* completion function; what a job computes or throws is one stored        *)
(* result.  The pool of threads is WorkerPool's: here, as many jobs run as *)
(* it has room for.                                                        *)
(***************************************************************************)
EXTENDS Integers, Sequences, FiniteSets, Functions

CONSTANTS
  Client,       \* threads that use the library
  Tagged,       \* the number of tagged threads
  Pool,         \* how many jobs the pool runs at a time
  MaxJobs,      \* bound: jobs of a batch
  MaxBatches,   \* bound: Batch objects made
  MaxTimers,    \* bound: timers added
  MaxMessages   \* bound: control messages of clients

ASSUME BatchesAssumption ==
  /\ Tagged \in Nat /\ Pool \in Nat \ {0}
  /\ MaxJobs \in Nat /\ MaxBatches \in Nat /\ MaxTimers \in Nat
  /\ MaxMessages \in Nat

Place == 0 .. Tagged      \* 0 is the pool, the others are tagged threads
InProxy == -1             \* run_in_proxy
NoFunction == -2          \* no completion function
NoTimer == 0
Address == 1 .. MaxBatches

VARIABLES
  at,            \* where the proxy thread is
  object,        \* a Batch that a client is filling
  heap,          \* the Batch objects that were handed over, by address
  batches,       \* the ones the proxy owns
  control,       \* messages on the control socket of each client
  queue,         \* batch_jobs, and the queue of each tagged thread
  running,       \* what the workers run
  ran,           \* what they have run: RAN is on its way to the proxy
  quitting,      \* max_workers = 0
  timer_jobs,    \* by zmq's id of the timer
  timer_zmq_id,  \* zmq's id of each timer that was not cancelled
  armed,         \* zmq's timers
  next_timer_id,
  owner,         \* the client that added each timer
  disowned,      \* timers whose cancellation by their owner has been dealt with
  plan,          \* the jobs and the completion function each batch was made with
  calls,         \* what was run of each batch, in order
  sent           \* control messages of clients so far

batchVars == <<heap, batches, queue>>
workVars  == <<running, ran, calls>>
timerVars == <<timer_jobs, timer_zmq_id, armed, disowned>>
idVars    == <<next_timer_id, owner, plan>>
vars == <<at, object, batchVars, workVars, timerVars, idVars, control, quitting, sent>>

Fresh == [threads |-> <<>>, outstanding |-> 0, complete |-> NoFunction, results |-> {}, timer |-> NoTimer]

Init ==
  /\ at = "control"
  /\ object = Fresh
  /\ heap = <<>> /\ batches = {}
  /\ control = [c \in Client |-> <<>>] /\ queue = [p \in Place |-> <<>>]
  /\ running = {} /\ ran = {} /\ quitting = FALSE
  /\ timer_jobs = <<>> /\ timer_zmq_id = <<>> /\ armed = {}
  /\ next_timer_id = 1 /\ owner = <<>> /\ disowned = {}
  /\ plan = <<>> /\ calls = [b \in Address |-> <<>>]
  /\ sent = 0

\* f with v at x.
Put(f, x, v) == [y \in DOMAIN f \cup {x} |-> IF y = x THEN v ELSE f[y]]

\* The next address that new Batch gives, and the object it gets.
Next_b == Len(plan) + 1
New(o) ==
  /\ Next_b \in Address
  /\ heap' = Put(heap, Next_b, o)
  /\ plan' = Append(plan, [jobs |-> Len(o.threads), complete |-> o.complete])

One(thread, comp, z) ==
  [Fresh EXCEPT !.threads = <<thread>>, !.outstanding = 1, !.complete = comp, !.timer = z]

\* A client's control message.
send_control(c, msg) ==
  /\ sent < MaxMessages /\ sent' = sent + 1
  /\ control' = [control EXCEPT ![c] = Append(@, msg)]

-----------------------------------------------------------------------------
(* The clients.  check_not_started never objects: nothing sets `started`.  *)

add_job(thread) ==
  /\ Len(object.threads) < MaxJobs /\ Next_b \in Address
  /\ object' = [object EXCEPT !.threads = Append(@, thread), !.outstanding = @ + 1]
  /\ UNCHANGED <<at, batchVars, workVars, timerVars, idVars, control, quitting, sent>>

completion(thread) ==
  /\ object.complete = NoFunction /\ Next_b \in Address /\ MaxJobs > 0
  /\ object' = [object EXCEPT !.complete = thread]
  /\ UNCHANGED <<at, batchVars, workVars, timerVars, idVars, control, quitting, sent>>

\* The application goes on with a new Batch; it does not fill the old one again.
batch(c) ==
  /\ object.threads # <<>>
  /\ New(object)
  /\ object' = Fresh
  /\ send_control(c, [cmd |-> "BATCH", b |-> Next_b])
  /\ UNCHANGED <<at, batches, queue, workVars, timerVars, next_timer_id, owner, quitting>>

job(c, thread) ==
  /\ New(One(thread, NoFunction, NoTimer))
  /\ send_control(c, [cmd |-> "BATCH", b |-> Next_b])
  /\ UNCHANGED <<at, object, batches, queue, workVars, timerVars, next_timer_id, owner, quitting>>

add_timer(c, squelch, thread) ==
  /\ next_timer_id <= MaxTimers
  /\ next_timer_id' = next_timer_id + 1
  /\ owner' = Append(owner, c)
  /\ send_control(c, [cmd |-> "TIMER", id |-> next_timer_id, squelch |-> squelch, thread |-> thread])
  /\ UNCHANGED <<at, object, batchVars, workVars, timerVars, plan, quitting>>

\* Any thread may have been given the id.
cancel_timer(c, id) ==
  /\ send_control(c, [cmd |-> "TIMER_DEL", id |-> id])
  /\ UNCHANGED <<at, object, batchVars, workVars, timerVars, idVars, quitting>>

-----------------------------------------------------------------------------
(* The proxy: control messages.                                            *)

Receive(c, cmd) ==
  /\ at = "control" /\ control[c] # <<>> /\ Head(control[c]).cmd = cmd
  /\ control' = [control EXCEPT ![c] = Tail(@)]
  /\ UNCHANGED <<at, object, workVars, idVars, quitting, sent>>

\* A set of jobs, from the first to the last.
InOrder(J) ==
  CHOOSE s \in Surjection(1 .. Cardinality(J), J) :
    \A j, k \in 1 .. Cardinality(J) : j < k => s[j] < s[k]

\* Each job goes to the queue of its thread.
proxy_batch(c) ==
  LET b == Head(control[c]).b
      threads == heap[b].threads
      jobs(p) == InOrder({i \in DOMAIN threads : threads[i] = p})
      For(p) == [k \in DOMAIN jobs(p) |-> [b |-> b, job |-> jobs(p)[k]]]
  IN
  /\ Receive(c, "BATCH")
  /\ batches' = batches \cup {b}
  /\ queue' = [p \in Place |-> queue[p] \o For(p)]
  /\ UNCHANGED <<heap, timerVars>>

NewTimer == Len(timer_jobs) + 1

proxy_timer(c) ==
  LET m == Head(control[c]) IN
  /\ Receive(c, "TIMER")
  /\ timer_jobs' = Append(timer_jobs, [squelch |-> m.squelch, running |-> FALSE, thread |-> m.thread])
  /\ armed' = armed \cup {NewTimer}
  /\ timer_zmq_id' = Put(timer_zmq_id, m.id, NewTimer)
  /\ UNCHANGED <<batchVars, disowned>>

Disown(c, id) == disowned' = disowned \cup ({id} \cap {x \in DOMAIN owner : owner[x] = c})

\* Mutant: the timer loses its id but goes on.
proxy_timer_del_only(c) ==
  LET id == Head(control[c]).id IN
  /\ Receive(c, "TIMER_DEL")
  /\ timer_zmq_id' = Restrict(timer_zmq_id, DOMAIN timer_zmq_id \ {id})
  /\ Disown(c, id)
  /\ UNCHANGED <<batchVars, timer_jobs, armed>>

proxy_timer_del(c) ==
  LET id == Head(control[c]).id IN
  /\ Receive(c, "TIMER_DEL")
  /\ IF id \in DOMAIN timer_zmq_id
     THEN /\ armed' = armed \ {timer_zmq_id[id]}
          /\ timer_zmq_id' = Restrict(timer_zmq_id, DOMAIN timer_zmq_id \ {id})
     ELSE UNCHANGED <<armed, timer_zmq_id>>
  /\ Disown(c, id)
  /\ UNCHANGED <<batchVars, timer_jobs>>

QUIT ==
  /\ at = "control" /\ ~quitting
  /\ quitting' = TRUE
  /\ UNCHANGED <<at, object, batchVars, workVars, timerVars, idVars, control, sent>>

-----------------------------------------------------------------------------
(* The proxy: a worker is done.                                            *)

Delete(b) ==
  /\ batches' = batches \ {b}
  /\ heap' = Restrict(heap, DOMAIN heap \ {b})

\* Called where the completion function is to run: the one of a timer's job, which
\* is the only one of this kind that has a state to change, stops the squelching.
job_completion_in_proxy(b) ==
  /\ calls' = [calls EXCEPT ![b] = Append(@, -1)]
  /\ timer_jobs' = IF heap[b].timer = NoTimer THEN timer_jobs
                   ELSE [timer_jobs EXCEPT ![heap[b].timer].running = FALSE]

\* Mutant: the count goes down twice.
FinishedTwice(b, left) == heap' = [heap EXCEPT ![b].outstanding = left - 1]

Finished(b, left) == heap' = [heap EXCEPT ![b].outstanding = left]

\* Mutant: one job is taken for the last.
StillRunningLess(b) == heap[b].outstanding > 2

\* Mutant: the last job is not taken for the last.
StillRunningMore(b) == heap[b].outstanding > 0

StillRunning(b) == heap[b].outstanding > 1

proxy_worker_message(r) ==
  LET b == r.b IN
  /\ at = "workers" /\ r \in ran
  /\ ran' = ran \ {r}
  /\ \/ r.job = -1 /\ Delete(b) /\ UNCHANGED <<queue, calls, timer_jobs>>
     \/ /\ r.job # -1 /\ StillRunning(b)
        /\ Finished(b, heap[b].outstanding - 1)
        /\ UNCHANGED <<batches, queue, calls, timer_jobs>>
     \/ /\ r.job # -1 /\ ~StillRunning(b) /\ heap[b].complete = NoFunction
        /\ Delete(b) /\ UNCHANGED <<queue, calls, timer_jobs>>
     \/ /\ r.job # -1 /\ ~StillRunning(b) /\ heap[b].complete = InProxy
        /\ job_completion_in_proxy(b) /\ Delete(b) /\ UNCHANGED queue
     \/ /\ r.job # -1 /\ ~StillRunning(b) /\ heap[b].complete \in Place
        /\ Finished(b, 0)
        /\ queue' = [queue EXCEPT ![heap[b].complete] = Append(@, [b |-> b, job |-> -1])]
        /\ UNCHANGED <<batches, calls, timer_jobs>>
  /\ UNCHANGED <<at, object, running, timer_zmq_id, armed, disowned, idVars, control, quitting, sent>>

-----------------------------------------------------------------------------
(* The proxy: timers, and handing out jobs.                                *)

\* Mutant: the flag is not looked at.
SquelchedNever(z) == FALSE

Squelched(z) == timer_jobs[z].squelch /\ timer_jobs[z].running

\* A timer that is due: its job is queued, or run at once if it is for the proxy
\* thread.  zmq decides when; a timer may be due again in the next round.
_queue_timer_job(z) ==
  LET t == timer_jobs[z] IN
  /\ at = "timers" /\ z \in armed
  /\ ~Squelched(z) /\ t.thread # InProxy
  /\ New(One(t.thread, IF t.squelch THEN InProxy ELSE NoFunction, z))
  /\ timer_jobs' = [timer_jobs EXCEPT ![z].running = t.squelch]
  /\ batches' = batches \cup {Next_b}
  /\ queue' = [queue EXCEPT ![t.thread] = Append(@, [b |-> Next_b, job |-> 1])]
  /\ UNCHANGED <<at, object, workVars, timer_zmq_id, armed, disowned, next_timer_id, owner, control,
                 quitting, sent>>

Busy(p) == {r \in running \cup ran : r.place = p}

\* A tagged thread runs one job, the pool as many as it has room for.
Ready(p) == queue[p] # <<>> /\ Cardinality(Busy(p)) < IF p = 0 THEN Pool ELSE 1

proxy_process_queue(p) ==
  /\ at = "queue" /\ ~quitting /\ Ready(p)
  /\ running' = running \cup {[place |-> p, b |-> Head(queue[p]).b, job |-> Head(queue[p]).job]}
  /\ queue' = [queue EXCEPT ![p] = Tail(@)]
  /\ UNCHANGED <<at, object, heap, batches, ran, calls, timerVars, idVars, control, quitting, sent>>

\* Each part of the loop goes on until there is nothing left.
proxy_loop ==
  /\ \/ at = "control" /\ (\A c \in Client : control[c] = <<>>) /\ at' = "workers"
     \/ at = "workers" /\ ran = {} /\ at' = "timers"
     \/ at = "timers" /\ at' = "queue"
     \/ at = "queue" /\ (quitting \/ \A p \in Place : ~Ready(p)) /\ at' = "control"
  /\ UNCHANGED <<object, batchVars, workVars, timerVars, idVars, control, quitting, sent>>

-----------------------------------------------------------------------------
(* The workers.                                                            *)

\* The job stores its result in the batch; the completion function moves them out.
worker_thread(r) ==
  /\ r \in running
  /\ running' = running \ {r} /\ ran' = ran \cup {r}
  /\ calls' = [calls EXCEPT ![r.b] = Append(@, r.job)]
  /\ heap' = [heap EXCEPT ![r.b].results = IF r.job = -1 THEN {} ELSE @ \cup {r.job}]
  /\ UNCHANGED <<at, object, batches, queue, timerVars, idVars, control, quitting, sent>>

Clients ==
  \/ \E p \in Place : add_job(p)
  \/ \E p \in Place \cup {InProxy} : completion(p)
  \/ \E c \in Client :
    \/ batch(c)
    \/ \E p \in Place : job(c, p)
    \/ \E squelch \in BOOLEAN, p \in Place \cup {InProxy} : add_timer(c, squelch, p)
    \/ \E id \in 1 .. next_timer_id - 1 : cancel_timer(c, id)

Proxy ==
  \/ \E c \in Client : proxy_batch(c) \/ proxy_timer(c) \/ proxy_timer_del(c)
  \/ \E r \in ran : proxy_worker_message(r)
  \/ \E z \in armed : _queue_timer_job(z)
  \/ \E p \in Place : proxy_process_queue(p)
  \/ proxy_loop

Worker == \E r \in running : worker_thread(r)

Next == Clients \/ Proxy \/ Worker \/ QUIT

Spec == Init /\ [][Next]_vars

\* Threads that have something to do go on; a job ends.
FairSpec == Spec /\ WF_vars(Proxy) /\ WF_vars(Worker)

-----------------------------------------------------------------------------
(* Properties.                                                             *)

Function == Place \cup {InProxy, NoFunction}
Object == [threads : Seq(Place), outstanding : Nat, complete : Function, results : SUBSET Nat, timer : Nat]
Item == [b : Address, job : (1 .. MaxJobs) \cup {1, -1}]
Run == [place : Place, b : Address, job : (1 .. MaxJobs) \cup {1, -1}]

\* Every variable has its type.
TypeOK ==
  /\ at \in {"control", "workers", "timers", "queue"} /\ quitting \in BOOLEAN
  /\ object \in Object
  /\ DOMAIN heap \subseteq Address /\ \A b \in DOMAIN heap : heap[b] \in Object
  /\ batches \subseteq Address
  /\ queue \in [Place -> Seq(Item)] /\ running \subseteq Run /\ ran \subseteq Run
  /\ timer_jobs \in Seq([squelch : BOOLEAN, running : BOOLEAN, thread : Place \cup {InProxy}])
  /\ armed \subseteq DOMAIN timer_jobs
  /\ owner \in Seq(Client) /\ next_timer_id = Len(owner) + 1
  /\ DOMAIN timer_zmq_id \subseteq DOMAIN owner /\ disowned \subseteq DOMAIN owner
  /\ plan \in Seq([jobs : Nat, complete : Function]) /\ Len(plan) <= MaxBatches
  /\ sent \in 0 .. MaxMessages

\* Something of a batch waits in a queue, or runs or is done but not counted yet.
Queued(b) == \E p \in Place : \E k \in DOMAIN queue[p] : queue[p][k].b = b
InHand(b) == \E r \in running \cup ran : r.b = b

\* No queue, worker or message to the proxy refers to a batch that was deleted:
\* the proxy deletes it with the last thing that any of them has of it.
NoUseAfterFree ==
  /\ batches \subseteq DOMAIN heap
  /\ \A b \in Address : Queued(b) \/ InHand(b) => b \in batches
  /\ \A c \in Client : \A k \in DOMAIN control[c] :
       control[c][k].cmd = "BATCH" => control[c][k].b \in DOMAIN heap

Promise == INSTANCE BatchPromise
             WITH Batch <- Address, Completion <- -1,
                  plan <- [b \in DOMAIN plan |-> [jobs |-> plan[b].jobs,
                                                  completes |-> plan[b].complete # NoFunction]],
                  ended <- DOMAIN plan \ DOMAIN heap

\* Every job of a batch is run once, by whichever thread; then, if it has one, its
\* completion function once, in whichever place; and only then is it deleted.
BatchesKeepPromise == Promise!Spec

\* A timer with `squelch` has one job at a time, waiting or running, and is
\* squelched as long as it does, cancelled or not.
OneJobPerTimer ==
  \A z \in DOMAIN timer_jobs :
    timer_jobs[z].squelch =>
      Cardinality({b \in batches : heap[b].timer = z}) = IF timer_jobs[z].running THEN 1 ELSE 0

\* A timer whose owner's cancel_timer was dealt with is not armed any more: the
\* messages of one thread are taken in order.
CancelledStaysQuiet ==
  /\ armed = {timer_zmq_id[id] : id \in DOMAIN timer_zmq_id}
  /\ disowned \cap DOMAIN timer_zmq_id = {}

\* Every batch that is handed over comes to its end, unless the proxy quits: none is
\* there for good.  "The completion function type, called after all jobs have finished."
BatchEnds == \A b \in Address : []<>(b \notin DOMAIN heap \/ quitting)
=============================================================================
