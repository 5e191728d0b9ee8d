--------------------------- MODULE BatchesProofs ---------------------------
(***************************************************************************)
(* No queue, worker or message is left with a batch that was deleted, and  *)
(* batches keep their promise, for any number of clients, threads, jobs,   *)
(* batches and timers.  The proxy deletes a batch with its last item, by   *)
(* the invariants of BatchStepProofs, which every step keeps.              *)
(***************************************************************************)
EXTENDS BatchStepProofs

\* The order in which the provers are tried.
USE ZenonT(2), SMTT(20)

USE DEF batchVars, workVars, timerVars, idVars

-----------------------------------------------------------------------------
(* Timers.                                                                 *)

TimerJob == [squelch : BOOLEAN, running : BOOLEAN, thread : Place \cup {InProxy}]

\* A new batch of the proxy's own, for a timer that is due and not squelched.
LEMMA QueueTimerStep ==
  ASSUME BatchInv, NEW z \in armed, _queue_timer_job(z)
  PROVE  BatchInv'
<1>0. TypeInv /\ PlacesInv /\ CountInv /\ PostInv /\ TimerInv /\ CancelInv
  BY DEF BatchInv
<1>n. PICK n : n = Next_b
  OBVIOUS
<1> DEFINE t == timer_jobs[z]
           f == IF t.squelch THEN InProxy ELSE NoFunction
           o == One(t.thread, f, z)
           x == Piece(n, 1)
<1>1. /\ ~Squelched(z) /\ t.thread # InProxy /\ New(o)
      /\ timer_jobs' = [timer_jobs EXCEPT ![z].running = t.squelch]
      /\ batches' = batches \cup {n}
      /\ queue' = [queue EXCEPT ![t.thread] = Append(@, x)]
      /\ UNCHANGED <<at, object, workVars, timer_zmq_id, armed, disowned, next_timer_id, owner, control,
                     quitting, sent>>
  BY <1>n DEF _queue_timer_job, Piece
<1>2. timer_jobs \in Seq(TimerJob) /\ z \in DOMAIN timer_jobs /\ z \in Nat \ {0}
  BY <1>0 DEF TypeInv, TypeOK, TimerJob
<1>3. t \in TimerJob /\ t.thread \in Place /\ f \in Function /\ t.squelch \in BOOLEAN
  <2>1. t \in TimerJob
    BY <1>2
  <2>2. t.thread \in Place /\ t.squelch \in BOOLEAN
    BY <1>1, <2>1 DEF TimerJob
  <2>3. f \in Function
    BY DEF Function
  <2> QED
    BY <2>1, <2>2, <2>3
<1>4. /\ o \in Object /\ o.outstanding = 1 /\ Len(o.threads) = 1 /\ o.complete = f /\ o.timer = z
  BY <1>2, <1>3, OneObject
<1> HIDE DEF o, f
<1>5. /\ n \in Address /\ n \notin DOMAIN plan /\ n \notin DOMAIN heap
      /\ DOMAIN heap' = DOMAIN heap \cup {n} /\ heap' \in [DOMAIN heap' -> Object]
      /\ heap'[n] = o /\ \A a \in DOMAIN heap : heap'[a] = heap[a]
      /\ plan' \in Seq(Plan) /\ Len(plan') <= MaxBatches
      /\ DOMAIN plan' = DOMAIN plan \cup {n}
      /\ plan'[n] = [jobs |-> Len(o.threads), complete |-> o.complete]
      /\ \A a \in DOMAIN plan : plan'[a] = plan[a]
      /\ DOMAIN heap' \subseteq DOMAIN plan' /\ DOMAIN heap' \subseteq Address
  BY <1>0, <1>1, <1>4, <1>n, NewObject
<1>6. n \notin batches /\ batches \subseteq DOMAIN heap
  BY <1>0, <1>5 DEF TypeInv
<1>7. calls[n] = <<>> /\ \A i : Piece(n, i) \notin Pending \cup Done
  BY <1>0, <1>5, <1>6, NoItems DEF CountInv
<1>8. x \in Item /\ QueueType
  BY <1>0, <1>5 DEF Piece, Item, QueueType, TypeInv, TypeOK
<1> HIDE DEF x
<1>9. QueueType' /\ PlacesInv' /\ Waiting' = Waiting \cup {x} /\ Working' = Working /\ Done' = Done
  <2>1. x \notin Waiting \cup Working \cup Done
    BY <1>7 DEF Pending, x
  <2>2. running' = running /\ ran' = ran
    BY <1>1
  <2>3. Working' = Working /\ Done' = Done
    BY <2>2 DEF Working, Done
  <2> QED
    BY <1>0, <1>1, <1>3, <1>8, <2>1, <2>2, <2>3, OneEnqueued
<1>10. Pending' = Pending \cup {Piece(n, 1)}
  BY <1>9 DEF Pending, x
<1>11. /\ timer_jobs' \in Seq(TimerJob) /\ DOMAIN timer_jobs' = DOMAIN timer_jobs
       /\ \A y \in DOMAIN timer_jobs : timer_jobs'[y].squelch = timer_jobs[y].squelch
       /\ timer_jobs'[z].running = t.squelch
       /\ \A y \in DOMAIN timer_jobs : y # z => timer_jobs'[y] = timer_jobs[y]
  <2>1. [t EXCEPT !.running = t.squelch] \in TimerJob
    BY <1>3 DEF TimerJob
  <2>2. timer_jobs' = [timer_jobs EXCEPT ![z] = [t EXCEPT !.running = t.squelch]]
    BY <1>1
  <2>3. timer_jobs' \in Seq(TimerJob)
    BY ONLY <1>2, <2>1, <2>2
  <2>4. /\ [t EXCEPT !.running = t.squelch].squelch = t.squelch
        /\ [t EXCEPT !.running = t.squelch].running = t.squelch
    BY <1>3 DEF TimerJob
  <2>5. /\ DOMAIN timer_jobs' = DOMAIN timer_jobs
        /\ timer_jobs'[z] = [t EXCEPT !.running = t.squelch]
        /\ \A y \in DOMAIN timer_jobs : y # z => timer_jobs'[y] = timer_jobs[y]
    BY <1>2, <2>2
  <2> QED
    BY <2>3, <2>4, <2>5
<1>12. TypeInv'
  <2>1. queue' \in [Place -> Seq(Item)]
    BY <1>9 DEF QueueType
  <2>2. batches' \subseteq DOMAIN heap' /\ batches' \subseteq Address
    BY <1>1, <1>5, <1>6
  <2>3. \A a \in DOMAIN heap' : heap'[a] \in Object
    BY <1>5
  <2> QED
    BY <1>0, <1>1, <1>5, <1>11, <2>1, <2>2, <2>3 DEF TypeInv, TypeOK, Plan, TimerJob
<1>13. CountInv'
  <2>1. \A a, i : a # n => (Piece(a, i) \in Pending' <=> Piece(a, i) \in Pending)
    BY <1>10, Pieces
  <2>2. \A i : Piece(n, i) \in Pending' <=> i \in 1 .. 1
    BY <1>7, <1>10, Pieces
  <2>3. OnlyBatch(n)
    BY <1>1, <1>5, <1>9, <2>1 DEF OnlyBatch
  <2>4. Owned(n, o, 1, <<>>, Pending', Done)
    <3>1. 1 \in Nat \ {0}
      OBVIOUS
    <3> QED
      BY ONLY <1>4, <1>7, <2>2, <3>1, OwnedQueued
  <2>5. Planned(heap'[n], plan'[n]) /\ plan'[n].jobs = 1
    BY <1>4, <1>5 DEF Planned
  <2>6. BatchCounted(n)'
    BY <1>1, <1>5, <1>7, <1>9, <2>2, <2>4, <2>5 DEF BatchCounted
  <2>7. ObjectCounted(object)' /\ \A a \in Address \ DOMAIN plan' : calls'[a] = <<>>
    BY <1>0, <1>1, <1>5 DEF CountInv, ObjectCounted
  <2> QED
    BY <1>0, <1>12, <2>3, <2>6, <2>7, CountStep
<1>14. PostInv'
  <2>1. DOMAIN heap \ batches \subseteq DOMAIN heap' \ batches'
    BY <1>1, <1>5
  <2> QED
    BY <1>0, <1>1, <2>1, PostSame
<1>15. TimerInv'
  <2>1. \A a \in batches' : a \in batches \/ a = n
    BY <1>1
  <2>2. heap'[n].timer = z /\ heap'[n].complete = f /\ \A a \in batches : heap'[a] = heap[a]
    BY <1>4, <1>5, <1>6
  <2>3. \A a \in batches' : TimerBatch(heap'[a], timer_jobs')
    <3>1. \A a \in batches : TimerBatch(heap[a], timer_jobs)
      BY <1>0 DEF TimerInv
    <3>2. \A a \in batches : TimerBatch(heap'[a], timer_jobs')
      BY <1>11, <2>2, <3>1 DEF TimerBatch
    <3>3. TimerBatch(heap'[n], timer_jobs')
      BY <1>2, <1>11, <2>2 DEF TimerBatch, f
    <3> QED
      BY <2>1, <3>2, <3>3
  <2>4. ASSUME NEW y \in DOMAIN timer_jobs', timer_jobs'[y].squelch
        PROVE  /\ timer_jobs'[y].running <=> \E b \in batches' : heap'[b].timer = y
               /\ \A a, b \in batches' : heap'[a].timer = y /\ heap'[b].timer = y => a = b
    <3>1. CASE y = z
      <4>1. timer_jobs'[z].running /\ ~timer_jobs[z].running
        BY <1>1, <1>11, <2>4, <3>1 DEF Squelched
      <4>2. \A b \in batches : heap[b].timer # z
        BY <1>0, <1>2, <1>11, <2>4, <3>1, <4>1 DEF TimerInv
      <4>3. \A b \in batches' : heap'[b].timer = z <=> b = n
        BY <2>1, <2>2, <4>2
      <4>4. n \in batches'
        BY <1>1
      <4> QED
        BY <3>1, <4>1, <4>3, <4>4
    <3>2. CASE y # z
      <4>1. y \in DOMAIN timer_jobs /\ timer_jobs'[y] = timer_jobs[y]
        BY <1>11, <3>2
      <4>2. \A b \in batches' : heap'[b].timer = y => b \in batches /\ heap'[b] = heap[b]
        BY <2>1, <2>2, <3>2
      <4>3. batches \subseteq batches'
        BY <1>1
      <4> QED
        BY <1>0, <2>2, <2>4, <4>1, <4>2, <4>3 DEF TimerInv
    <3> QED
      BY <3>1, <3>2
  <2> QED
    BY <2>3, <2>4 DEF TimerInv
<1>16. CancelInv'
  BY <1>0, <1>1, CancelSame
<1> QED
  BY <1>9, <1>12, <1>13, <1>14, <1>15, <1>16 DEF BatchInv

\* A control message of a client about timer id: a new one of its own, or one to be
\* cancelled.
LEMMA SendTimerStep ==
  ASSUME BatchInv, NEW c \in Client,
         \/ \E squelch \in BOOLEAN, p \in Place \cup {InProxy} : add_timer(c, squelch, p)
         \/ \E id \in 1 .. next_timer_id - 1 : cancel_timer(c, id)
  PROVE  BatchInv'
<1>0. TypeInv /\ PlacesInv /\ CountInv /\ PostInv /\ TimerInv /\ CancelInv
  BY DEF BatchInv
<1>1. /\ UNCHANGED <<at, object, batchVars, workVars, timerVars, plan, quitting>>
      /\ sent < MaxMessages /\ sent' = sent + 1
  BY DEF add_timer, cancel_timer, send_control
<1>2. /\ owner \in Seq(Client) /\ next_timer_id = Len(owner) + 1 /\ Len(owner) \in Nat
      /\ DOMAIN owner = 1 .. Len(owner) /\ control \in [Client -> Seq(Message)]
      /\ disowned \subseteq DOMAIN owner /\ DOMAIN timer_zmq_id \subseteq DOMAIN owner
  BY <1>0 DEF TypeInv, TypeOK
<1>3. PICK m \in Message :
        /\ control' = [control EXCEPT ![c] = Append(@, m)] /\ m.cmd # "BATCH"
        /\ \/ /\ m.cmd = "TIMER" /\ m.id = Len(owner) + 1
              /\ owner' = Append(owner, c) /\ next_timer_id' = next_timer_id + 1
           \/ /\ m.cmd = "TIMER_DEL" /\ m.id \in 1 .. Len(owner)
              /\ UNCHANGED <<owner, next_timer_id>>
  <2>1. ASSUME NEW squelch \in BOOLEAN, NEW p \in Place \cup {InProxy}, add_timer(c, squelch, p)
        PROVE  LET m == [cmd |-> "TIMER", id |-> next_timer_id, squelch |-> squelch, thread |-> p] IN
               /\ m \in Message /\ m.id = Len(owner) + 1
               /\ control' = [control EXCEPT ![c] = Append(@, m)]
               /\ owner' = Append(owner, c) /\ next_timer_id' = next_timer_id + 1
    BY <1>2, <2>1 DEF add_timer, send_control, Message
  <2>2. ASSUME NEW id \in 1 .. next_timer_id - 1, cancel_timer(c, id)
        PROVE  LET m == [cmd |-> "TIMER_DEL", id |-> id] IN
               /\ m \in Message /\ m.id \in 1 .. Len(owner)
               /\ control' = [control EXCEPT ![c] = Append(@, m)]
               /\ UNCHANGED <<owner, next_timer_id>>
    <3>1. PICK m : m = [cmd |-> "TIMER_DEL", id |-> id]
      OBVIOUS
    <3>2. m \in Message /\ m.id \in 1 .. Len(owner)
      BY <1>2, <2>2, <3>1 DEF Message
    <3>3. /\ control' = [control EXCEPT ![c] = Append(@, m)]
          /\ UNCHANGED <<owner, next_timer_id>>
      BY <2>2, <3>1, Zenon DEF cancel_timer, send_control
    <3> QED
      BY <3>1, <3>2, <3>3
  <2> QED
    BY <2>1, <2>2
<1>4. /\ control' \in [Client -> Seq(Message)]
      /\ \A d \in Client : \A k \in DOMAIN control'[d] :
           \/ k \in DOMAIN control[d] /\ control'[d][k] = control[d][k]
           \/ d = c /\ k = Len(control[c]) + 1 /\ control'[d][k] = m
  BY <1>2, <1>3, Sent
<1>5. /\ owner' \in Seq(Client) /\ next_timer_id' = Len(owner') + 1
      /\ DOMAIN owner \subseteq DOMAIN owner' /\ \A i \in DOMAIN owner : owner'[i] = owner[i]
      /\ m.cmd = "TIMER" => m.id \in DOMAIN owner' /\ owner'[m.id] = c /\ m.id \notin DOMAIN owner
      /\ m.cmd # "TIMER" => m.cmd = "TIMER_DEL" /\ m.id \in DOMAIN owner
  <2>1. CASE owner' = Append(owner, c) /\ m.id = Len(owner) + 1 /\ m.cmd = "TIMER"
             /\ next_timer_id' = next_timer_id + 1
    <3>1. /\ owner' \in Seq(Client) /\ Len(owner') = Len(owner) + 1
          /\ DOMAIN owner' = 1 .. Len(owner) + 1 /\ owner'[Len(owner) + 1] = c
          /\ \A i \in 1 .. Len(owner) : owner'[i] = owner[i]
      BY <1>2, <2>1
    <3>2. /\ 1 .. Len(owner) \subseteq 1 .. Len(owner) + 1
          /\ Len(owner) + 1 \in 1 .. Len(owner) + 1 /\ Len(owner) + 1 \notin 1 .. Len(owner)
      BY <1>2
    <3> QED
      BY <1>2, <2>1, <3>1, <3>2
  <2>2. CASE owner' = owner /\ next_timer_id' = next_timer_id /\ m.cmd = "TIMER_DEL"
             /\ m.id \in 1 .. Len(owner)
    BY <1>2, <2>2
  <2> QED
    BY <1>3, <2>1, <2>2
<1>6. TypeInv'
  <2>1. sent' \in 0 .. MaxMessages
    BY <1>0, <1>1, BatchesAssumption DEF TypeInv, TypeOK
  <2>2. disowned \subseteq DOMAIN owner' /\ DOMAIN timer_zmq_id \subseteq DOMAIN owner'
    BY <1>2, <1>5
  <2> QED
    BY <1>0, <1>1, <1>4, <1>5, <2>1, <2>2 DEF TypeInv, TypeOK
<1>7. PlacesInv' /\ CountInv'
  <2>1. ObjectCounted(object)'
    BY <1>0, <1>1 DEF CountInv, ObjectCounted
  <2> QED
    BY <1>0, <1>1, <2>1, PlacesSame, CountSame
<1>8. PostInv'
  <2>1. \A d \in Client : \A k \in DOMAIN control'[d] : control'[d][k].cmd = "BATCH" =>
          k \in DOMAIN control[d] /\ control'[d][k] = control[d][k]
    BY <1>3, <1>4
  <2> QED
    BY ONLY <2>1, <1>0, <1>1 DEF PostInv
<1>9. TimerInv'
  BY <1>0, <1>1, TimerSame
<1>10. CancelInv'
  <2>1. /\ CancelledStaysQuiet'
        /\ \A x, y \in DOMAIN timer_zmq_id' : timer_zmq_id'[x] = timer_zmq_id'[y] => x = y
    BY <1>0, <1>1 DEF CancelInv, CancelledStaysQuiet
  <2>2. \A d \in Client : \A k \in DOMAIN control[d] :
          control[d][k].cmd # "BATCH" => control[d][k].id \in DOMAIN owner
    BY <1>0 DEF CancelInv
  <2>3. ASSUME NEW d \in Client, NEW k \in DOMAIN control'[d], control'[d][k].cmd # "BATCH"
        PROVE  control'[d][k].id \in DOMAIN owner'
    BY <1>4, <1>5, <2>2, <2>3
  <2>4. ASSUME NEW d \in Client, NEW k \in DOMAIN control'[d], control'[d][k].cmd = "TIMER"
        PROVE  LET id == control'[d][k].id IN
               /\ owner'[id] = d /\ id \notin disowned' /\ id \notin DOMAIN timer_zmq_id'
               /\ \A j \in DOMAIN control'[d] :
                    control'[d][j].cmd # "BATCH" /\ control'[d][j].id = id /\ j # k
                    => j > k /\ control'[d][j].cmd = "TIMER_DEL"
    <3>1. CASE k \in DOMAIN control[d] /\ control'[d][k] = control[d][k]
      <4> DEFINE id == control[d][k].id
      <4>1. /\ id \in DOMAIN owner /\ owner[id] = d /\ id \notin disowned /\ id \notin DOMAIN timer_zmq_id
            /\ \A j \in DOMAIN control[d] :
                 control[d][j].cmd # "BATCH" /\ control[d][j].id = id /\ j # k
                 => j > k /\ control[d][j].cmd = "TIMER_DEL"
        BY <1>0, <2>4, <3>1 DEF CancelInv
      <4>2. Len(control[c]) + 1 > k \/ d # c
        BY <1>2, <3>1
      <4> HIDE DEF id
      <4>3. ASSUME NEW j \in DOMAIN control'[d], control'[d][j].cmd # "BATCH",
                   control'[d][j].id = id, j # k
            PROVE  j > k /\ control'[d][j].cmd = "TIMER_DEL"
        <5>1. CASE j \in DOMAIN control[d] /\ control'[d][j] = control[d][j]
          BY <4>1, <4>3, <5>1
        <5>2. CASE d = c /\ j = Len(control[c]) + 1 /\ control'[d][j] = m
          BY <1>5, <4>1, <4>2, <4>3, <5>2
        <5> QED
          BY <1>4, <5>1, <5>2
      <4> QED
        BY <1>1, <1>5, <3>1, <4>1, <4>3 DEF id
    <3>2. CASE d = c /\ k = Len(control[c]) + 1 /\ control'[d][k] = m
      <4>1. m.cmd = "TIMER" /\ owner'[m.id] = c /\ m.id \notin DOMAIN owner
        BY <1>5, <2>4, <3>2
      <4>2. m.id \notin disowned /\ m.id \notin DOMAIN timer_zmq_id
        BY <1>2, <4>1
      <4>3. \A j \in DOMAIN control'[d] : control'[d][j].cmd # "BATCH" /\ control'[d][j].id = m.id => j = k
        BY <1>4, <2>2, <3>2, <4>1
      <4> QED
        BY <1>1, <3>2, <4>1, <4>2, <4>3
    <3> QED
      BY <1>4, <3>1, <3>2
  <2> QED
    BY <2>1, <2>3, <2>4 DEF CancelInv
<1> QED
  BY <1>6, <1>7, <1>8, <1>9, <1>10 DEF BatchInv

\* The proxy adds a timer: its id and zmq's are both new.
LEMMA TimerStep ==
  ASSUME BatchInv, NEW c \in Client, proxy_timer(c)
  PROVE  BatchInv'
<1>0. TypeInv /\ PlacesInv /\ CountInv /\ PostInv /\ TimerInv /\ CancelInv
  BY DEF BatchInv
<1>m. PICK m : m = Head(control[c])
  OBVIOUS
<1>z. PICK z : z = NewTimer
  OBVIOUS
<1> DEFINE t == [squelch |-> m.squelch, running |-> FALSE, thread |-> m.thread]
<1>1. /\ control[c] # <<>> /\ m.cmd = "TIMER"
      /\ control' = [control EXCEPT ![c] = Tail(@)]
      /\ timer_jobs' = Append(timer_jobs, t) /\ armed' = armed \cup {z}
      /\ timer_zmq_id' = Put(timer_zmq_id, m.id, z)
      /\ UNCHANGED <<at, object, workVars, idVars, quitting, sent, batchVars, disowned>>
  BY <1>m, <1>z DEF proxy_timer, Receive
<1>2. /\ control \in [Client -> Seq(Message)] /\ timer_jobs \in Seq(TimerJob)
      /\ timer_zmq_id \in [DOMAIN timer_zmq_id -> DOMAIN timer_jobs]
      /\ DOMAIN timer_zmq_id \subseteq DOMAIN owner /\ armed \subseteq DOMAIN timer_jobs
  BY <1>0 DEF TypeInv, TypeOK, TimerJob
<1>3. /\ control' \in [Client -> Seq(Message)]
      /\ 1 \in DOMAIN control[c] /\ m = control[c][1] /\ m \in Message
      /\ \A d \in Client : \A k \in DOMAIN control'[d] :
           LET j == IF d = c THEN k + 1 ELSE k IN
           j \in DOMAIN control[d] /\ control'[d][k] = control[d][j] /\ k \in Nat \ {0}
  BY <1>1, <1>2, <1>m, Taken
<1>4. /\ m.id \in DOMAIN owner /\ owner[m.id] = c
      /\ m.id \notin disowned /\ m.id \notin DOMAIN timer_zmq_id
      /\ \A j \in DOMAIN control[c] :
           control[c][j].cmd # "BATCH" /\ control[c][j].id = m.id /\ j # 1 => control[c][j].cmd = "TIMER_DEL"
  BY <1>0, <1>1, <1>3 DEF CancelInv
<1>5. t \in TimerJob
  BY <1>1, <1>3 DEF Message, TimerJob
<1>6. /\ timer_jobs' \in Seq(TimerJob) /\ DOMAIN timer_jobs' = DOMAIN timer_jobs \cup {z}
      /\ z \notin DOMAIN timer_jobs /\ timer_jobs'[z] = t
      /\ \A y \in DOMAIN timer_jobs : timer_jobs'[y] = timer_jobs[y]
  <2> HIDE DEF t
  <2>1. /\ Len(timer_jobs) \in Nat /\ DOMAIN timer_jobs = 1 .. Len(timer_jobs) /\ z = Len(timer_jobs) + 1
        /\ timer_jobs' \in Seq(TimerJob) /\ DOMAIN timer_jobs' = 1 .. Len(timer_jobs) + 1
        /\ timer_jobs'[Len(timer_jobs) + 1] = t
        /\ \A y \in 1 .. Len(timer_jobs) : timer_jobs'[y] = timer_jobs[y]
    BY <1>1, <1>2, <1>5, <1>z DEF NewTimer
  <2>2. /\ \A y : y \in 1 .. Len(timer_jobs) + 1 <=> y \in 1 .. Len(timer_jobs) \/ y = Len(timer_jobs) + 1
        /\ Len(timer_jobs) + 1 \notin 1 .. Len(timer_jobs)
    BY <2>1
  <2> QED
    BY <2>1, <2>2
<1>7. /\ DOMAIN timer_zmq_id' = DOMAIN timer_zmq_id \cup {m.id} /\ timer_zmq_id'[m.id] = z
      /\ \A x \in DOMAIN timer_zmq_id : timer_zmq_id'[x] = timer_zmq_id[x]
      /\ timer_zmq_id' \in [DOMAIN timer_zmq_id' -> DOMAIN timer_jobs']
  <2>1. DOMAIN timer_zmq_id' = DOMAIN timer_zmq_id \cup {m.id}
    BY <1>1 DEF Put
  <2>2. timer_zmq_id' = [x \in DOMAIN timer_zmq_id' |-> IF x = m.id THEN z ELSE timer_zmq_id[x]]
    BY <1>1, <2>1 DEF Put
  <2>3. /\ timer_zmq_id'[m.id] = z
        /\ \A x \in DOMAIN timer_zmq_id : timer_zmq_id'[x] = timer_zmq_id[x]
    BY <1>4, <2>1, <2>2
  <2>4. \A x \in DOMAIN timer_zmq_id' : timer_zmq_id'[x] \in DOMAIN timer_jobs'
    BY <1>2, <1>6, <2>1, <2>3
  <2> QED
    BY <2>1, <2>2, <2>3, <2>4
<1> HIDE DEF t
<1>8. TypeInv'
  <2>1. armed' \subseteq DOMAIN timer_jobs' /\ DOMAIN timer_zmq_id' \subseteq DOMAIN owner
    BY <1>1, <1>2, <1>4, <1>6, <1>7
  <2> QED
    BY <1>0, <1>1, <1>3, <1>6, <1>7, <2>1 DEF TypeInv, TypeOK, TimerJob
<1>9. PlacesInv' /\ CountInv'
  <2>1. ObjectCounted(object)'
    BY <1>0, <1>1 DEF CountInv, ObjectCounted
  <2> QED
    BY <1>0, <1>1, <2>1, PlacesSame, CountSame
<1>10. PostInv'
  BY <1>0, <1>1, <1>2, TakenPost
<1>11. TimerInv'
  <2>1. \A b \in batches : TimerBatch(heap[b], timer_jobs)
    BY <1>0 DEF TimerInv
  <2>2. \A b \in batches : TimerBatch(heap[b], timer_jobs')
    BY <1>6, <2>1 DEF TimerBatch
  <2>3. z # NoTimer
    BY <1>2, <1>z DEF NewTimer, NoTimer
  <2>4. \A b \in batches : heap[b].timer # z
    BY <1>6, <2>1, <2>3 DEF TimerBatch
  <2>5. ~timer_jobs'[z].running
    BY <1>6 DEF t
  <2>6. ASSUME NEW y \in DOMAIN timer_jobs', timer_jobs'[y].squelch
        PROVE  /\ timer_jobs'[y].running <=> \E b \in batches : heap[b].timer = y
               /\ \A a, b \in batches : heap[a].timer = y /\ heap[b].timer = y => a = b
    <3>1. CASE y = z
      BY <2>4, <2>5, <3>1
    <3>2. CASE y # z
      <4>1. y \in DOMAIN timer_jobs /\ timer_jobs'[y] = timer_jobs[y]
        BY <1>6, <3>2
      <4> QED
        BY <1>0, <2>6, <4>1 DEF TimerInv
    <3> QED
      BY <3>1, <3>2
  <2> QED
    BY <1>1, <2>2, <2>6 DEF TimerInv
<1>12. CancelInv'
  <2>1. armed' = {timer_zmq_id'[x] : x \in DOMAIN timer_zmq_id'}
    <3>1. armed = {timer_zmq_id[x] : x \in DOMAIN timer_zmq_id}
      BY <1>0 DEF CancelInv, CancelledStaysQuiet
    <3> QED
      BY <1>1, <1>7, <3>1
  <2>2. disowned' \cap DOMAIN timer_zmq_id' = {}
    BY <1>0, <1>1, <1>4, <1>7 DEF CancelInv, CancelledStaysQuiet
  <2>3. \A x, y \in DOMAIN timer_zmq_id' : timer_zmq_id'[x] = timer_zmq_id'[y] => x = y
    <3>1. \A x, y \in DOMAIN timer_zmq_id : timer_zmq_id[x] = timer_zmq_id[y] => x = y
      BY <1>0 DEF CancelInv
    <3>2. \A x \in DOMAIN timer_zmq_id : timer_zmq_id[x] # z
      BY <1>2, <1>6
    <3> QED
      BY <1>7, <3>1, <3>2
  <2>4. ASSUME NEW d \in Client, NEW k \in DOMAIN control'[d], control'[d][k].cmd = "TIMER"
        PROVE  control'[d][k].id \notin disowned' /\ control'[d][k].id \notin DOMAIN timer_zmq_id'
    <3> DEFINE j == IF d = c THEN k + 1 ELSE k
    <3>1. j \in DOMAIN control[d] /\ control'[d][k] = control[d][j] /\ k \in Nat \ {0}
      BY <1>3
    <3>2. d = c => j # 1
      BY <3>1
    <3> HIDE DEF j
    <3>3. /\ control[d][j].id \notin disowned /\ control[d][j].id \notin DOMAIN timer_zmq_id
          /\ owner[control[d][j].id] = d
      BY <1>0, <2>4, <3>1 DEF CancelInv
    <3>4. control[d][j].id # m.id
      BY <1>4, <2>4, <3>1, <3>2, <3>3
    <3> QED
      BY <1>1, <1>7, <3>1, <3>3, <3>4
  <2>5. CancelledStaysQuiet'
    BY <2>1, <2>2 DEF CancelledStaysQuiet
  <2> QED
    BY <1>0, <1>1, <1>2, <2>3, <2>4, <2>5, TakenCancel
<1> QED
  BY <1>8, <1>9, <1>10, <1>11, <1>12 DEF BatchInv

\* The proxy cancels a timer: no message that adds it can be behind.
LEMMA TimerDelStep ==
  ASSUME BatchInv, NEW c \in Client, proxy_timer_del(c)
  PROVE  BatchInv'
<1>0. TypeInv /\ PlacesInv /\ CountInv /\ PostInv /\ TimerInv /\ CancelInv
  BY DEF BatchInv
<1>m. PICK m : m = Head(control[c])
  OBVIOUS
<1>1. /\ control[c] # <<>> /\ m.cmd = "TIMER_DEL"
      /\ control' = [control EXCEPT ![c] = Tail(@)]
      /\ \/ /\ m.id \in DOMAIN timer_zmq_id
            /\ armed' = armed \ {timer_zmq_id[m.id]}
            /\ timer_zmq_id' = Restrict(timer_zmq_id, DOMAIN timer_zmq_id \ {m.id})
         \/ m.id \notin DOMAIN timer_zmq_id /\ UNCHANGED <<armed, timer_zmq_id>>
      /\ disowned' = disowned \cup ({m.id} \cap {x \in DOMAIN owner : owner[x] = c})
      /\ UNCHANGED <<at, object, workVars, idVars, quitting, sent, batchVars, timer_jobs>>
  BY <1>m DEF proxy_timer_del, Receive, Disown
<1>2. /\ control \in [Client -> Seq(Message)]
      /\ timer_zmq_id \in [DOMAIN timer_zmq_id -> DOMAIN timer_jobs]
      /\ DOMAIN timer_zmq_id \subseteq DOMAIN owner /\ armed \subseteq DOMAIN timer_jobs
      /\ disowned \subseteq DOMAIN owner
  BY <1>0 DEF TypeInv, TypeOK
<1>3. /\ control' \in [Client -> Seq(Message)]
      /\ 1 \in DOMAIN control[c] /\ m = control[c][1]
      /\ \A d \in Client : \A k \in DOMAIN control'[d] :
           LET j == IF d = c THEN k + 1 ELSE k IN
           j \in DOMAIN control[d] /\ control'[d][k] = control[d][j] /\ k \in Nat \ {0}
  BY <1>1, <1>2, <1>m, Taken
<1>4. /\ DOMAIN timer_zmq_id' = DOMAIN timer_zmq_id \ {m.id}
      /\ \A x \in DOMAIN timer_zmq_id' : timer_zmq_id'[x] = timer_zmq_id[x]
      /\ timer_zmq_id' \in [DOMAIN timer_zmq_id' -> DOMAIN timer_jobs]
  <2>1. CASE timer_zmq_id' = Restrict(timer_zmq_id, DOMAIN timer_zmq_id \ {m.id})
    <3>1. timer_zmq_id' = [x \in DOMAIN timer_zmq_id \ {m.id} |-> timer_zmq_id[x]]
      BY <2>1 DEF Restrict
    <3> QED
      BY <1>2, <3>1
  <2>2. CASE m.id \notin DOMAIN timer_zmq_id /\ timer_zmq_id' = timer_zmq_id
    BY <1>2, <2>2
  <2> QED
    BY <1>1, <2>1, <2>2
<1>5. armed' \subseteq armed /\ disowned' \subseteq DOMAIN owner
  BY <1>1, <1>2
<1>6. TypeInv'
  <2>1. armed' \subseteq DOMAIN timer_jobs /\ DOMAIN timer_zmq_id' \subseteq DOMAIN owner
    BY <1>2, <1>4, <1>5
  <2> QED
    BY <1>0, <1>1, <1>3, <1>4, <1>5, <2>1 DEF TypeInv, TypeOK
<1>7. PlacesInv' /\ CountInv'
  <2>1. ObjectCounted(object)'
    BY <1>0, <1>1 DEF CountInv, ObjectCounted
  <2> QED
    BY <1>0, <1>1, <2>1, PlacesSame, CountSame
<1>8. PostInv' /\ TimerInv'
  BY <1>0, <1>1, <1>2, TakenPost, TimerSame
<1>9. CancelInv'
  <2>1. \A x, y \in DOMAIN timer_zmq_id : timer_zmq_id[x] = timer_zmq_id[y] => x = y
    BY <1>0 DEF CancelInv
  <2>2. armed' = {timer_zmq_id'[x] : x \in DOMAIN timer_zmq_id'}
    <3>1. armed = {timer_zmq_id[x] : x \in DOMAIN timer_zmq_id}
      BY <1>0 DEF CancelInv, CancelledStaysQuiet
    <3>2. CASE m.id \in DOMAIN timer_zmq_id /\ armed' = armed \ {timer_zmq_id[m.id]}
      BY <1>4, <2>1, <3>1, <3>2
    <3>3. CASE m.id \notin DOMAIN timer_zmq_id /\ armed' = armed
      BY <1>4, <3>1, <3>3
    <3> QED
      BY <1>1, <3>2, <3>3
  <2>3. disowned' \cap DOMAIN timer_zmq_id' = {}
    BY <1>0, <1>1, <1>4 DEF CancelInv, CancelledStaysQuiet
  <2>4. ASSUME NEW d \in Client, NEW k \in DOMAIN control'[d], control'[d][k].cmd = "TIMER"
        PROVE  control'[d][k].id \notin disowned' /\ control'[d][k].id \notin DOMAIN timer_zmq_id'
    <3> DEFINE j == IF d = c THEN k + 1 ELSE k
    <3>1. j \in DOMAIN control[d] /\ control'[d][k] = control[d][j] /\ k \in Nat \ {0}
      BY <1>3
    <3>2. d = c => j > 1
      BY <3>1
    <3> HIDE DEF j
    <3>3. /\ control[d][j].id \notin disowned /\ control[d][j].id \notin DOMAIN timer_zmq_id
          /\ owner[control[d][j].id] = d
          /\ \A i \in DOMAIN control[d] :
               control[d][i].cmd # "BATCH" /\ control[d][i].id = control[d][j].id /\ i # j => i > j
      BY <1>0, <2>4, <3>1 DEF CancelInv
    <3>4. ASSUME control[d][j].id = m.id, owner[m.id] = c PROVE FALSE
      <4>1. d = c
        BY <3>3, <3>4
      <4>2. j > 1 /\ j \in Int
        BY <1>2, <3>1, <3>2, <4>1
      <4>3. 1 > j
        BY <1>1, <1>3, <3>3, <3>4, <4>1, <4>2
      <4> QED
        BY <4>2, <4>3
    <3> QED
      BY <1>1, <1>4, <3>1, <3>3, <3>4
  <2>5. CancelledStaysQuiet'
    BY <2>2, <2>3 DEF CancelledStaysQuiet
  <2>6. \A x, y \in DOMAIN timer_zmq_id' : timer_zmq_id'[x] = timer_zmq_id'[y] => x = y
    BY <1>4, <2>1
  <2> QED
    BY <1>0, <1>1, <1>2, <2>4, <2>5, <2>6, TakenCancel
<1> QED
  BY <1>6, <1>7, <1>8, <1>9 DEF BatchInv

-----------------------------------------------------------------------------
(* The workers.                                                            *)

\* A worker is given an item: it is still to be run.
LEMMA ProcessStep ==
  ASSUME BatchInv, NEW p \in Place, proxy_process_queue(p)
  PROVE  BatchInv'
<1>0. TypeInv /\ PlacesInv /\ CountInv /\ PostInv /\ TimerInv /\ CancelInv
  BY DEF BatchInv
<1>r. PICK r : r = [place |-> p, b |-> Head(queue[p]).b, job |-> Head(queue[p]).job]
  OBVIOUS
<1>1. /\ Dequeue(p) /\ running' = running \cup {r} /\ ran' = ran
      /\ UNCHANGED <<at, object, heap, batches, calls, timerVars, idVars, control, quitting, sent>>
  BY <1>r DEF proxy_process_queue, Ready, Dequeue
<1>2. QueueType
  BY <1>0 DEF TypeInv, TypeOK, QueueType
<1>3. /\ QueueType' /\ PlacesInv' /\ r \in Run
      /\ ItemOf(r) \in Waiting /\ Waiting' = Waiting \ {ItemOf(r)}
      /\ Working' = Working \cup {ItemOf(r)} /\ Done' = Done
  BY <1>0, <1>1, <1>2, <1>r, Dequeued
<1>4. Pending' = Pending /\ Done' = Done
  BY <1>3 DEF Pending
<1>5. TypeInv'
  <2>1. queue' \in [Place -> Seq(Item)]
    BY <1>3 DEF QueueType
  <2>2. running' \subseteq Run /\ ran' \subseteq Run
    BY <1>0, <1>1, <1>3 DEF TypeInv, TypeOK
  <2> QED
    BY <1>0, <1>1, <2>1, <2>2 DEF TypeInv, TypeOK
<1>6. CountInv'
  <2>1. ObjectCounted(object)'
    BY <1>0, <1>1 DEF CountInv, ObjectCounted
  <2> QED
    BY <1>0, <1>1, <1>4, <2>1, CountSame
<1>7. PostInv' /\ TimerInv' /\ CancelInv'
  BY <1>0, <1>1, PostSame, TimerSame, CancelSame
<1> QED
  BY <1>3, <1>5, <1>6, <1>7 DEF BatchInv

\* What a worker or a RAN has is an item of a batch that the proxy owns.
LEMMA InWork ==
  ASSUME TypeInv, CountInv, NEW r, r \in running \cup ran
  PROVE  /\ r \in Run /\ r.b \in batches /\ r.b \in DOMAIN heap /\ r.b \in DOMAIN plan /\ r.b \in Address
         /\ heap[r.b] \in Object /\ plan[r.b].jobs \in Nat /\ r.job \in Int
         /\ r.job \in (1 .. plan[r.b].jobs) \cup {-1} /\ ItemOf(r) = Piece(r.b, r.job)
         /\ Owned(r.b, heap[r.b], plan[r.b].jobs, calls[r.b], Pending, Done)
         /\ Planned(heap[r.b], plan[r.b]) /\ calls[r.b] \in Seq(Int)
<1>1. r \in Run /\ batches \subseteq DOMAIN heap /\ DOMAIN heap \subseteq DOMAIN plan
  BY DEF TypeInv, TypeOK
<1>2. ItemOf(r) \in Pending \cup Done /\ ItemOf(r) = Piece(r.b, r.job)
  BY DEF Pending, Working, Done, ItemOf
<1>3. r.b \in batches /\ r.job \in (1 .. plan[r.b].jobs) \cup {-1}
  BY <1>2, Pieces DEF CountInv
<1>4. r.job \in Int /\ r.b \in Address
  BY <1>1, BatchesAssumption DEF Run
<1>5. heap[r.b] \in Object /\ calls[r.b] \in Seq(Int)
  BY <1>1, <1>3, <1>4 DEF TypeInv
<1>6. plan[r.b].jobs \in Nat
  <2>1. plan \in Seq(Plan)
    BY DEF TypeInv, TypeOK, Plan
  <2>2. plan[r.b] \in Plan
    BY <1>1, <1>3, <2>1
  <2> QED
    BY <2>2 DEF Plan
<1>7. /\ Owned(r.b, heap[r.b], plan[r.b].jobs, calls[r.b], Pending, Done)
      /\ Planned(heap[r.b], plan[r.b])
  BY <1>1, <1>3 DEF CountInv
<1> QED
  BY <1>1, <1>2, <1>3, <1>4, <1>5, <1>6, <1>7

\* A worker has run an item: it is among the calls, and on its way back.
LEMMA WorkerStep ==
  ASSUME BatchInv, NEW r \in running, worker_thread(r)
  PROVE  BatchInv'
<1>0. TypeInv /\ PlacesInv /\ CountInv /\ PostInv /\ TimerInv /\ CancelInv
  BY DEF BatchInv
<1> DEFINE b == r.b
           res == IF r.job = -1 THEN {} ELSE heap[b].results \cup {r.job}
<1>1. /\ running' = running \ {r} /\ ran' = ran \cup {r}
      /\ calls' = [calls EXCEPT ![b] = Append(calls[b], r.job)]
      /\ heap' = [heap EXCEPT ![b] = [heap[b] EXCEPT !.results = res]]
      /\ UNCHANGED <<at, object, batches, queue, timerVars, idVars, control, quitting, sent>>
  BY DEF worker_thread
<1>2. /\ r \in Run /\ b \in batches /\ b \in DOMAIN heap /\ b \in DOMAIN plan /\ b \in Address
      /\ heap[b] \in Object /\ plan[b].jobs \in Nat /\ r.job \in Int
      /\ r.job \in (1 .. plan[b].jobs) \cup {-1} /\ ItemOf(r) = Piece(b, r.job)
      /\ Owned(b, heap[b], plan[b].jobs, calls[b], Pending, Done)
      /\ Planned(heap[b], plan[b]) /\ calls[b] \in Seq(Int)
  BY <1>0, InWork
<1>3. res \in SUBSET Nat
  <2>1. heap[b].results \in SUBSET Nat /\ (r.job # -1 => r.job \in Nat)
    BY <1>2 DEF Object
  <2> QED
    BY <2>1
<1> HIDE DEF b, res
<1>4. /\ DOMAIN heap' = DOMAIN heap /\ heap' \in [DOMAIN heap -> Object]
      /\ heap'[b] = [heap[b] EXCEPT !.results = res]
      /\ \A a \in DOMAIN heap : a # b => heap'[a] = heap[a]
  <2>1. [heap[b] EXCEPT !.results = res] \in Object
    BY <1>2, <1>3 DEF Object
  <2>2. heap \in [DOMAIN heap -> Object]
    BY <1>0 DEF TypeInv
  <2> QED
    BY <1>1, <1>2, <2>1, <2>2
<1>5. /\ heap'[b].outstanding = heap[b].outstanding /\ heap'[b].complete = heap[b].complete
      /\ heap'[b].timer = heap[b].timer /\ heap'[b].threads = heap[b].threads
  BY <1>2, <1>4 DEF Object
<1>6. /\ calls' \in [Address -> Seq(Int)] /\ calls'[b] = Append(calls[b], r.job)
      /\ \A a \in Address : a # b => calls'[a] = calls[a]
  <2>1. calls \in [Address -> Seq(Int)] /\ Append(calls[b], r.job) \in Seq(Int)
    BY <1>0, <1>2 DEF TypeInv
  <2> QED
    BY <1>1, <1>2, <2>1
<1>7. /\ PlacesInv' /\ Waiting' = Waiting
      /\ ItemOf(r) \in Working /\ ItemOf(r) \notin Waiting
      /\ Working' = Working \ {ItemOf(r)} /\ Done' = Done \cup {ItemOf(r)}
  BY <1>0, <1>1, Moved
<1>8. /\ Piece(b, r.job) \in Pending
      /\ Pending' = Pending \ {Piece(b, r.job)} /\ Done' = Done \cup {Piece(b, r.job)}
  BY <1>2, <1>7 DEF Pending
<1>9. TypeInv'
  <2>1. running' \subseteq Run /\ ran' \subseteq Run
    BY <1>0, <1>1, <1>2 DEF TypeInv, TypeOK
  <2>2. \A a \in DOMAIN heap' : heap'[a] \in Object
    BY <1>4
  <2> QED
    BY <1>0, <1>1, <1>4, <1>6, <2>1, <2>2 DEF TypeInv, TypeOK
<1>10. CountInv'
  <2>1. \A a, i : a # b => /\ Piece(a, i) \in Pending' <=> Piece(a, i) \in Pending
                           /\ Piece(a, i) \in Done' <=> Piece(a, i) \in Done
    BY <1>8, Pieces
  <2>2. \A a \in DOMAIN heap \ {b} : calls'[a] = calls[a]
    BY <1>0, <1>6 DEF TypeInv, TypeOK
  <2>3. OnlyBatch(b)
    BY <1>1, <1>4, <2>1, <2>2 DEF OnlyBatch
  <2>4. Owned(b, heap'[b], plan[b].jobs, Append(calls[b], r.job), Pending', Done')
    BY <1>2, <1>5, <1>8, OwnedRun
  <2>5. \A i : Piece(b, i) \in Pending' \cup Done' => i \in (1 .. plan[b].jobs) \cup {-1}
    BY <1>0, <1>2, <1>8, Pieces DEF CountInv
  <2>6. BatchCounted(b)'
    BY <1>1, <1>2, <1>5, <1>6, <2>4, <2>5 DEF BatchCounted, Planned
  <2>7. ObjectCounted(object)' /\ \A a \in Address \ DOMAIN plan' : calls'[a] = <<>>
    BY <1>0, <1>1, <1>2, <1>6 DEF CountInv, ObjectCounted
  <2> QED
    BY <1>0, <1>9, <2>3, <2>6, <2>7, CountStep
<1>11. PostInv'
  BY <1>0, <1>1, <1>4, PostSame
<1>12. TimerInv'
  <2>1. \A a \in batches : heap'[a].timer = heap[a].timer /\ heap'[a].complete = heap[a].complete
    BY <1>0, <1>4, <1>5 DEF TypeInv
  <2> QED
    BY <1>0, <1>1, <2>1, TimerSame
<1>13. CancelInv'
  BY <1>0, <1>1, CancelSame
<1> QED
  BY <1>7, <1>9, <1>10, <1>11, <1>12, <1>13 DEF BatchInv

-----------------------------------------------------------------------------
(* The proxy counts.                                                       *)

\* With its last item a batch goes, and nothing of it is left.
LEMMA DeleteStep ==
  ASSUME BatchInv, NEW r \in ran, ran' = ran \ {r}, r.job = -1 \/ ~StillRunning(r.b),
         Delete(r.b), TimerInv', timer_jobs' \in Seq(TimerJob), DOMAIN timer_jobs' = DOMAIN timer_jobs,
         calls' \in [Address -> Seq(Int)], \A a \in Address : a # r.b => calls'[a] = calls[a],
         UNCHANGED <<queue, at, object, running, timer_zmq_id, armed, disowned, idVars, control,
                     quitting, sent>>
  PROVE  BatchInv'
<1>0. TypeInv /\ PlacesInv /\ CountInv /\ PostInv /\ TimerInv /\ CancelInv
  BY DEF BatchInv
<1> DEFINE b == r.b
<1>1. /\ r \in Run /\ b \in batches /\ b \in DOMAIN heap /\ b \in DOMAIN plan /\ b \in Address
      /\ heap[b] \in Object /\ plan[b].jobs \in Nat /\ r.job \in Int
      /\ r.job \in (1 .. plan[b].jobs) \cup {-1} /\ ItemOf(r) = Piece(b, r.job)
      /\ Owned(b, heap[b], plan[b].jobs, calls[b], Pending, Done)
  BY <1>0, InWork
<1>2. batches' = batches \ {b} /\ heap' = Restrict(heap, DOMAIN heap \ {b})
  BY DEF Delete
<1>3. r.job = -1 \/ ~(heap[b].outstanding > 1)
  BY DEF StillRunning
<1> HIDE DEF b
<1>4. /\ DOMAIN heap' = DOMAIN heap \ {b} /\ \A a \in DOMAIN heap' : heap'[a] = heap[a]
      /\ heap' \in [DOMAIN heap' -> Object]
  <2>1. heap' = [a \in DOMAIN heap \ {b} |-> heap[a]]
    BY <1>2 DEF Restrict
  <2>2. heap \in [DOMAIN heap -> Object]
    BY <1>0 DEF TypeInv
  <2> QED
    BY <2>1, <2>2
<1>5. /\ PlacesInv' /\ Waiting' = Waiting /\ Working' = Working /\ Done' = Done \ {Piece(b, r.job)}
      /\ Piece(b, r.job) \in Done /\ Piece(b, r.job) \notin Pending
  BY <1>0, <1>1, Counted, CountedOnly DEF Pending
<1>6. Pending' = Pending
  BY <1>5 DEF Pending
<1>7. \A i : Piece(b, i) \notin Pending' \cup Done'
  <2>1. \A i : Piece(b, i) \in Pending \cup Done => i \in (1 .. plan[b].jobs) \cup {-1}
    BY <1>0, Pieces DEF CountInv
  <2>2. \A i \in (1 .. plan[b].jobs) \cup {-1} : Piece(b, i) \in Pending \cup Done => i = r.job
    <3>0. plan[b].jobs \in Nat /\ Owned(b, heap[b], plan[b].jobs, calls[b], Pending, Done)
      BY <1>1
    <3>1. CASE r.job = -1
      <4>1. Piece(b, -1) \in Done
        BY <1>5, <3>1
      <4>2. \A i \in 1 .. plan[b].jobs : Piece(b, i) \notin Pending \cup Done
        BY ONLY <3>0, <4>1, OwnedClosed
      <4> QED
        BY <3>1, <4>2
    <3>2. CASE r.job # -1
      <4>1. r.job \in 1 .. plan[b].jobs /\ ~(heap[b].outstanding > 1)
        BY <1>1, <1>3, <3>2
      <4>2. Piece(b, r.job) \in Done /\ Piece(b, r.job) \notin Pending
        BY <1>5
      <4>3. OnlyLeft(b, plan[b].jobs, calls[b], r.job, Pending \cup Done)
        BY ONLY <3>0, <4>1, <4>2, OwnedLast
      <4> QED
        BY <4>3 DEF OnlyLeft
    <3> QED
      BY <3>1, <3>2
  <2> QED
    BY <1>5, <1>6, <2>1, <2>2
<1>8. TypeInv'
  <2>1. batches' \subseteq DOMAIN heap' /\ batches' \subseteq Address /\ DOMAIN heap' \subseteq DOMAIN plan
        /\ DOMAIN heap' \subseteq Address /\ ran' \subseteq Run
    BY <1>0, <1>2, <1>4 DEF TypeInv, TypeOK
  <2>2. \A a \in DOMAIN heap' : heap'[a] \in Object
    BY <1>4
  <2> QED
    BY <1>0, <1>4, <2>1, <2>2 DEF TypeInv, TypeOK, TimerJob
<1>9. CountInv'
  <2>1. \A a, i : a # b => (Piece(a, i) \in Done' <=> Piece(a, i) \in Done)
    BY <1>5, Pieces
  <2>2. \A a \in DOMAIN heap \ {b} : heap'[a] = heap[a] /\ calls'[a] = calls[a]
    BY <1>0, <1>4 DEF TypeInv, TypeOK, b
  <2>3. OnlyBatch(b)
    BY <1>2, <1>4, <1>6, <2>1, <2>2 DEF OnlyBatch
  <2>4. BatchCounted(b)'
    BY <1>2, <1>4, <1>7 DEF BatchCounted
  <2>5. ObjectCounted(object)' /\ \A a \in Address \ DOMAIN plan' : calls'[a] = <<>>
    BY <1>0, <1>1 DEF CountInv, ObjectCounted, b
  <2> QED
    BY <1>0, <1>8, <2>3, <2>4, <2>5, CountStep
<1>10. PostInv'
  <2>1. DOMAIN heap \ batches \subseteq DOMAIN heap' \ batches'
    BY <1>1, <1>2, <1>4
  <2> QED
    BY <1>0, <2>1, PostSame
<1>11. CancelInv'
  BY <1>0, CancelSame
<1> QED
  BY <1>5, <1>8, <1>9, <1>10, <1>11 DEF BatchInv

\* The batch of a timer that goes: only one with `squelch` marks the timer.
LEMMA TimerGone ==
  ASSUME TimerInv, NEW b \in batches, batches' = batches \ {b},
         \A a \in batches' : heap'[a] = heap[a],
         DOMAIN timer_jobs' = DOMAIN timer_jobs,
         \A z \in DOMAIN timer_jobs : timer_jobs'[z].squelch = timer_jobs[z].squelch,
         \A z \in DOMAIN timer_jobs : z # heap[b].timer => timer_jobs'[z] = timer_jobs[z],
         heap[b].timer \in DOMAIN timer_jobs /\ timer_jobs[heap[b].timer].squelch =>
           ~timer_jobs'[heap[b].timer].running
  PROVE  TimerInv'
<1>1. \A a \in batches' : a \in batches /\ a # b /\ heap'[a] = heap[a]
  OBVIOUS
<1>2. \A a \in batches' : TimerBatch(heap'[a], timer_jobs')
  BY <1>1 DEF TimerInv, TimerBatch
<1>3. ASSUME NEW z \in DOMAIN timer_jobs', timer_jobs'[z].squelch
      PROVE  /\ timer_jobs'[z].running <=> \E a \in batches' : heap'[a].timer = z
             /\ \A a, c \in batches' : heap'[a].timer = z /\ heap'[c].timer = z => a = c
  <2>1. /\ timer_jobs[z].running <=> \E a \in batches : heap[a].timer = z
        /\ \A a, c \in batches : heap[a].timer = z /\ heap[c].timer = z => a = c
    BY <1>3 DEF TimerInv
  <2>2. CASE z = heap[b].timer
    <3>1. ~timer_jobs'[z].running
      BY <1>3, <2>2
    <3>2. \A a \in batches' : heap'[a].timer # z
      BY <1>1, <2>1, <2>2
    <3> QED
      BY <3>1, <3>2
  <2>3. CASE z # heap[b].timer
    <3>1. timer_jobs'[z] = timer_jobs[z]
      BY <1>3, <2>3
    <3>2. \A a \in batches : heap[a].timer = z => a \in batches' /\ heap'[a] = heap[a]
      BY <2>3
    <3> QED
      BY <1>1, <2>1, <3>1, <3>2
  <2> QED
    BY <2>2, <2>3
<1> QED
  BY <1>2, <1>3 DEF TimerInv

\* The batch stays, with a new count; the completion function may have been queued.
LEMMA CountedStep ==
  ASSUME BatchInv, NEW r \in ran, ran' = ran \ {r}, NEW n \in Nat, Finished(r.b, n),
         QueueType', PlacesInv', Done' = Done \ {ItemOf(r)},
         \A a, i : a # r.b => (Piece(a, i) \in Pending' <=> Piece(a, i) \in Pending),
         \A i : Piece(r.b, i) \in Pending' => Piece(r.b, i) \in Pending \/ i = -1,
         \A o : o.outstanding = n /\ o.complete = heap[r.b].complete =>
           Owned(r.b, o, plan[r.b].jobs, calls[r.b], Pending', Done'),
         UNCHANGED <<batches, calls, timer_jobs, at, object, running, timer_zmq_id, armed, disowned,
                     idVars, control, quitting, sent>>
  PROVE  BatchInv'
<1>0. TypeInv /\ PlacesInv /\ CountInv /\ PostInv /\ TimerInv /\ CancelInv
  BY DEF BatchInv
<1> DEFINE b == r.b
<1>1. /\ r \in Run /\ b \in batches /\ b \in DOMAIN heap /\ b \in DOMAIN plan /\ b \in Address
      /\ heap[b] \in Object /\ ItemOf(r) = Piece(b, r.job)
      /\ Planned(heap[b], plan[b]) /\ calls[b] \in Seq(Int)
  BY <1>0, InWork
<1>2. heap' = [heap EXCEPT ![b] = [heap[b] EXCEPT !.outstanding = n]]
  BY DEF Finished
<1>3. /\ Owned(b, heap'[b], plan[b].jobs, calls[b], Pending', Done') \/ heap'[b].outstanding # n
         \/ heap'[b].complete # heap[b].complete
      /\ \A a, i : a # b => (Piece(a, i) \in Pending' <=> Piece(a, i) \in Pending)
      /\ \A i : Piece(b, i) \in Pending' => Piece(b, i) \in Pending \/ i = -1
      /\ Done' = Done \ {Piece(b, r.job)}
  BY <1>1
<1> HIDE DEF b
<1>4. /\ DOMAIN heap' = DOMAIN heap /\ heap' \in [DOMAIN heap -> Object]
      /\ heap'[b] = [heap[b] EXCEPT !.outstanding = n]
      /\ \A a \in DOMAIN heap : a # b => heap'[a] = heap[a]
  <2>1. [heap[b] EXCEPT !.outstanding = n] \in Object
    BY <1>1 DEF Object
  <2>2. heap \in [DOMAIN heap -> Object]
    BY <1>0 DEF TypeInv
  <2> QED
    BY <1>1, <1>2, <2>1, <2>2
<1>5. /\ heap'[b].outstanding = n /\ heap'[b].complete = heap[b].complete
      /\ heap'[b].timer = heap[b].timer /\ heap'[b].threads = heap[b].threads
  BY <1>1, <1>4 DEF Object
<1>6. TypeInv'
  <2>1. queue' \in [Place -> Seq(Item)] /\ ran' \subseteq Run
    BY <1>0 DEF QueueType, TypeInv, TypeOK
  <2>2. \A a \in DOMAIN heap' : heap'[a] \in Object
    BY <1>4
  <2> QED
    BY <1>0, <1>4, <2>1, <2>2 DEF TypeInv, TypeOK
<1>7. CountInv'
  <2>1. \A a, i : a # b => (Piece(a, i) \in Done' <=> Piece(a, i) \in Done)
    BY <1>3, Pieces
  <2>2. OnlyBatch(b)
    BY <1>3, <1>4, <2>1 DEF OnlyBatch
  <2>3. \A i : Piece(b, i) \in Pending' \cup Done' => i \in (1 .. plan[b].jobs) \cup {-1}
    <3>1. \A i : Piece(b, i) \in Pending \cup Done => i \in (1 .. plan[b].jobs) \cup {-1}
      BY <1>0, Pieces DEF CountInv
    <3> QED
      BY <1>3, <3>1
  <2>4. BatchCounted(b)'
    BY <1>1, <1>3, <1>5, <2>3 DEF BatchCounted, Planned
  <2>5. ObjectCounted(object)' /\ \A a \in Address \ DOMAIN plan' : calls'[a] = <<>>
    BY <1>0 DEF CountInv, ObjectCounted
  <2> QED
    BY <1>0, <1>6, <2>2, <2>4, <2>5, CountStep
<1>8. PostInv' /\ CancelInv'
  BY <1>0, <1>4, PostSame, CancelSame
<1>9. TimerInv'
  <2>1. \A a \in batches : heap'[a].timer = heap[a].timer /\ heap'[a].complete = heap[a].complete
    BY <1>0, <1>4, <1>5 DEF TypeInv
  <2> QED
    BY <1>0, <2>1, TimerSame
<1> QED
  BY <1>6, <1>7, <1>8, <1>9 DEF BatchInv

\* RAN: the proxy counts the job, and runs, queues or forgoes the completion function
\* after the last one.
LEMMA MessageStep ==
  ASSUME BatchInv, NEW r \in ran, proxy_worker_message(r)
  PROVE  BatchInv'
<1>0. TypeInv /\ PlacesInv /\ CountInv /\ PostInv /\ TimerInv /\ CancelInv
  BY DEF BatchInv
<1> DEFINE b == r.b
<1>1. /\ b \in batches /\ b \in DOMAIN heap /\ b \in Address
      /\ heap[b] \in Object /\ plan[b].jobs \in Nat
      /\ r.job \in (1 .. plan[b].jobs) \cup {-1} /\ ItemOf(r) = Piece(b, r.job)
      /\ Owned(b, heap[b], plan[b].jobs, calls[b], Pending, Done)
  BY <1>0, InWork
<1>2. /\ ran' = ran \ {r}
      /\ UNCHANGED <<at, object, running, timer_zmq_id, armed, disowned, idVars, control, quitting, sent>>
  BY DEF proxy_worker_message
<1>3. /\ Working' = Working /\ Done' = Done \ {ItemOf(r)}
      /\ ItemOf(r) \in Done /\ ItemOf(r) \notin Pending
  BY <1>0, <1>2, Counted DEF Pending
<1>4. /\ timer_jobs \in Seq(TimerJob) /\ calls \in [Address -> Seq(Int)]
      /\ TimerBatch(heap[b], timer_jobs)
  BY <1>0, <1>1 DEF TypeInv, TypeOK, TimerJob, TimerInv
<1>5. Delete(b) => batches' = batches \ {b} /\ \A a \in batches' : heap'[a] = heap[a]
  BY <1>0 DEF Delete, Restrict, TypeInv
<1>6. \A z \in DOMAIN timer_jobs : z # NoTimer
  BY <1>4 DEF NoTimer
<1>7. CASE r.job = -1 /\ Delete(b) /\ UNCHANGED <<queue, calls, timer_jobs>>
  <2>1. heap[b].complete \in Place
    <3>1. Piece(b, -1) \in Done
      BY <1>1, <1>3, <1>7
    <3> QED
      BY ONLY <1>1, <3>1, OwnedClosed
  <2>2. heap[b].timer = NoTimer
    BY <1>4, <2>1 DEF TimerBatch, Place, InProxy, NoFunction
  <2>3. TimerInv'
    BY <1>0, <1>1, <1>5, <1>6, <1>7, <2>2, TimerGone
  <2> QED
    BY <1>2, <1>4, <1>7, <2>3, DeleteStep
<1>8. CASE /\ r.job # -1 /\ StillRunning(b)
           /\ Finished(b, heap[b].outstanding - 1)
           /\ UNCHANGED <<batches, queue, calls, timer_jobs>>
  <2> DEFINE n == heap[b].outstanding - 1
  <2>1. n \in Nat /\ heap[b].outstanding > 1 /\ r.job \in 1 .. plan[b].jobs
    BY <1>1, <1>8 DEF StillRunning, Object
  <2>2. PlacesInv' /\ Pending' = Pending
    BY <1>0, <1>2, <1>3, <1>8, CountedOnly DEF Pending
  <2>3. QueueType'
    BY <1>0, <1>8 DEF QueueType, TypeInv, TypeOK
  <2>4. ASSUME NEW o, o.outstanding = n, o.complete = heap[b].complete
        PROVE  Owned(b, o, plan[b].jobs, calls[b], Pending', Done')
    <3>1. Owned(b, o, plan[b].jobs, calls[b], Pending, Done \ {Piece(b, r.job)})
      BY <1>1, <1>3, <2>1, <2>4, OwnedCount
    <3> QED
      BY <1>1, <1>3, <2>2, <3>1
  <2> HIDE DEF n
  <2>5. Finished(b, n)
    BY <1>8 DEF n
  <2> QED
    BY <1>2, <1>3, <1>8, <2>1, <2>2, <2>3, <2>4, <2>5, CountedStep
<1>9. CASE /\ r.job # -1 /\ ~StillRunning(b) /\ heap[b].complete = NoFunction
           /\ Delete(b) /\ UNCHANGED <<queue, calls, timer_jobs>>
  <2>1. heap[b].timer \in DOMAIN timer_jobs => ~timer_jobs[heap[b].timer].squelch
    BY <1>4, <1>6, <1>9 DEF TimerBatch, InProxy, NoFunction
  <2>2. TimerInv'
    BY <1>0, <1>1, <1>5, <1>9, <2>1, TimerGone
  <2> QED
    BY <1>2, <1>4, <1>9, <2>2, DeleteStep
<1>10. CASE /\ r.job # -1 /\ ~StillRunning(b) /\ heap[b].complete = InProxy
            /\ job_completion_in_proxy(b) /\ Delete(b) /\ UNCHANGED queue
  <2> DEFINE z == heap[b].timer
  <2>1. /\ timer_jobs' \in Seq(TimerJob) /\ DOMAIN timer_jobs' = DOMAIN timer_jobs
        /\ \A y \in DOMAIN timer_jobs : timer_jobs'[y].squelch = timer_jobs[y].squelch
        /\ \A y \in DOMAIN timer_jobs : y # z => timer_jobs'[y] = timer_jobs[y]
        /\ z \in DOMAIN timer_jobs => ~timer_jobs'[z].running
    <3>1. CASE z = NoTimer
      BY <1>4, <1>6, <1>10, <3>1 DEF job_completion_in_proxy
    <3>2. CASE z # NoTimer
      <4>1. /\ z \in DOMAIN timer_jobs
            /\ timer_jobs' = [timer_jobs EXCEPT ![z] = [timer_jobs[z] EXCEPT !.running = FALSE]]
        BY <1>4, <1>10, <3>2 DEF job_completion_in_proxy, TimerBatch
      <4> HIDE DEF z
      <4>2. timer_jobs[z] \in TimerJob
        BY <1>4, <4>1
      <4> DEFINE t == [timer_jobs[z] EXCEPT !.running = FALSE]
      <4>3. t \in TimerJob /\ t.squelch = timer_jobs[z].squelch /\ ~t.running
        BY <4>2 DEF TimerJob
      <4>4. timer_jobs' = [timer_jobs EXCEPT ![z] = t]
        BY <4>1
      <4> HIDE DEF t
      <4>5. /\ timer_jobs' \in Seq(TimerJob) /\ DOMAIN timer_jobs' = DOMAIN timer_jobs
            /\ timer_jobs'[z] = t /\ \A y \in DOMAIN timer_jobs : y # z => timer_jobs'[y] = timer_jobs[y]
        <5>1. timer_jobs \in Seq(TimerJob) /\ z \in DOMAIN timer_jobs /\ t \in TimerJob
          BY <1>4, <4>1, <4>3
        <5> QED
          BY ONLY <4>4, <5>1
      <4> QED
        BY <4>3, <4>5
    <3> QED
      BY <3>1, <3>2
  <2>2. TimerInv'
    BY <1>0, <1>1, <1>5, <1>10, <2>1, TimerGone
  <2>3. calls' \in [Address -> Seq(Int)] /\ \A a \in Address : a # b => calls'[a] = calls[a]
    <3>1. calls' = [calls EXCEPT ![b] = Append(calls[b], -1)]
      BY <1>10 DEF job_completion_in_proxy
    <3>2. Append(calls[b], -1) \in Seq(Int)
      BY <1>1, <1>4
    <3> QED
      BY <1>1, <1>4, <3>1, <3>2
  <2> QED
    BY <1>2, <1>10, <2>1, <2>2, <2>3, DeleteStep
<1>11. CASE /\ r.job # -1 /\ ~StillRunning(b) /\ heap[b].complete \in Place
            /\ Finished(b, 0)
            /\ queue' = [queue EXCEPT ![heap[b].complete] = Append(@, [b |-> b, job |-> -1])]
            /\ UNCHANGED <<batches, calls, timer_jobs>>
  <2> DEFINE x == Piece(b, -1)
  <2>1. r.job \in 1 .. plan[b].jobs /\ ~(heap[b].outstanding > 1)
    BY <1>1, <1>11 DEF StillRunning
  <2>2. Piece(b, r.job) \in Done /\ Piece(b, r.job) \notin Pending
    BY <1>1, <1>3
  <2>3. x \notin Pending \cup Done
    <3>1. OnlyLeft(b, plan[b].jobs, calls[b], r.job, Pending \cup Done)
      BY ONLY <1>1, <2>1, <2>2, OwnedLast
    <3>2. r.job # -1
      BY <1>11
    <3> QED
      BY ONLY <3>1, <3>2 DEF OnlyLeft
  <2>4. x \in Item /\ QueueType /\ queue' = [queue EXCEPT ![heap[b].complete] = Append(@, x)]
    BY <1>0, <1>1, <1>11 DEF Piece, Item, QueueType, TypeInv, TypeOK
  <2> HIDE DEF x
  <2>5. QueueType' /\ PlacesInv' /\ Waiting' = Waiting \cup {x}
    <3>1. running' = running /\ ran' \subseteq ran /\ x \notin Waiting \cup Working \cup Done
      BY <1>2, <2>3 DEF Pending
    <3> QED
      BY <1>0, <1>11, <2>4, <3>1, OneEnqueued
  <2>6. Pending' = Pending \cup {Piece(b, -1)}
    BY <1>3, <2>5 DEF Pending, x
  <2>7. /\ \A a, i : a # b => (Piece(a, i) \in Pending' <=> Piece(a, i) \in Pending)
        /\ \A i : Piece(b, i) \in Pending' => Piece(b, i) \in Pending \/ i = -1
    BY <2>6, Pieces
  <2>8. ASSUME NEW o, o.outstanding = 0, o.complete = heap[b].complete
        PROVE  Owned(b, o, plan[b].jobs, calls[b], Pending', Done')
    <3>1. o.complete \in Place
      BY <1>11, <2>8
    <3>2. Owned(b, o, plan[b].jobs, calls[b], Pending \cup {Piece(b, -1)}, Done \ {Piece(b, r.job)})
      BY ONLY <1>1, <2>1, <2>2, <2>8, <3>1, OwnedClosing
    <3> QED
      BY <1>1, <1>3, <2>6, <3>2
  <2>9. 0 \in Nat /\ Finished(b, 0)
    BY <1>11
  <2> QED
    BY <1>2, <1>3, <1>11, <2>5, <2>7, <2>8, <2>9, CountedStep
<1> QED
  BY <1>7, <1>8, <1>9, <1>10, <1>11 DEF proxy_worker_message

-----------------------------------------------------------------------------
(* The theorems.                                                           *)

\* Every step of a client, the proxy or a worker keeps the invariant.
LEMMA BatchNext == BatchInv /\ [Next]_vars => BatchInv'
<1> SUFFICES ASSUME BatchInv, [Next]_vars PROVE BatchInv'
  OBVIOUS
<1>1. CASE Clients
  BY <1>1, FillStep, PostStep, SendTimerStep DEF Clients
<1>2. CASE Proxy
  BY <1>2, TakeStep, TimerStep, TimerDelStep, MessageStep, QueueTimerStep, ProcessStep, LoopStep
     DEF Proxy
<1>3. CASE Worker
  BY <1>3, WorkerStep DEF Worker
<1>4. CASE QUIT
  BY <1>4, LoopStep
<1>5. CASE UNCHANGED vars
  <2>1. UNCHANGED <<at, object, heap, batches, queue, running, ran, calls, timer_jobs, timer_zmq_id,
                    armed, disowned, next_timer_id, owner, plan, control, quitting, sent>>
    BY <1>5 DEF vars
  <2>2. TypeInv'
    BY <2>1 DEF BatchInv, TypeInv, TypeOK
  <2>3. PlacesInv' /\ CountInv'
    BY <2>1, PlacesSame, CountSame DEF BatchInv, ObjectCounted, CountInv
  <2>4. PostInv' /\ TimerInv' /\ CancelInv'
    BY <2>1, PostSame, TimerSame, CancelSame DEF BatchInv
  <2> QED
    BY <2>2, <2>3, <2>4 DEF BatchInv
<1> QED
  BY <1>1, <1>2, <1>3, <1>4, <1>5 DEF Next

\* The items, the counts, the messages and the timers hold together in every state.
THEOREM BatchInvariant == Spec => []BatchInv
BY InitBatch, BatchNext, PTL DEF Spec

\* Every variable of Batches has its type.
THEOREM BatchTypes == Spec => []TypeOK
<1>1. BatchInv => TypeOK
  BY DEF BatchInv, TypeInv
<1> QED
  BY <1>1, BatchInvariant, PTL

\* No queue, worker or message to the proxy refers to a batch that proxy_worker_message
\* deleted.
THEOREM NothingUsedAfterFree == Spec => []NoUseAfterFree
<1>1. BatchInv => NoUseAfterFree
  <2> SUFFICES ASSUME BatchInv PROVE NoUseAfterFree
    OBVIOUS
  <2>1. TypeInv /\ CountInv /\ PostInv /\ queue \in [Place -> Seq(Item)]
    BY DEF BatchInv, TypeInv, TypeOK
  <2>2. ASSUME NEW b \in Address, Queued(b) PROVE b \in batches
    <3>1. PICK p \in Place : \E k \in DOMAIN queue[p] : queue[p][k].b = b
      BY <2>2 DEF Queued
    <3>2. PICK k \in DOMAIN queue[p] : queue[p][k].b = b
      BY <3>1
    <3>3. queue[p][k] \in Item
      BY <2>1, <3>2
    <3>4. queue[p][k] \in Pending
      BY <3>2, <3>3 DEF Pending, Waiting
    <3> QED
      BY <2>1, <3>2, <3>4 DEF CountInv
  <2>3. ASSUME NEW b \in Address, InHand(b) PROVE b \in batches
    BY <2>1, <2>3, InWork DEF InHand
  <2> QED
    BY <2>1, <2>2, <2>3 DEF NoUseAfterFree, TypeInv, PostInv
<1> QED
  BY <1>1, BatchInvariant, PTL

\* A timer with squelch has a batch just while _queue_timer_job leaves it alone, and
\* never two.
THEOREM TimerJobsSquelched == Spec => []OneJobPerTimer
<1>1. BatchInv => OneJobPerTimer
  <2> SUFFICES ASSUME BatchInv, NEW z \in DOMAIN timer_jobs, timer_jobs[z].squelch
               PROVE  Cardinality({b \in batches : heap[b].timer = z})
                      = IF timer_jobs[z].running THEN 1 ELSE 0
    BY DEF OneJobPerTimer
  <2> DEFINE B == {b \in batches : heap[b].timer = z}
  <2>1. /\ timer_jobs[z].running <=> \E b \in batches : heap[b].timer = z
        /\ \A a, b \in batches : heap[a].timer = z /\ heap[b].timer = z => a = b
    BY DEF BatchInv, TimerInv
  <2>2. CASE timer_jobs[z].running
    <3>1. PICK b \in batches : heap[b].timer = z
      BY <2>1, <2>2
    <3>2. B = {b}
      BY <2>1, <3>1
    <3>3. Cardinality(B) = 1
      BY ONLY <3>2, FS_Singleton
    <3> QED
      BY <2>2, <3>3
  <2>3. CASE ~timer_jobs[z].running
    <3>1. B = {}
      BY <2>1, <2>3
    <3>2. Cardinality(B) = 0
      BY ONLY <3>1, FS_EmptySet
    <3> QED
      BY <2>3, <3>2
  <2> QED
    BY <2>2, <2>3
<1> QED
  BY <1>1, BatchInvariant, PTL

\* proxy_timer never arms again a timer that proxy_timer_del has taken away for its
\* owner.
THEOREM CancelledTimersQuiet == Spec => []CancelledStaysQuiet
<1>1. BatchInv => CancelledStaysQuiet
  BY DEF BatchInv, CancelInv
<1> QED
  BY <1>1, BatchInvariant, PTL

-----------------------------------------------------------------------------
(* Batches implements BatchPromise.                                        *)

\* What Batches stands for.
Promised == [b \in DOMAIN plan |-> [jobs |-> plan[b].jobs, completes |-> plan[b].complete # NoFunction]]
Ended == DOMAIN plan \ DOMAIN heap

\* The plan of a batch, in the terms of the promise.
LEMMA PromisedPlan ==
  ASSUME TypeInv, NEW b \in DOMAIN plan
  PROVE  /\ Promise!Jobs(b) = 1 .. plan[b].jobs
         /\ Promise!JobsRun(b) <=> 1 .. plan[b].jobs \subseteq Range(calls[b])
         /\ Promise!Range(calls[b]) = Range(calls[b])
         /\ Promised[b].completes <=> plan[b].complete # NoFunction
<1>1. Promise!Range(calls[b]) = Range(calls[b])
  BY DEF Range, Promise!Range
<1>2. Promise!Jobs(b) = 1 .. plan[b].jobs
  BY DEF Promise!Jobs
<1>3. Promised[b].completes <=> plan[b].complete # NoFunction
  BY DEF Promised
<1> QED
  BY <1>1, <1>2, <1>3 DEF Promise!JobsRun

\* Nothing that the promise is about changes.
LEMMA PromiseStutter ==
  ASSUME UNCHANGED <<plan, calls>>, DOMAIN heap' = DOMAIN heap
  PROVE  UNCHANGED <<Promised, calls, Ended>>
BY DEF Promised, Ended

\* A batch is handed over, by a client or by a timer.
LEMMA PromiseNew ==
  ASSUME TypeInv, NEW o \in Object, New(o), Len(o.threads) # 0, UNCHANGED calls
  PROVE  Promise!HandOver
<1>n. PICK n : n = Len(plan)
  OBVIOUS
<1>1. /\ Next_b = n + 1 /\ n \in Nat /\ plan \in Seq(Plan) /\ plan' \in Seq(Plan)
      /\ DOMAIN heap \subseteq DOMAIN plan
      /\ DOMAIN heap' = DOMAIN heap \cup {n + 1} /\ DOMAIN plan' = DOMAIN plan \cup {n + 1}
  <2>1. Next_b = n + 1 /\ n \in Nat /\ plan \in Seq(Plan) /\ DOMAIN heap \subseteq DOMAIN plan
    BY <1>n DEF TypeInv, TypeOK, Plan, Next_b
  <2>2. /\ plan' \in Seq(Plan)
        /\ DOMAIN heap' = DOMAIN heap \cup {Next_b} /\ DOMAIN plan' = DOMAIN plan \cup {Next_b}
    BY NewObject
  <2> QED
    BY ONLY <2>1, <2>2
<1>2. /\ Len(plan') = n + 1 /\ plan'[n + 1] = [jobs |-> Len(o.threads), complete |-> o.complete]
      /\ \A a \in 1 .. n : plan'[a] = plan[a]
  BY <1>n, <1>1 DEF New
<1>3. /\ DOMAIN plan = 1 .. n /\ DOMAIN plan' = 1 .. n + 1
  BY <1>n, <1>1, <1>2
<1> DEFINE P == [jobs : Nat, completes : BOOLEAN]
           Q(p) == [jobs |-> p.jobs, completes |-> p.complete # NoFunction]
<1>4. \A p \in Plan : Q(p) \in P
  BY DEF Plan
<1>p. Promised = [b \in DOMAIN plan |-> Q(plan[b])]
  BY DEF Promised
<1>q. Promised' = [b \in DOMAIN plan' |-> Q(plan'[b])]
  BY DEF Promised
<1>5. Promised \in Seq(P) /\ Len(Promised) = n
  <2>1. Promised \in [1 .. n -> P]
    <3> HIDE DEF P, Q
    <3> QED
      BY <1>1, <1>3, <1>4, <1>p
  <2>2. n \in Nat
    BY <1>1
  <2> HIDE DEF P
  <2> QED
    BY ONLY <2>1, <2>2
<1>6. Promised' \in Seq(P) /\ Len(Promised') = n + 1
  <2>1. Promised' \in [1 .. n + 1 -> P]
    <3> HIDE DEF P, Q
    <3> QED
      BY <1>1, <1>3, <1>4, <1>q
  <2>2. n \in Nat
    BY <1>1
  <2> HIDE DEF P
  <2> QED
    BY ONLY <2>1, <2>2
<1>7. \A a \in 1 .. n : Promised'[a] = Promised[a]
  BY <1>1, <1>2, <1>3 DEF Promised
<1>8. SubSeq(Promised', 1, n) = Promised
  <2> HIDE DEF P
  <2>1. SubSeq(Promised', 1, n) = [i \in 1 .. n |-> Promised'[i]]
    BY ONLY <1>1, <1>6, n \in Nat
  <2> QED
    BY <1>1, <1>5, <1>7, <2>1
<1>9. Promised'[n + 1] \in [jobs : Nat \ {0}, completes : BOOLEAN]
  <2>1. Promised'[n + 1] = [jobs |-> Len(o.threads), completes |-> o.complete # NoFunction]
    BY <1>1, <1>2, <1>3 DEF Promised
  <2>2. Len(o.threads) \in Nat \ {0}
    BY DEF Object
  <2> QED
    BY <2>1, <2>2
<1>10. Ended' = Ended
  BY <1>1, <1>3 DEF Ended
<1> QED
  BY <1>1, <1>5, <1>6, <1>8, <1>9, <1>10 DEF Promise!HandOver, Promised, Ended

\* A worker runs a job of a batch, or its completion function.
LEMMA PromiseWorker ==
  ASSUME BatchInv, NEW r \in running, worker_thread(r)
  PROVE  Promise!Run(r.b) \/ Promise!Complete(r.b)
<1>0. TypeInv /\ PlacesInv /\ CountInv
  BY DEF BatchInv
<1> DEFINE b == r.b
           n == plan[b].jobs
<1>1. /\ b \in DOMAIN heap /\ b \in DOMAIN plan /\ n \in Nat /\ heap[b].complete = plan[b].complete
      /\ r.job \in (1 .. n) \cup {-1} /\ ItemOf(r) = Piece(b, r.job)
      /\ Owned(b, heap[b], n, calls[b], Pending, Done)
  BY <1>0, InWork DEF Planned
<1>2. Piece(b, r.job) \in Pending /\ Piece(b, r.job) \notin Done
  <2>1. ItemOf(r) \in Working /\ ItemOf(r) \notin Done
    BY <1>0 DEF Working, Done, PlacesInv
  <2> QED
    BY <1>1, <2>1 DEF Pending
<1>3. /\ calls' = [calls EXCEPT ![b] = Append(calls[b], r.job)]
      /\ DOMAIN heap' = DOMAIN heap /\ plan' = plan
  BY DEF worker_thread
<1>4. Promised' = Promised /\ Ended' = Ended /\ b \notin Ended
  BY <1>1, <1>3 DEF Promised, Ended
<1>5. /\ Promise!Jobs(b) = 1 .. n /\ (Promise!JobsRun(b) <=> 1 .. n \subseteq Range(calls[b]))
      /\ Promise!Range(calls[b]) = Range(calls[b])
      /\ Promised[b].completes <=> plan[b].complete # NoFunction
  BY <1>0, <1>1, PromisedPlan
<1>6. CASE r.job \in 1 .. n
  <2>1. r.job \notin Range(calls[b])
    BY <1>1, <1>2, <1>6 DEF Owned
  <2> QED
    BY <1>3, <1>4, <1>5, <1>6, <2>1
       DEF Promise!Run, Promise!Call, Promised, Ended
<1>7. CASE r.job = -1
  <2>1. Piece(b, -1) \in Pending \cup Done /\ Piece(b, -1) \notin Done
    BY <1>2, <1>7
  <2>2. Left(Pending \cup Done, b, n) = {} /\ heap[b].complete \in Place /\ -1 \notin Range(calls[b])
    BY <1>1, <2>1 DEF Owned
  <2>3. \A i \in 1 .. n : Piece(b, i) \notin Pending
    BY <2>2 DEF Left
  <2>4. 1 .. n \subseteq Range(calls[b])
    BY <1>1, <2>3 DEF Owned
  <2>5. plan[b].complete # NoFunction
    BY <1>1, <2>2 DEF Place, NoFunction
  <2> QED
    BY <1>3, <1>4, <1>5, <1>7, <2>2, <2>4, <2>5
       DEF Promise!Complete, Promise!Call, Promised, Ended
<1> QED
  BY <1>1, <1>6, <1>7

\* The proxy hears from a worker: it ends the batch, after its completion function if
\* it has one, or only counts.
LEMMA PromiseMessage ==
  ASSUME BatchInv, NEW r \in ran, proxy_worker_message(r)
  PROVE  Promise!Complete(r.b) \/ Promise!End(r.b) \/ UNCHANGED <<Promised, calls, Ended>>
<1>0. TypeInv /\ PlacesInv /\ CountInv
  BY DEF BatchInv
<1> DEFINE b == r.b
           n == plan[b].jobs
<1>1. /\ b \in DOMAIN heap /\ b \in DOMAIN plan /\ n \in Nat /\ heap[b].complete = plan[b].complete
      /\ r.job \in (1 .. n) \cup {-1} /\ ItemOf(r) = Piece(b, r.job)
      /\ Owned(b, heap[b], n, calls[b], Pending, Done)
  BY <1>0, InWork DEF Planned
<1>2. Piece(b, r.job) \notin Pending /\ Piece(b, r.job) \in Done
  <2>1. ran \ {r} \subseteq ran /\ ItemOf(r) \in Done /\ ItemOf(r) \notin Waiting \cup Working
    BY <1>0, <1>1 DEF Working, Done, Waiting, PlacesInv
  <2> QED
    BY <1>1, <2>1 DEF Pending
<1>3. plan' = plan /\ Promised' = Promised
  BY DEF proxy_worker_message, Promised
<1>4. /\ Promise!Jobs(b) = 1 .. n /\ (Promise!JobsRun(b) <=> 1 .. n \subseteq Range(calls[b]))
      /\ Promise!Range(calls[b]) = Range(calls[b])
      /\ Promised[b].completes <=> plan[b].complete # NoFunction
      /\ b \notin Ended
  BY <1>0, <1>1, PromisedPlan DEF Ended
<1>5. Delete(b) => Ended' = Ended \cup {b}
  BY <1>1, <1>3 DEF Delete, Restrict, Ended
<1>6. ~StillRunning(b) /\ r.job # -1 => 1 .. n \subseteq Range(calls[b]) /\ -1 \notin Range(calls[b])
  <2> SUFFICES ASSUME ~(heap[b].outstanding > 1), r.job \in 1 .. n
               PROVE  1 .. n \subseteq Range(calls[b]) /\ -1 \notin Range(calls[b])
    BY <1>1 DEF StillRunning
  <2>1. OnlyLeft(b, n, calls[b], r.job, Pending \cup Done)
    BY ONLY <1>1, <1>2, ~(heap[b].outstanding > 1), r.job \in 1 .. n, OwnedLast
  <2> QED
    BY ONLY <2>1 DEF OnlyLeft
<1>7. CASE r.job = -1 /\ Delete(b) /\ UNCHANGED calls
  <2>1. Piece(b, -1) \in Done
    BY <1>2, <1>7
  <2>2. 1 .. n \subseteq Range(calls[b]) /\ -1 \in Range(calls[b]) /\ heap[b].complete \in Place
    BY ONLY <1>1, <2>1, OwnedClosed
  <2>3. plan[b].complete # NoFunction
    BY <1>1, <2>2 DEF Place, NoFunction
  <2> QED
    BY <1>3, <1>4, <1>5, <1>7, <2>2, <2>3
       DEF Promise!End, Promise!Over, Promised, Ended
<1>8. CASE r.job # -1 /\ ~StillRunning(b) /\ heap[b].complete = NoFunction /\ Delete(b) /\ UNCHANGED calls
  BY <1>1, <1>3, <1>4, <1>5, <1>6, <1>8
     DEF Promise!End, Promise!Over, Promised, Ended
<1>9. CASE /\ r.job # -1 /\ ~StillRunning(b) /\ heap[b].complete = InProxy
            /\ job_completion_in_proxy(b) /\ Delete(b)
  <2>1. calls' = [calls EXCEPT ![b] = Append(calls[b], -1)] /\ plan[b].complete # NoFunction
    BY <1>1, <1>9 DEF job_completion_in_proxy, InProxy, NoFunction
  <2> QED
    BY <1>3, <1>4, <1>5, <1>6, <1>9, <2>1
       DEF Promise!Complete, Promise!Call, Promised, Ended
<1>10. CASE (\E k : Finished(b, k)) /\ UNCHANGED calls
  <2>1. DOMAIN heap' = DOMAIN heap
    BY <1>10 DEF Finished
  <2> QED
    BY <1>3, <1>10, <2>1, PromiseStutter
<1> QED
  BY <1>7, <1>8, <1>9, <1>10 DEF proxy_worker_message

\* Every step of Batches is one that BatchPromise allows, or changes nothing of it.
LEMMA PromiseNext ==
  ASSUME BatchInv, [Next]_vars
  PROVE  Promise!Next \/ UNCHANGED <<Promised, calls, Ended>>
<1>0. TypeInv /\ CountInv
  BY DEF BatchInv
<1>1. CASE Clients
  <2>1. CASE \E c \in Client : batch(c)
    <3>1. object \in Object /\ New(object) /\ UNCHANGED calls /\ object.threads # <<>>
      BY <1>0, <2>1 DEF batch, TypeInv, TypeOK
    <3>2. Len(object.threads) # 0
      BY <3>1 DEF Object
    <3> QED
      BY <1>0, <3>1, <3>2, PromiseNew DEF Promise!Next
  <2>2. CASE \E c \in Client, p \in Place : job(c, p)
    <3>1. PICK p \in Place : New(One(p, NoFunction, NoTimer)) /\ UNCHANGED calls
      BY <2>2 DEF job
    <3>2. /\ One(p, NoFunction, NoTimer) \in Object
          /\ Len(One(p, NoFunction, NoTimer).threads) # 0
      <4>1. NoFunction \in Function /\ NoTimer \in Nat
        BY DEF Function, NoTimer
      <4> QED
        BY <4>1, OneObject
    <3> QED
      BY <1>0, <3>1, <3>2, PromiseNew DEF Promise!Next
  <2>3. CASE UNCHANGED <<plan, calls, heap>>
    BY <2>3, PromiseStutter
  <2> QED
    BY <1>1, <2>1, <2>2, <2>3 DEF Clients, add_job, completion, add_timer, cancel_timer
<1>2. CASE Proxy
  <2>1. CASE \E z \in armed : _queue_timer_job(z)
    <3>1. PICK z \in armed : _queue_timer_job(z)
      BY <2>1
    <3> DEFINE t == timer_jobs[z]
               f == IF t.squelch THEN InProxy ELSE NoFunction
    <3>2. New(One(t.thread, f, z)) /\ UNCHANGED calls /\ t.thread # InProxy
      BY <3>1 DEF _queue_timer_job
    <3>3. t \in TimerJob /\ z \in Nat
      <4>1. timer_jobs \in Seq(TimerJob) /\ z \in DOMAIN timer_jobs
        BY <1>0 DEF TypeInv, TypeOK, TimerJob
      <4> QED
        BY ONLY <4>1
    <3>4. t.thread \in Place /\ f \in Function
      BY <3>2, <3>3 DEF TimerJob, Function
    <3> HIDE DEF t, f
    <3>5. One(t.thread, f, z) \in Object /\ Len(One(t.thread, f, z).threads) # 0
      BY <3>3, <3>4, OneObject
    <3> QED
      BY <1>0, <3>2, <3>5, PromiseNew DEF Promise!Next
  <2>2. CASE \E r \in ran : proxy_worker_message(r)
    <3>1. PICK r \in ran : proxy_worker_message(r)
      BY <2>2
    <3>2. r.b \in Promise!HandedOver
      BY <1>0, InWork DEF Promise!HandedOver
    <3> QED
      BY <3>1, <3>2, PromiseMessage DEF Promise!Next
  <2>3. CASE UNCHANGED <<plan, calls, heap>>
    BY <2>3, PromiseStutter
  <2> QED
    BY <1>2, <2>1, <2>2, <2>3
       DEF Proxy, proxy_batch, proxy_timer, proxy_timer_del, Receive, proxy_process_queue, proxy_loop
<1>3. CASE Worker
  <2>1. PICK r \in running : worker_thread(r)
    BY <1>3 DEF Worker
  <2>2. r.b \in Promise!HandedOver
    BY <1>0, InWork DEF Promise!HandedOver
  <2> QED
    BY <2>1, <2>2, PromiseWorker DEF Promise!Next
<1>4. CASE QUIT \/ UNCHANGED vars
  BY <1>4, PromiseStutter DEF QUIT, vars
<1> QED
  BY <1>1, <1>2, <1>3, <1>4 DEF Next

\* Whatever the proxy and the workers do, every job of a batch runs once, then its
\* completion function once, and only then is the Batch deleted.
THEOREM PromiseKept == Spec => BatchesKeepPromise
<1>1. Init => Promise!Init
  <2> SUFFICES ASSUME Init PROVE Promise!Init
    OBVIOUS
  <2>1. plan = <<>> /\ heap = <<>> /\ calls = [b \in Address |-> <<>>] /\ DOMAIN plan = {}
    BY DEF Init
  <2>2. Promised = <<>> /\ Ended = {}
    BY <2>1 DEF Promised, Ended
  <2> QED
    BY <2>1, <2>2 DEF Promise!Init, Promised, Ended
<1>2. BatchInv /\ [Next]_vars => [Promise!Next]_<<Promised, calls, Ended>>
  BY PromiseNext
<1> QED
  BY <1>1, <1>2, BatchInvariant, PTL DEF Spec, BatchesKeepPromise, Promise!Spec, Promised, Ended
=============================================================================
