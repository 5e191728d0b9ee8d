---------------------------- MODULE PlaceProofs ----------------------------
(***************************************************************************)
(* Every job that was submitted is in one place, for any number of jobs:   *)
(* it waits in pending_commands or in one queue, one thread has it, or it  *)
(* ran or was dropped.                                                     *)
(*                                                                         *)
(* A thread has a job from RUN on until it ran (Holding); what each step   *)
(* does to the threads that hold one, and to the queues, moves one job or  *)
(* none from one part to another (PlacesStep).                             *)
(***************************************************************************)
EXTENDS QueueProofs

\* The order in which the provers are tried.
USE ZenonT(2), SMTT(20)

USE DEF proxyVars, poolVars, tagVars, queueVars, threadVars, jobVars

-----------------------------------------------------------------------------
(* Where the jobs are.                                                     *)

\* A thread has a job to run: it runs it, or RUN is on its way.
Holds(p, m) == p = "running" \/ "RUN" \in Range(m)
Holding == {w \in Threads : Holds(pc[w], to_worker[w])}

PendingIds == {pending_commands[i].id : i \in 1 .. Len(pending_commands)}
QueuedIds == UNION {{jobs[q][i].id : i \in 1 .. Len(jobs[q])} : q \in DOMAIN jobs}
LoadedIds == {run[w].id : w \in Holding}

LoadedOnce == \A w, u \in Holding : run[w].id = run[u].id => w = u

QueuedOnce ==
  \A q, r \in DOMAIN jobs : \A i \in 1 .. Len(jobs[q]), k \in 1 .. Len(jobs[r]) :
    jobs[q][i].id = jobs[r][k].id => q = r /\ i = k

\* A, B, C, D and E have no element in common, and together are U.
Partition(A, B, C, D, E, U) ==
  /\ A \cup B \cup C \cup D \cup E = U
  /\ \A x \in A : x \notin B /\ x \notin C /\ x \notin D /\ x \notin E
  /\ \A x \in B : x \notin C /\ x \notin D /\ x \notin E
  /\ \A x \in C : x \notin D /\ x \notin E
  /\ \A x \in D : x \notin E

Submitted == 1 .. next_job - 1

PlacesInv ==
  /\ LoadedOnce /\ QueuedOnce
  /\ Partition(PendingIds, QueuedIds, LoadedIds, executed, dropped, Submitted)

\* Jobs that go from one place to another.
LEMMA Moved ==
  ASSUME NEW A, NEW B, NEW C, NEW D, NEW E, NEW U, NEW M, Partition(A, B, C, D, E, U)
  PROVE  /\ M \subseteq A => Partition(A \ M, B, C \cup M, D, E, U)
         /\ M \subseteq B => Partition(A, B \ M, C \cup M, D, E, U)
         /\ M \subseteq C => Partition(A, B, C \ M, D \cup M, E, U)
<1>1. ASSUME M \subseteq A PROVE Partition(A \ M, B, C \cup M, D, E, U)
  BY <1>1 DEF Partition
<1>2. ASSUME M \subseteq B PROVE Partition(A, B \ M, C \cup M, D, E, U)
  BY <1>2 DEF Partition
<1>3. ASSUME M \subseteq C PROVE Partition(A, B, C \ M, D \cup M, E, U)
  BY <1>3 DEF Partition
<1> QED
  BY <1>1, <1>2, <1>3

\* A job that is new.
LEMMA Added ==
  ASSUME NEW A, NEW B, NEW C, NEW D, NEW E, NEW U, NEW x, x \notin U,
         Partition(A, B, C, D, E, U)
  PROVE  /\ Partition(A \cup {x}, B, C, D, E, U \cup {x})
         /\ Partition(A, B \cup {x}, C, D, E, U \cup {x})
         /\ Partition(A, B, C \cup {x}, D, E, U \cup {x})
         /\ Partition(A, B, C, D, E \cup {x}, U \cup {x})
<1>0. x \notin A /\ x \notin B /\ x \notin C /\ x \notin D /\ x \notin E
  BY DEF Partition
<1>1. Partition(A \cup {x}, B, C, D, E, U \cup {x})
  BY <1>0 DEF Partition
<1>2. Partition(A, B \cup {x}, C, D, E, U \cup {x})
  BY <1>0 DEF Partition
<1>3. Partition(A, B, C \cup {x}, D, E, U \cup {x})
  BY <1>0 DEF Partition
<1>4. Partition(A, B, C, D, E \cup {x}, U \cup {x})
  BY <1>0 DEF Partition
<1> QED
  BY <1>1, <1>2, <1>3, <1>4

\* Which threads have a job to run.
LEMMA HoldsCases ==
  /\ \A m : Holds("running", m)
  /\ \A p : p # "running" => /\ ~Holds(p, <<>>) /\ ~Holds(p, <<"START">>) /\ ~Holds(p, <<"QUIT">>)
                             /\ ~Holds(p, <<"START", "QUIT">>)
                             /\ Holds(p, <<"RUN">>) /\ Holds(p, <<"START", "RUN">>)
<1>1. Range(<<>>) = {}
  BY DEF Range
<1>2. Range(<<"START">>) = {"START"} /\ Range(<<"QUIT">>) = {"QUIT"} /\ Range(<<"RUN">>) = {"RUN"}
  BY DEF Range
<1>3. "RUN" \in Range(<<"START", "RUN">>)
  BY DEF Range
<1>4. "RUN" \notin Range(<<"START", "QUIT">>)
  BY DEF Range
<1> QED
  BY <1>1, <1>2, <1>3, <1>4 DEF Holds

\* A thread has a job to run from being told so to saying that it ran.
LEMMA HoldsIf ==
  ASSUME NEW w
  PROVE  /\ TagWorking(w) => (Holds(pc[w], to_worker[w]) <=> to_proxy[w] = <<>>)
         /\ Early(w) \/ TurnedAway(w) \/ TagResting(w) \/ TagGone(w)
              => ~Holds(pc[w], to_worker[w])
<1>1. ASSUME TagWorking(w) PROVE Holds(pc[w], to_worker[w]) <=> to_proxy[w] = <<>>
  <2>1. \/ pc[w] = "running" /\ to_proxy[w] = <<>>
        \/ pc[w] = "waiting" /\ to_worker[w] = <<"RUN">> /\ to_proxy[w] = <<>>
        \/ pc[w] = "starting" /\ to_worker[w] = <<"START", "RUN">> /\ to_proxy[w] = <<>>
        \/ pc[w] = "waiting" /\ to_worker[w] = <<>> /\ to_proxy[w] = <<"RAN">>
    BY <1>1 DEF TagWorking, Working, State
  <2> QED
    BY <2>1, HoldsCases
<1>2. ASSUME Early(w) \/ TurnedAway(w) \/ TagResting(w) \/ TagGone(w)
      PROVE  ~Holds(pc[w], to_worker[w])
  <2>1. pc[w] # "running" /\ to_worker[w] \in {<<>>, <<"START">>, <<"QUIT">>, <<"START", "QUIT">>}
    BY <1>2 DEF Early, TurnedAway, TagResting, Resting, TagGone, Gone, State
  <2> QED
    BY <2>1, HoldsCases
<1> QED
  BY <1>1, <1>2

\* Every thread is in one of the states of the exchange.
LEMMA Standing ==
  ASSUME PoolInv, TagInv, NEW w \in Threads
  PROVE  /\ Early(w) \/ TurnedAway(w) \/ TagWorking(w) \/ TagResting(w) \/ TagGone(w)
         /\ ~Started => Early(w) \/ TurnedAway(w)
<1>0. TypeOK /\ NoneYet /\ ExchangeInv
  BY DEF PoolInv
<1>1. CASE w \in Workers
  <2>1. Working(w) \/ Resting(w) \/ Gone(w)
    BY <1>0, <1>1 DEF ExchangeInv
  <2>2. Started
    BY <1>0, <1>1 DEF NoneYet, Workers
  <2> QED
    BY <2>1, <2>2 DEF TagWorking, TagResting, TagGone
<1>2. CASE w \in tagged
  <2>1. InStep(w) /\ busy[w] \in BOOLEAN
    BY <1>0, <1>2 DEF TagInv, TypeOK
  <2>2. CASE Started
    BY <2>1, <2>2 DEF InStep
  <2>3. CASE ~Started
    BY <2>1, <2>3 DEF InStep, Started
  <2> QED
    BY <2>2, <2>3
<1> QED
  BY <1>1, <1>2 DEF Threads

\* No thread gets a job or gives one up.
LEMMA LoadedSame ==
  ASSUME LoadedOnce, Holding' = Holding, \A w \in Holding : run'[w] = run[w]
  PROVE  LoadedIds' = LoadedIds /\ LoadedOnce'
BY DEF LoadedIds, LoadedOnce

\* The threads of N get a job each, which nobody else has.
LEMMA LoadedMore ==
  ASSUME LoadedOnce, NEW N, Holding' = Holding \cup N, \A w \in N : w \notin Holding,
         \A w \in Holding : run'[w] = run[w],
         \A w, u \in N : run'[w].id = run'[u].id => w = u,
         \A w \in N : run'[w].id \notin LoadedIds
  PROVE  LoadedIds' = LoadedIds \cup {run'[w].id : w \in N} /\ LoadedOnce'
<1>1. LoadedIds' = LoadedIds \cup {run'[w].id : w \in N}
  BY DEF LoadedIds
<1>2. ASSUME NEW w \in Holding \cup N, NEW u \in Holding \cup N, run'[w].id = run'[u].id
      PROVE  w = u
  <2>1. CASE w \in Holding /\ u \in Holding
    BY <1>2, <2>1 DEF LoadedOnce
  <2>2. CASE w \in N /\ u \in N
    BY <1>2, <2>2
  <2>3. CASE w \in Holding /\ u \in N
    BY <1>2, <2>3 DEF LoadedIds
  <2>4. CASE w \in N /\ u \in Holding
    BY <1>2, <2>4 DEF LoadedIds
  <2> QED
    BY <2>1, <2>2, <2>3, <2>4
<1> QED
  BY <1>1, <1>2 DEF LoadedOnce

\* One thread gives its job up.
LEMMA LoadedLess ==
  ASSUME LoadedOnce, NEW w \in Holding, Holding' = Holding \ {w}, run' = run
  PROVE  LoadedIds' = LoadedIds \ {run[w].id} /\ LoadedOnce' /\ run[w].id \in LoadedIds
<1>1. run[w].id \in LoadedIds
  BY DEF LoadedIds
<1>2. LoadedOnce'
  BY DEF LoadedOnce
<1>3. LoadedIds' = LoadedIds \ {run[w].id}
  BY DEF LoadedIds, LoadedOnce
<1> QED
  BY <1>1, <1>2, <1>3

\* A job is at one position of one queue.
LEMMA QueuedAt ==
  ASSUME QueuedOnce, NEW q \in DOMAIN jobs, NEW r \in DOMAIN jobs,
         NEW i \in 1 .. Len(jobs[q]), NEW k \in 1 .. Len(jobs[r]),
         jobs[q][i].id = jobs[r][k].id
  PROVE  q = r /\ i = k
BY DEF QueuedOnce

\* A job is added to a queue.
LEMMA QueueOneMore ==
  ASSUME TypeOK, QueuedOnce, next_job \notin QueuedIds, NEW q \in DOMAIN jobs, NEW k,
         k \in {"command", "job", "completion"}, QueueJob(q, k)
  PROVE  QueuedIds' = QueuedIds \cup {next_job} /\ QueuedOnce'
<1>1. PICK s \in Seq(Job), j \in Job : s = jobs[q] /\ j = NewJob(q, k) /\ j.id = next_job
  <2>1. q \in Class \cup Tagged
    BY DEF TypeOK, Class
  <2>2. NewJob(q, k) \in Job /\ NewJob(q, k).id = next_job
    BY <2>1, NewJobType DEF QueueJob, NewJob
  <2>3. jobs[q] \in Seq(Job)
    BY DEF TypeOK
  <2> QED
    BY <2>2, <2>3
<1>2. PICK t \in Seq(Job) : /\ t = Append(s, j) /\ Len(t) = Len(s) + 1 /\ t[Len(s) + 1] = j
                            /\ Len(s) \in Nat /\ \A i \in 1 .. Len(s) : t[i] = s[i]
  <2>1. /\ Append(s, j) \in Seq(Job) /\ Len(Append(s, j)) = Len(s) + 1
        /\ Append(s, j)[Len(s) + 1] = j /\ \A i \in 1 .. Len(s) : Append(s, j)[i] = s[i]
    BY SeqAppend
  <2>2. Len(s) \in Nat
    BY SeqLen
  <2> QED
    BY <2>1, <2>2, Zenon
<1>3. DOMAIN jobs' = DOMAIN jobs /\ \A r \in DOMAIN jobs : jobs'[r] = IF r = q THEN t ELSE jobs[r]
  <2>1. jobs' = [jobs EXCEPT ![q] = t]
    BY <1>1, <1>2 DEF QueueJob
  <2> QED
    BY <2>1
<1>4. ASSUME NEW r \in DOMAIN jobs, NEW i
      PROVE  /\ i \in 1 .. Len(jobs'[r]) <=> i \in 1 .. Len(jobs[r]) \/ (r = q /\ i = Len(s) + 1)
             /\ i \in 1 .. Len(jobs[r]) => jobs'[r][i] = jobs[r][i]
  BY <1>1, <1>2, <1>3
<1>5. jobs'[q][Len(s) + 1].id = next_job /\ Len(s) + 1 \in 1 .. Len(jobs'[q])
  BY <1>1, <1>2, <1>3
<1>6. \A r \in DOMAIN jobs : \A i \in 1 .. Len(jobs[r]) : jobs[r][i].id # next_job
  BY DEF QueuedIds
<1>7. ASSUME NEW x PROVE x \in QueuedIds' <=> x \in QueuedIds \/ x = next_job
  <2>1. x \in QueuedIds' <=> \E r \in DOMAIN jobs : \E i \in 1 .. Len(jobs'[r]) : x = jobs'[r][i].id
    BY <1>3 DEF QueuedIds
  <2>2. x \in QueuedIds <=> \E r \in DOMAIN jobs : \E i \in 1 .. Len(jobs[r]) : x = jobs[r][i].id
    BY DEF QueuedIds
  <2>3. ASSUME x \in QueuedIds' PROVE x \in QueuedIds \/ x = next_job
    <3>0. PICK r \in DOMAIN jobs : \E i \in 1 .. Len(jobs'[r]) : x = jobs'[r][i].id
      BY <2>1, <2>3
    <3>1. PICK i \in 1 .. Len(jobs'[r]) : x = jobs'[r][i].id
      BY <3>0
    <3> QED
      BY <1>4, <1>5, <2>2, <3>1
  <2>4. ASSUME x \in QueuedIds PROVE x \in QueuedIds'
    <3>0. PICK r \in DOMAIN jobs : \E i \in 1 .. Len(jobs[r]) : x = jobs[r][i].id
      BY <2>2, <2>4
    <3>1. PICK i \in 1 .. Len(jobs[r]) : x = jobs[r][i].id
      BY <3>0
    <3> QED
      BY <1>4, <2>1, <3>1
  <2>5. ASSUME x = next_job PROVE x \in QueuedIds'
    BY <1>5, <2>1, <2>5
  <2> QED
    BY <2>3, <2>4, <2>5
<1>8. QueuedOnce'
  <2> SUFFICES ASSUME NEW r \in DOMAIN jobs, NEW u \in DOMAIN jobs,
                      NEW i \in 1 .. Len(jobs'[r]), NEW l \in 1 .. Len(jobs'[u]),
                      jobs'[r][i].id = jobs'[u][l].id
               PROVE  r = u /\ i = l
    BY <1>3 DEF QueuedOnce
  <2>1. CASE i \in 1 .. Len(jobs[r]) /\ l \in 1 .. Len(jobs[u])
    <3>1. jobs[r][i].id = jobs[u][l].id
      BY <1>4, <2>1
    <3> QED
      BY <2>1, <3>1, QueuedAt
  <2>2. CASE i \in 1 .. Len(jobs[r]) /\ l \notin 1 .. Len(jobs[u])
    <3>1. u = q /\ l = Len(s) + 1
      BY <1>4, <2>2
    <3>2. jobs'[u][l].id = next_job /\ jobs'[r][i].id = jobs[r][i].id
      BY <1>4, <1>5, <2>2, <3>1
    <3> QED
      BY <1>6, <2>2, <3>2
  <2>3. CASE i \notin 1 .. Len(jobs[r]) /\ l \in 1 .. Len(jobs[u])
    <3>1. r = q /\ i = Len(s) + 1
      BY <1>4, <2>3
    <3>2. jobs'[r][i].id = next_job /\ jobs'[u][l].id = jobs[u][l].id
      BY <1>4, <1>5, <2>3, <3>1
    <3> QED
      BY <1>6, <2>3, <3>2
  <2>4. CASE i \notin 1 .. Len(jobs[r]) /\ l \notin 1 .. Len(jobs[u])
    BY <1>4, <2>4
  <2> QED
    BY <2>1, <2>2, <2>3, <2>4
<1> QED
  BY <1>7, <1>8

\* The first jobs of some queues are taken.
LEMMA QueueHeadsTaken ==
  ASSUME TypeOK, QueuedOnce, NEW R \in SUBSET DOMAIN jobs, \A q \in R : jobs[q] # <<>>,
         jobs' = [q \in DOMAIN jobs |-> IF q \in R THEN Tail(jobs[q]) ELSE jobs[q]]
  PROVE  /\ QueuedIds' = QueuedIds \ {Head(jobs[q]).id : q \in R} /\ QueuedOnce'
         /\ {Head(jobs[q]).id : q \in R} \subseteq QueuedIds
         /\ \A q, r \in R : Head(jobs[q]).id = Head(jobs[r]).id => q = r
<1> DEFINE o(q) == IF q \in R THEN 1 ELSE 0
<1>1. ASSUME NEW q \in DOMAIN jobs
      PROVE  /\ Len(jobs[q]) \in Nat /\ Len(jobs'[q]) = Len(jobs[q]) - o(q)
             /\ \A i \in 1 .. Len(jobs'[q]) : jobs'[q][i] = jobs[q][i + o(q)]
             /\ q \in R => Head(jobs[q]) = jobs[q][1] /\ 1 \in 1 .. Len(jobs[q])
  <2>0. PICK s \in Seq(Job) : s = jobs[q]
    BY DEF TypeOK
  <2>1. CASE q \in R
    <3>1. s # <<>>
      BY <2>0, <2>1
    <3>2. Len(s) \in Nat /\ Len(Tail(s)) = Len(s) - 1
      BY <3>1
    <3>3. \A i \in 1 .. Len(s) - 1 : Tail(s)[i] = s[i + 1]
      BY <3>1
    <3>4. Head(s) = s[1] /\ 1 \in 1 .. Len(s)
      BY <3>1
    <3>5. jobs'[q] = Tail(s)
      BY <2>0, <2>1
    <3> QED
      BY <2>0, <2>1, <3>2, <3>3, <3>4, <3>5
  <2>2. CASE q \notin R
    <3>1. jobs'[q] = s /\ Len(s) \in Nat
      BY <2>0, <2>2
    <3> QED
      BY <2>0, <2>2, <3>1
  <2> QED
    BY <2>1, <2>2
<1>2. DOMAIN jobs' = DOMAIN jobs
  OBVIOUS
<1>3. \A q, r \in R : Head(jobs[q]).id = Head(jobs[r]).id => q = r
  BY <1>1 DEF QueuedOnce
<1>4. {Head(jobs[q]).id : q \in R} \subseteq QueuedIds
  BY <1>1 DEF QueuedIds
<1>5. QueuedOnce'
  <2> SUFFICES ASSUME NEW r \in DOMAIN jobs, NEW u \in DOMAIN jobs,
                      NEW i \in 1 .. Len(jobs'[r]), NEW l \in 1 .. Len(jobs'[u]),
                      jobs'[r][i].id = jobs'[u][l].id
               PROVE  r = u /\ i = l
    BY <1>2 DEF QueuedOnce
  <2>1. i + o(r) \in 1 .. Len(jobs[r]) /\ l + o(u) \in 1 .. Len(jobs[u])
    BY <1>1
  <2>2. jobs[r][i + o(r)].id = jobs[u][l + o(u)].id
    BY <1>1
  <2>3. r = u /\ i + o(r) = l + o(u)
    BY <2>1, <2>2 DEF QueuedOnce
  <2> QED
    BY <2>3
<1>6. ASSUME NEW x \in QueuedIds' PROVE x \in QueuedIds \ {Head(jobs[q]).id : q \in R}
  <2>0. PICK r \in DOMAIN jobs : \E i \in 1 .. Len(jobs'[r]) : x = jobs'[r][i].id
    BY <1>2, <1>6 DEF QueuedIds
  <2>1. PICK i \in 1 .. Len(jobs'[r]) : x = jobs'[r][i].id
    BY <2>0
  <2>2. PICK k \in 1 .. Len(jobs[r]) : k = i + o(r) /\ x = jobs[r][k].id
    BY <1>1, <2>1
  <2>3. x \in QueuedIds
    BY <2>2 DEF QueuedIds
  <2>4. ASSUME NEW q \in R, x = Head(jobs[q]).id PROVE FALSE
    <3>1. x = jobs[q][1].id /\ 1 \in 1 .. Len(jobs[q]) /\ q \in DOMAIN jobs
      BY <1>1, <2>4
    <3>2. q = r /\ k = 1
      <4>1. jobs[q][1].id = jobs[r][k].id
        BY <2>2, <3>1
      <4> QED
        BY <3>1, <4>1, Zenon DEF QueuedOnce
    <3> QED
      BY <2>2, <2>4, <3>2
  <2> QED
    BY <2>3, <2>4
<1>7. ASSUME NEW x \in QueuedIds, x \notin {Head(jobs[q]).id : q \in R} PROVE x \in QueuedIds'
  <2>0. PICK r \in DOMAIN jobs : \E k \in 1 .. Len(jobs[r]) : x = jobs[r][k].id
    BY <1>7 DEF QueuedIds
  <2>1. PICK k \in 1 .. Len(jobs[r]) : x = jobs[r][k].id
    BY <2>0
  <2>2. r \in R => k # 1
    BY <1>1, <1>7, <2>1
  <2>3. PICK i \in 1 .. Len(jobs'[r]) : k = i + o(r)
    <3>1. k - o(r) \in 1 .. Len(jobs'[r]) /\ k = (k - o(r)) + o(r)
      BY <1>1, <2>1, <2>2
    <3> QED
      BY <3>1
  <2>4. x = jobs'[r][i].id
    BY <1>1, <2>1, <2>3
  <2> QED
    <3>1. x \in QueuedIds' <=>
            \E u \in DOMAIN jobs : \E l \in 1 .. Len(jobs'[u]) : x = jobs'[u][l].id
      BY ONLY <1>2 DEF QueuedIds
    <3> QED
      BY <2>4, <3>1, Zenon
<1> QED
  BY <1>3, <1>4, <1>5, <1>6, <1>7

\* A job is dispatched: one thread more has a job, and had none.
LEMMA DispatchHolds ==
  ASSUME TypeOK, ExchangeInv, NEW j, Dispatch(j), UNCHANGED tagged
  PROVE  \E u : /\ Holding' = Holding \cup {u} /\ u \notin Holding /\ run'[u] = j
                /\ \A w \in Holding : run'[w] = run[w]
<1>0. /\ DOMAIN pc = Threads /\ DOMAIN to_worker = Threads /\ DOMAIN run = Threads
      /\ nworkers \in Nat /\ idle_workers \in Seq(Workers) /\ Workers \subseteq Nat
      /\ \A t \in tagged : t \notin Nat
  BY ClassAssumption DEF TypeOK, Workers
<1>1. PICK u : u = get_idle_worker
  OBVIOUS
<1>2. run' = Put(run, u, j) /\ proxy_run_worker(u)
  BY <1>1 DEF Dispatch
<1>3. run'[u] = j /\ \A w \in Threads : w # u => run'[w] = run[w]
  BY <1>0, <1>2 DEF Put
<1>4. /\ Threads' = Threads \cup {u}
      /\ \A w \in Threads : w # u => pc'[w] = pc[w] /\ to_worker'[w] = to_worker[w]
      /\ Holds(pc'[u], to_worker'[u])
      /\ u \notin Holding
  <2>1. CASE idle_workers = <<>>
    <3>1. u = nworkers + 1 /\ nworkers' = nworkers + 1
      BY <1>1, <2>1 DEF get_idle_worker, Dispatch
    <3>2. u \notin Threads
      BY <1>0, <3>1 DEF Threads, Workers
    <3>3. Threads' = Threads \cup {u}
      BY <1>0, <3>1 DEF Threads, Workers
    <3>4. pc' = Put(pc, u, "running") /\ to_worker' = Put(to_worker, u, <<>>)
      BY <1>2, <3>2 DEF proxy_run_worker, joinable
    <3>5. pc'[u] = "running" /\ \A w \in Threads : w # u => pc'[w] = pc[w] /\ to_worker'[w] = to_worker[w]
      BY <1>0, <3>4 DEF Put
    <3> QED
      BY <3>2, <3>3, <3>5, HoldsCases DEF Holding
  <2>2. CASE idle_workers # <<>>
    <3>1. /\ u = idle_workers[Len(idle_workers)] /\ nworkers' = nworkers
          /\ u \in Workers /\ Len(idle_workers) \in 1 .. Len(idle_workers)
      BY <1>0, <1>1, <2>2, FrontType DEF get_idle_worker, Dispatch
    <3>2. u \in Threads /\ Threads' = Threads
      BY <3>1 DEF Threads, Workers
    <3>3. pc[u] = "waiting" /\ to_worker[u] = <<>>
      BY <3>1 DEF ExchangeInv, IsIdle, Resting, State
    <3>4. to_worker' = Put(to_worker, u, Append(to_worker[u], "RUN")) /\ pc' = pc
      BY <1>2, <3>2, <3>3 DEF proxy_run_worker, joinable
    <3>5. to_worker'[u] = Append(<<>>, "RUN") /\ \A w \in Threads : w # u => to_worker'[w] = to_worker[w]
      BY <1>0, <3>3, <3>4 DEF Put
    <3>6. to_worker'[u] = <<"RUN">>
      BY <3>5
    <3>7. Holds(pc'[u], to_worker'[u]) /\ ~Holds(pc[u], to_worker[u])
      BY <3>3, <3>4, <3>6, HoldsCases
    <3> QED
      BY <3>2, <3>4, <3>5, <3>7 DEF Holding
  <2> QED
    BY <2>1, <2>2
<1>5. Holding' = Holding \cup {u}
  BY <1>4 DEF Holding
<1>6. \A w \in Holding : w \in Threads /\ w # u
  BY <1>4 DEF Holding
<1> QED
  BY <1>3, <1>4, <1>5, <1>6

\* A step in which no thread gets a job or gives one up.
LEMMA HoldingFrame ==
  ASSUME Threads' = Threads, run' = run,
         \A w \in Threads : Holds(pc'[w], to_worker'[w]) <=> Holds(pc[w], to_worker[w])
  PROVE  Holding' = Holding /\ \A w \in Holding : run'[w] = run[w]
BY DEF Holding

\* Setting up and starting give nobody a job.
LEMMA SetupHolds ==
  ASSUME PoolInv, TagInv,
         \/ Setup \/ ReserveDone \/ StartTagged \/ AbandonJoin
         \/ \E c \in Category : ReserveCategory(c)
         \/ \E t \in Tagged : AbandonQuit(t)
  PROVE  Holding = {} /\ Holding' = {}
<1>0. /\ TypeOK /\ NoneYet /\ DOMAIN pc = Threads /\ DOMAIN to_worker = Threads
  BY DEF PoolInv, TypeOK
<1>1. ~Started /\ UNCHANGED nworkers
  BY DEF Setup, add_tagged_thread, start, Abandon, ReserveCategory, ReserveDone, StartTagged,
    AbandonQuit, AbandonJoin, Started
<1>2. ASSUME NEW w \in Threads
      PROVE  /\ pc[w] # "running" /\ to_worker[w] \in {<<>>, <<"QUIT">>}
             /\ phase # "abandon" => to_worker[w] = <<>>
  <2>1. Early(w) \/ TurnedAway(w)
    BY <1>1, Standing
  <2>2. w \in tagged
    BY <1>0, <1>1 DEF NoneYet, Threads, Workers
  <2>3. phase # "abandon" => Early(w)
    BY <1>1, <2>2 DEF TagInv, InStep, Started
  <2>4. pc[w] # "running" /\ to_worker[w] \in {<<>>, <<"QUIT">>}
    BY <2>1 DEF Early, TurnedAway, State
  <2>5. Early(w) => to_worker[w] = <<>>
    BY DEF Early, State
  <2> QED
    BY <2>3, <2>4, <2>5
<1>3. Holding = {}
  BY <1>2, HoldsCases DEF Holding
<1>4. Workers' = {} /\ Workers = {}
  BY <1>0, <1>1 DEF NoneYet, Workers
<1>5. CASE UNCHANGED <<tagged, pc, to_worker>>
  BY <1>3, <1>4, <1>5 DEF Holding, Threads
<1>6. ASSUME NEW t \in Tagged, add_tagged_thread(t) PROVE Holding' = {}
  <2>1. /\ tagged' = tagged \cup {t} /\ pc' = Put(pc, t, "connecting")
        /\ to_worker' = Put(to_worker, t, <<>>)
    BY <1>6 DEF add_tagged_thread
  <2>2. ASSUME NEW w \in tagged \cup {t} PROVE ~Holds(pc'[w], to_worker'[w])
    <3>1. CASE w = t
      <4>1. pc'[w] = "connecting" /\ to_worker'[w] = <<>>
        BY <2>1, <3>1 DEF Put
      <4> QED
        BY <4>1, HoldsCases
    <3>2. CASE w # t
      <4>1. w \in Threads
        BY <3>2 DEF Threads
      <4>2. pc'[w] = pc[w] /\ to_worker'[w] = to_worker[w]
        BY <1>0, <2>1, <3>2, <4>1 DEF Put
      <4> QED
        BY <1>2, <4>1, <4>2, HoldsCases
    <3> QED
      BY <3>1, <3>2
  <2> QED
    BY <1>4, <2>1, <2>2 DEF Holding, Threads
<1>7. CASE StartTagged
  <2>1. /\ tagged' = tagged /\ pc' = pc /\ phase = "starting"
        /\ \A t \in tagged : to_worker'[t] = Append(to_worker[t], "START")
    BY <1>7 DEF StartTagged
  <2>2. ASSUME NEW w \in tagged PROVE ~Holds(pc'[w], to_worker'[w])
    <3>1. pc'[w] # "running" /\ to_worker'[w] = Append(<<>>, "START")
      BY <1>2, <2>1 DEF Threads
    <3>2. Append(<<>>, "START") = <<"START">>
      OBVIOUS
    <3> QED
      BY <3>1, <3>2, HoldsCases
  <2>3. Threads' = tagged
    BY <1>4, <2>1 DEF Threads
  <2> QED
    BY <1>3, <2>2, <2>3 DEF Holding
<1>8. ASSUME NEW t \in Tagged, AbandonQuit(t) PROVE Holding' = {}
  <2>1. /\ tagged' = tagged /\ pc' = pc /\ t \in tagged
        /\ to_worker' = [to_worker EXCEPT ![t] = <<"QUIT">>]
    BY <1>8 DEF AbandonQuit
  <2>2. ASSUME NEW w \in tagged PROVE ~Holds(pc'[w], to_worker'[w])
    <3>1. w \in Threads
      BY DEF Threads
    <3>2. to_worker'[w] = to_worker[w] \/ to_worker'[w] = <<"QUIT">>
      BY <1>0, <2>1, <3>1
    <3>3. pc'[w] # "running" /\ to_worker[w] \in {<<>>, <<"QUIT">>}
      BY <1>2, <2>1, <3>1
    <3> QED
      BY <3>2, <3>3, HoldsCases
  <2>3. Threads' = tagged
    BY <1>4, <2>1 DEF Threads
  <2> QED
    BY <2>2, <2>3 DEF Holding
<1>9. CASE AbandonJoin
  <2>1. /\ tagged' = tagged /\ to_worker' = to_worker
        /\ \A t \in tagged : pc'[t] = "joined"
    BY <1>9 DEF AbandonJoin
  <2>2. ASSUME NEW w \in tagged PROVE ~Holds(pc'[w], to_worker'[w])
    BY <1>2, <2>1, HoldsCases DEF Threads
  <2>3. Threads' = tagged
    BY <1>4, <2>1 DEF Threads
  <2> QED
    BY <1>3, <2>2, <2>3 DEF Holding
<1> QED
  BY <1>3, <1>5, <1>6, <1>7, <1>8, <1>9 DEF Setup, start, Abandon, ReserveDone, ReserveCategory

\* QUIT, and what the threads do and say except for running a job, gives nobody
\* a job and takes none away.
LEMMA QuietHolds ==
  ASSUME PoolInv, TagInv,
         \/ Quit
         \/ \E w \in Threads : \/ proxy_worker_RAN(w) \/ proxy_worker_QUITTING(w)
                               \/ WorkerStarting(w) \/ worker_wait_for(w)
  PROVE  Holding' = Holding /\ \A w \in Holding : run'[w] = run[w]
<1>0. /\ TypeOK /\ DOMAIN pc = Threads /\ DOMAIN to_worker = Threads /\ DOMAIN to_proxy = Threads
  BY DEF PoolInv, TypeOK
<1>1. Threads' = Threads /\ run' = run
  BY DEF Quit, proxy_worker_RAN, proxy_worker_QUITTING, WorkerStarting, worker_wait_for,
    Threads, Workers
<1> SUFFICES \A w \in Threads : Holds(pc'[w], to_worker'[w]) <=> Holds(pc[w], to_worker[w])
  BY <1>1, HoldingFrame
<1>2. CASE Quit
  <2>1. phase = "control" /\ pc' = pc /\ max_workers # 0
    BY <1>2 DEF Quit
  <2>2. ASSUME NEW w \in Threads
        PROVE  Holds(pc'[w], to_worker'[w]) <=> Holds(pc[w], to_worker[w])
    <3>1. to_worker'[w] = IF w \in Range(idle_workers) \cup {t \in tagged : ~busy[t]}
                          THEN Append(to_worker[w], "QUIT") ELSE to_worker[w]
      BY <1>2 DEF Quit
    <3>2. CASE w \notin Range(idle_workers) \cup {t \in tagged : ~busy[t]}
      BY <2>1, <3>1, <3>2
    <3>3. CASE w \in Range(idle_workers) \cup {t \in tagged : ~busy[t]}
      <4>1. TagResting(w)
        <5>1. CASE w \in Range(idle_workers)
          <6>1. w \in Workers /\ IsIdle(w)
            BY <1>0, <5>1 DEF Range, IsIdle, TypeOK
          <6> QED
            BY <6>1 DEF PoolInv, ExchangeInv, TagResting
        <5>2. CASE w \in tagged /\ ~busy[w]
          BY <2>1, <5>2 DEF TagInv, InStep, Started
        <5> QED
          BY <3>3, <5>1, <5>2
      <4>2. /\ pc[w] # "running"
            /\ to_worker[w] = <<>> \/ to_worker[w] = <<"START">>
        BY <4>1 DEF TagResting, Resting, State
      <4>3. Append(<<>>, "QUIT") = <<"QUIT">>
        OBVIOUS
      <4>4. Append(<<"START">>, "QUIT") = <<"START", "QUIT">>
        <5>1. "START" \in {"START", "QUIT"} /\ "QUIT" \in {"START", "QUIT"}
          OBVIOUS
        <5> QED
          BY <5>1, MessageBehind
      <4>5. to_worker'[w] = <<"QUIT">> \/ to_worker'[w] = <<"START", "QUIT">>
        BY <3>1, <3>3, <4>2, <4>3, <4>4
      <4> QED
        BY <2>1, <4>2, <4>5, HoldsCases
    <3> QED
      BY <3>2, <3>3
  <2> QED
    BY <2>2
<1>3. ASSUME NEW u \in Threads,
             \/ proxy_worker_RAN(u) \/ proxy_worker_QUITTING(u)
             \/ WorkerStarting(u) \/ worker_wait_for(u)
      PROVE  \A w \in Threads : Holds(pc'[w], to_worker'[w]) <=> Holds(pc[w], to_worker[w])
  <2>0. Early(u) \/ TurnedAway(u) \/ TagWorking(u) \/ TagResting(u) \/ TagGone(u)
    BY Standing
  <2>1. ASSUME NEW w \in Threads, w # u
        PROVE  pc'[w] = pc[w] /\ to_worker'[w] = to_worker[w]
    <3>1. pc'[w] = pc[w]
      BY <1>0, <1>3, <2>1 DEF proxy_worker_RAN, proxy_worker_QUITTING, WorkerStarting,
        worker_wait_for
    <3>2. CASE proxy_worker_RAN(u)
      BY <1>0, <2>1, <3>1, <3>2 DEF proxy_worker_RAN, Rest
    <3>3. CASE worker_wait_for(u)
      BY <1>0, <2>1, <3>1, <3>3 DEF worker_wait_for
    <3>4. CASE proxy_worker_QUITTING(u) \/ WorkerStarting(u)
      BY <3>1, <3>4 DEF proxy_worker_QUITTING, WorkerStarting
    <3> QED
      BY <1>3, <3>2, <3>3, <3>4
  <2>2. Holds(pc'[u], to_worker'[u]) <=> Holds(pc[u], to_worker[u])
    <3>1. CASE proxy_worker_RAN(u)
      <4>1. to_proxy[u] # <<>> /\ Head(to_proxy[u]) = "RAN" /\ pc'[u] = pc[u]
            /\ to_worker'[u] = IF max_workers = 0 THEN Append(to_worker[u], "QUIT") ELSE to_worker[u]
        BY <1>0, <3>1 DEF proxy_worker_RAN, Rest
      <4>2. Started
        BY <3>1 DEF proxy_worker_RAN, Started
      <4>3. TagWorking(u) \/ TagResting(u) \/ TagGone(u)
        <5>1. CASE u \in Workers
          BY <5>1 DEF PoolInv, ExchangeInv, TagWorking, TagResting, TagGone
        <5>2. CASE u \in tagged
          <6>1. InStep(u) /\ busy[u] \in BOOLEAN
            BY <1>0, <5>2 DEF TagInv, TypeOK
          <6> QED
            BY <4>2, <6>1 DEF InStep
        <5> QED
          BY <5>1, <5>2 DEF Threads
      <4>4. Head(<<"QUITTING">>) = "QUITTING" /\ Append(<<>>, "QUIT") = <<"QUIT">>
        OBVIOUS
      <4>5. pc[u] = "waiting" /\ to_worker[u] = <<>>
        BY <4>1, <4>3, <4>4 DEF TagWorking, Working, TagResting, Resting, TagGone, Gone, State
      <4>6. pc'[u] = "waiting" /\ (to_worker'[u] = <<>> \/ to_worker'[u] = <<"QUIT">>)
        BY <4>1, <4>4, <4>5
      <4> QED
        BY <4>5, <4>6, HoldsCases
    <3>2. CASE proxy_worker_QUITTING(u)
      <4>1. pc[u] = "exited" /\ pc'[u] = "joined" /\ to_worker'[u] = to_worker[u]
        BY <1>0, <3>2 DEF proxy_worker_QUITTING
      <4>2. to_worker[u] = <<>>
        BY <2>0, <4>1 DEF Early, TurnedAway, TagWorking, Working, TagResting, Resting, TagGone,
          Gone, State
      <4> QED
        BY <4>1, <4>2, HoldsCases
    <3>3. CASE WorkerStarting(u)
      <4>1. pc[u] = "connecting" /\ pc'[u] = "starting" /\ to_worker'[u] = to_worker[u]
        BY <1>0, <3>3 DEF WorkerStarting
      <4>2. to_worker[u] = <<>>
        BY <2>0, <4>1 DEF Early, TurnedAway, TagWorking, Working, TagResting, Resting, TagGone,
          Gone, State
      <4> QED
        BY <4>1, <4>2, HoldsCases
    <3>4. CASE worker_wait_for(u)
      <4>1. /\ ~Early(u)
            /\ TurnedAway(u) => TurnedAway(u)'
            /\ TagWorking(u) => TagWorking(u)'
            /\ TagResting(u) => TagResting(u)'
            /\ TagGone(u) => TagGone(u)'
        BY <1>0, <3>4, WaitKeeps
      <4>2. ASSUME TagWorking(u)
            PROVE  Holds(pc'[u], to_worker'[u]) /\ Holds(pc[u], to_worker[u])
        <5>1. /\ to_proxy[u] = <<>>
              /\ \/ pc[u] = "waiting" /\ to_worker[u] = <<"RUN">>
                 \/ pc[u] = "starting" /\ to_worker[u] = <<"START", "RUN">>
          BY <3>4, <4>2 DEF TagWorking, Working, State, worker_wait_for
        <5>2. Head(<<"RUN">>) = "RUN" /\ Head(<<"START", "RUN">>) = "START"
          OBVIOUS
        <5>3. to_proxy'[u] = <<>>
          BY <1>0, <3>4, <5>1, <5>2 DEF worker_wait_for
        <5>4. \/ pc'[u] = "running"
              \/ pc'[u] # "running" /\ to_worker'[u] = <<"RUN">>
              \/ pc'[u] # "running" /\ to_worker'[u] = <<"START", "RUN">>
          BY <4>1, <4>2, <5>3 DEF TagWorking, Working, State
        <5> QED
          BY <5>1, <5>4, HoldsCases
      <4>3. ASSUME TurnedAway(u) \/ TagResting(u) \/ TagGone(u)
            PROVE  ~Holds(pc'[u], to_worker'[u]) /\ ~Holds(pc[u], to_worker[u])
        <5>1. ~Holds(pc[u], to_worker[u])
          BY <4>3, HoldsIf
        <5>2. /\ pc'[u] # "running"
              /\ to_worker'[u] \in {<<>>, <<"START">>, <<"QUIT">>, <<"START", "QUIT">>}
          BY <4>1, <4>3 DEF TurnedAway, TagResting, Resting, TagGone, Gone, State
        <5> QED
          BY <5>1, <5>2, HoldsCases
      <4> QED
        BY <2>0, <4>1, <4>2, <4>3
    <3> QED
      BY <1>3, <3>1, <3>2, <3>3, <3>4
  <2> QED
    BY <2>1, <2>2
<1> QED
  BY <1>2, <1>3

\* A thread that ran its job has none.
LEMMA RanHolds ==
  ASSUME PoolInv, TagInv, NEW w \in Threads, WorkerRan(w)
  PROVE  w \in Holding /\ Holding' = Holding \ {w} /\ run' = run
<1>0. /\ TypeOK /\ DOMAIN pc = Threads /\ DOMAIN to_worker = Threads
  BY DEF PoolInv, TypeOK
<1>1. /\ pc[w] = "running" /\ pc' = [pc EXCEPT ![w] = "waiting"]
      /\ to_worker' = to_worker /\ run' = run /\ Threads' = Threads
  BY DEF WorkerRan, Threads, Workers
<1>2. Early(w) \/ TurnedAway(w) \/ TagWorking(w) \/ TagResting(w) \/ TagGone(w)
  BY Standing
<1>3. to_worker[w] = <<>>
  BY <1>1, <1>2 DEF Early, TurnedAway, TagWorking, Working, TagResting, Resting, TagGone, Gone, State
<1>4. Holds(pc[w], to_worker[w]) /\ ~Holds(pc'[w], to_worker'[w])
  BY <1>0, <1>1, <1>3, HoldsCases
<1>5. \A u \in Threads : u # w => pc'[u] = pc[u]
  BY <1>0, <1>1
<1> QED
  BY <1>1, <1>4, <1>5 DEF Holding

\* The tagged threads that are given their next job had none.
LEMMA TaggedHolds ==
  ASSUME PoolInv, TagInv, RunTagged
  PROVE  /\ Holding' = Holding \cup Ready /\ \A t \in Ready : t \notin Holding
         /\ \A t \in Ready : run'[t] = Head(jobs[t])
         /\ \A w \in Holding : run'[w] = run[w]
<1>0. TypeOK /\ Ready \subseteq tagged /\ tagged \subseteq Threads
  BY DEF PoolInv, Ready, Threads
<1>1. /\ phase = "tagged" /\ pc' = pc /\ Threads' = Threads /\ max_workers # 0
      /\ \A w \in Threads :
           /\ run'[w] = IF w \in Ready THEN Head(jobs[w]) ELSE run[w]
           /\ to_worker'[w] = IF w \in Ready THEN Append(to_worker[w], "RUN") ELSE to_worker[w]
  BY DEF RunTagged, Threads, Workers, TagInv
<1>2. ASSUME NEW t \in Ready
      PROVE  ~Holds(pc[t], to_worker[t]) /\ Holds(pc'[t], to_worker'[t])
  <2>1. t \in tagged /\ ~busy[t]
    BY DEF Ready
  <2>2. TagResting(t)
    BY <1>1, <2>1 DEF TagInv, InStep, Started
  <2>3. /\ pc[t] # "running"
        /\ to_worker[t] = <<>> \/ to_worker[t] = <<"START">>
    BY <2>2 DEF TagResting, Resting, State
  <2>4. Append(<<>>, "RUN") = <<"RUN">>
    OBVIOUS
  <2>5. Append(<<"START">>, "RUN") = <<"START", "RUN">>
    <3>1. "START" \in {"START", "RUN"} /\ "RUN" \in {"START", "RUN"}
      OBVIOUS
    <3> QED
      BY <3>1, MessageBehind
  <2>6. to_worker'[t] = Append(to_worker[t], "RUN")
    BY <1>0, <1>1
  <2>7. to_worker'[t] = <<"RUN">> \/ to_worker'[t] = <<"START", "RUN">>
    BY <2>3, <2>4, <2>5, <2>6
  <2> QED
    BY <1>1, <2>3, <2>7, HoldsCases
<1>3. \A w \in Threads : w \notin Ready => to_worker'[w] = to_worker[w] /\ run'[w] = run[w]
  BY <1>1
<1>4. \A t \in Ready : run'[t] = Head(jobs[t])
  BY <1>0, <1>1
<1>5. \A t \in Ready : t \notin Holding
  BY <1>2 DEF Holding
<1>6. Holding' = Holding \cup Ready
  BY <1>0, <1>1, <1>2, <1>3 DEF Holding
<1> QED
  BY <1>3, <1>4, <1>5, <1>6 DEF Holding

\* A step in which no job goes anywhere.
LEMMA PlacesKept ==
  ASSUME PlacesInv, Holding' = Holding, \A w \in Holding : run'[w] = run[w],
         UNCHANGED <<pending_commands, jobs, next_job, executed, dropped>>
  PROVE  PlacesInv'
<1>1. LoadedIds' = LoadedIds /\ LoadedOnce'
  BY LoadedSame DEF PlacesInv
<1>2. PendingIds' = PendingIds /\ QueuedIds' = QueuedIds /\ Submitted' = Submitted
  BY DEF PendingIds, QueuedIds, Submitted
<1>3. QueuedOnce'
  BY DEF PlacesInv, QueuedOnce
<1> QED
  BY <1>1, <1>2, <1>3 DEF PlacesInv

\* The dispatched job is loaded.
LEMMA DispatchLoaded ==
  ASSUME TypeOK, ExchangeInv, LoadedOnce, NEW j, j.id \notin LoadedIds, Dispatch(j),
         UNCHANGED tagged
  PROVE  LoadedIds' = LoadedIds \cup {j.id} /\ LoadedOnce'
<1>1. PICK u : /\ Holding' = Holding \cup {u} /\ u \notin Holding /\ run'[u] = j
               /\ \A w \in Holding : run'[w] = run[w]
  BY DispatchHolds
<1> DEFINE N == {u}
<1>2. /\ Holding' = Holding \cup N /\ {run'[w].id : w \in N} = {j.id}
      /\ \A w \in N : w \notin Holding
      /\ \A w, v \in N : run'[w].id = run'[v].id => w = v
      /\ \A w \in N : run'[w].id \notin LoadedIds
  BY <1>1
<1> HIDE DEF N
<1>3. LoadedIds' = LoadedIds \cup {run'[w].id : w \in N} /\ LoadedOnce'
  BY <1>1, <1>2, LoadedMore
<1> QED
  BY <1>2, <1>3

\* A command is queued.
LEMMA PendingMore ==
  ASSUME TypeOK, NEW c \in Category, next_job <= MaxJobs, QueueCommand(c)
  PROVE  PendingIds' = PendingIds \cup {next_job}
<1>1. PICK s \in Seq(Job), j \in Job :
        s = pending_commands /\ j = NewJob(c, "command") /\ j.id = next_job
  <2>1. NewJob(c, "command") \in Job /\ NewJob(c, "command").id = next_job
    BY NewJobType DEF NewJob, Class
  <2> QED
    BY <2>1 DEF TypeOK
<1>2. PICK t \in Seq(Job) : /\ t = Append(s, j) /\ Len(t) = Len(s) + 1 /\ t[Len(s) + 1] = j
                            /\ Len(s) \in Nat /\ \A i \in 1 .. Len(s) : t[i] = s[i]
  <2>1. /\ Append(s, j) \in Seq(Job) /\ Len(Append(s, j)) = Len(s) + 1
        /\ Append(s, j)[Len(s) + 1] = j /\ \A i \in 1 .. Len(s) : Append(s, j)[i] = s[i]
    BY SeqAppend
  <2>2. Len(s) \in Nat
    BY SeqLen
  <2> QED
    BY <2>1, <2>2, Zenon
<1>3. pending_commands' = t
  BY <1>1, <1>2 DEF QueueCommand
<1>4. \A i : i \in 1 .. Len(t) <=> i \in 1 .. Len(s) \/ i = Len(s) + 1
  BY ONLY <1>2
<1>5. PendingIds = {s[i].id : i \in 1 .. Len(s)} /\ PendingIds' = {t[i].id : i \in 1 .. Len(t)}
  BY <1>1, <1>3 DEF PendingIds
<1> QED
  BY <1>1, <1>2, <1>4, <1>5

\* A pending command is taken.
LEMMA PendingLess ==
  ASSUME TypeOK, Arrived, NEW n \in 1 .. Len(pending_commands),
         pending_commands' = Erased(pending_commands, n)
  PROVE  /\ PendingIds' = PendingIds \ {pending_commands[n].id}
         /\ pending_commands[n].id \in PendingIds
<1>1. PICK s \in Seq(Job) : s = pending_commands
  BY DEF TypeOK
<1>2. /\ Len(s) \in Nat /\ n \in 1 .. Len(s)
      /\ \A i \in 1 .. Len(s) : s[i].id \in Int
  <2>1. \A j \in Job : j.id \in Int
    BY ThreadsAssumption DEF Job
  <2>2. Len(s) \in Nat /\ \A i \in 1 .. Len(s) : s[i] \in Job
    BY SeqLen
  <2> QED
    BY <1>1, <2>1, <2>2
<1>3. PICK t : t = Erased(s, n) /\ t = pending_commands'
  BY <1>1
<1>4. Len(t) = Len(s) - 1 /\ \A i \in 1 .. Len(s) - 1 : t[i] = s[IF i < n THEN i ELSE i + 1]
  BY <1>2, <1>3, ErasedAt
<1>5. PendingIds = {s[i].id : i \in 1 .. Len(s)} /\ PendingIds' = {t[i].id : i \in 1 .. Len(t)}
  BY <1>1, <1>3 DEF PendingIds
<1>6. \A i \in 1 .. Len(s) : i # n => s[i].id # s[n].id
  <2>1. \A i, k \in 1 .. Len(s) : i < k => s[i].id < s[k].id
    BY <1>1 DEF Arrived
  <2>2. ASSUME NEW i \in 1 .. Len(s), i # n PROVE s[i].id # s[n].id
    <3>1. i < n \/ n < i
      BY <1>2, <2>2
    <3>2. s[i].id < s[n].id \/ s[n].id < s[i].id
      BY <1>2, <2>1, <3>1
    <3> QED
      BY <1>2, <3>2
  <2> QED
    BY <2>2
<1>7. ASSUME NEW i \in 1 .. Len(t) PROVE \E k \in 1 .. Len(s) : k # n /\ t[i] = s[k]
  <2>1. i \in 1 .. Len(s) - 1
    BY <1>4
  <2>2. /\ (IF i < n THEN i ELSE i + 1) \in 1 .. Len(s)
        /\ (IF i < n THEN i ELSE i + 1) # n
    BY ONLY <1>2, <2>1
  <2> QED
    BY <1>4, <2>1, <2>2, Zenon
<1>8. ASSUME NEW k \in 1 .. Len(s), k # n PROVE \E i \in 1 .. Len(t) : t[i] = s[k]
  <2>1. PICK i : i = IF k < n THEN k ELSE k - 1
    OBVIOUS
  <2>2. i \in 1 .. Len(s) - 1 /\ (IF i < n THEN i ELSE i + 1) = k
    BY ONLY <1>2, <1>8, <2>1
  <2>3. i \in 1 .. Len(t) /\ t[i] = s[k]
    BY <1>4, <2>2
  <2> QED
    BY <2>3
<1>9. ASSUME NEW x
      PROVE  x \in PendingIds' <=> x \in PendingIds /\ x # s[n].id
  <2>1. /\ x \in PendingIds' <=> \E i \in 1 .. Len(t) : x = t[i].id
        /\ x \in PendingIds <=> \E i \in 1 .. Len(s) : x = s[i].id
    BY <1>5
  <2>2. ASSUME x \in PendingIds' PROVE x \in PendingIds /\ x # s[n].id
    <3>1. PICK i \in 1 .. Len(t) : x = t[i].id
      BY <2>1, <2>2
    <3>2. PICK k \in 1 .. Len(s) : k # n /\ t[i] = s[k]
      BY <1>7
    <3> QED
      BY <1>6, <2>1, <3>1, <3>2
  <2>3. ASSUME x \in PendingIds, x # s[n].id PROVE x \in PendingIds'
    <3>1. PICK k \in 1 .. Len(s) : x = s[k].id
      BY <2>1, <2>3
    <3>2. PICK i \in 1 .. Len(t) : t[i] = s[k]
      BY <1>8, <2>3, <3>1
    <3> QED
      BY <2>1, <3>1, <3>2
  <2> QED
    BY <2>2, <2>3
<1>10. s[n].id \in PendingIds
  BY <1>2, <1>5
<1> QED
  BY <1>1, <1>9, <1>10

\* The next id is a new one.
LEMMA NewId ==
  ASSUME TypeOK, PlacesInv
  PROVE  /\ next_job \notin Submitted /\ next_job \notin LoadedIds /\ next_job \notin QueuedIds
         /\ next_job' = next_job + 1 => Submitted' = Submitted \cup {next_job}
<1>1. next_job \in Nat \ {0}
  BY ThreadsAssumption DEF TypeOK
<1>2. next_job \notin Submitted
  BY <1>1 DEF Submitted
<1>3. next_job \notin LoadedIds /\ next_job \notin QueuedIds
  BY <1>2 DEF PlacesInv, Partition
<1>4. ASSUME next_job' = next_job + 1 PROVE Submitted' = Submitted \cup {next_job}
  BY <1>1, <1>4 DEF Submitted
<1> QED
  BY <1>2, <1>3, <1>4

\* A job is queued.
LEMMA QueuePlaces ==
  ASSUME TypeOK, PlacesInv, NEW q \in DOMAIN jobs, NEW k, k \in {"command", "job", "completion"},
         QueueJob(q, k), Holding' = Holding, \A w \in Holding : run'[w] = run[w],
         UNCHANGED <<pending_commands, executed, dropped>>
  PROVE  PlacesInv'
<1>1. /\ next_job \notin Submitted /\ next_job \notin QueuedIds
      /\ Submitted' = Submitted \cup {next_job}
  BY NewId DEF QueueJob
<1>2. QueuedIds' = QueuedIds \cup {next_job} /\ QueuedOnce'
  BY <1>1, QueueOneMore DEF PlacesInv
<1>3. LoadedIds' = LoadedIds /\ LoadedOnce'
  BY LoadedSame DEF PlacesInv
<1>4. PendingIds' = PendingIds
  BY DEF PendingIds
<1>5. Partition(PendingIds, QueuedIds \cup {next_job}, LoadedIds, executed, dropped,
                Submitted \cup {next_job})
  BY <1>1, Added DEF PlacesInv
<1> QED
  BY <1>1, <1>2, <1>3, <1>4, <1>5 DEF PlacesInv

\* A command is run, queued or dropped.
LEMMA SubmitPlaces ==
  ASSUME PoolInv, PlacesInv, NEW c \in Category, SubmitCommand(c)
  PROVE  PlacesInv'
<1>0. TypeOK /\ ExchangeInv
  BY DEF PoolInv
<1>1. /\ next_job \notin Submitted /\ next_job \notin LoadedIds
      /\ Submitted' = Submitted \cup {next_job} /\ next_job <= MaxJobs
  BY <1>0, NewId DEF SubmitCommand
<1>2. /\ QueuedIds' = QueuedIds /\ QueuedOnce' /\ executed' = executed /\ tagged' = tagged
  BY DEF SubmitCommand, QueuedIds, QueuedOnce, PlacesInv
<1> DEFINE P == PendingIds  Q == QueuedIds  L == LoadedIds  S == Submitted \cup {next_job}
<1>3. /\ Partition(P \cup {next_job}, Q, L, executed, dropped, S)
      /\ Partition(P, Q, L \cup {next_job}, executed, dropped, S)
      /\ Partition(P, Q, L, executed, dropped \cup {next_job}, S)
  BY <1>1, Added DEF PlacesInv
<1>4. CASE Dispatch(NewJob(c, "command")) /\ UNCHANGED <<pending_commands, dropped>>
  <2>1. NewJob(c, "command").id = next_job
    BY DEF NewJob
  <2>2. LoadedIds' = LoadedIds \cup {next_job} /\ LoadedOnce'
    BY <1>0, <1>1, <1>2, <1>4, <2>1, DispatchLoaded DEF PlacesInv
  <2>3. PendingIds' = PendingIds
    BY <1>4 DEF PendingIds
  <2> QED
    BY <1>1, <1>2, <1>3, <1>4, <2>2, <2>3 DEF PlacesInv
<1>5. ASSUME UNCHANGED <<poolVars, threadVars>>
      PROVE  LoadedIds' = LoadedIds /\ LoadedOnce'
  <2>1. Holding' = Holding /\ run' = run
    BY <1>2, <1>5 DEF Holding, Threads, Workers
  <2> QED
    BY <2>1, LoadedSame DEF PlacesInv
<1>6. CASE QueueCommand(c) /\ UNCHANGED <<poolVars, threadVars, dropped>>
  <2>1. PendingIds' = PendingIds \cup {next_job}
    BY <1>0, <1>1, <1>6, PendingMore
  <2> QED
    BY <1>1, <1>2, <1>3, <1>5, <1>6, <2>1 DEF PlacesInv
<1>7. CASE /\ dropped' = dropped \cup {next_job}
           /\ UNCHANGED <<poolVars, threadVars, pending_commands>>
  <2>1. PendingIds' = PendingIds
    BY <1>7 DEF PendingIds
  <2> QED
    BY <1>1, <1>2, <1>3, <1>5, <1>7, <2>1 DEF PlacesInv
<1> QED
  BY <1>4, <1>6, <1>7 DEF SubmitCommand

\* A pending command is run.
LEMMA PendingPlaces ==
  ASSUME PoolInv, Arrived, PlacesInv, RunPending
  PROVE  PlacesInv'
<1>0. TypeOK /\ ExchangeInv
  BY DEF PoolInv
<1>1. /\ UNCHANGED <<tagged, jobs, next_job, executed, dropped>>
      /\ it \in 1 .. Len(pending_commands)
  BY <1>0 DEF RunPending, TypeOK
<1>2. /\ QueuedIds' = QueuedIds /\ QueuedOnce' /\ Submitted' = Submitted
  BY <1>1 DEF QueuedIds, QueuedOnce, Submitted, PlacesInv
<1>3. CASE UNCHANGED <<poolVars, threadVars, pending_commands>>
  <2>1. Holding' = Holding /\ run' = run
    BY <1>1, <1>3 DEF Holding, Threads, Workers
  <2> QED
    BY <1>1, <1>3, <2>1, PlacesKept
<1>4. CASE /\ Dispatch(pending_commands[it])
           /\ pending_commands' = Erased(pending_commands, it)
  <2>1. PICK j : j = pending_commands[it]
    OBVIOUS
  <2>2. PendingIds' = PendingIds \ {j.id} /\ j.id \in PendingIds
    BY <1>0, <1>1, <1>4, <2>1, PendingLess
  <2>3. j.id \notin LoadedIds
    BY <2>2 DEF PlacesInv, Partition
  <2>4. LoadedIds' = LoadedIds \cup {j.id} /\ LoadedOnce'
    BY <1>0, <1>1, <1>4, <2>1, <2>3, DispatchLoaded DEF PlacesInv
  <2>5. {j.id} \subseteq PendingIds
    BY <2>2
  <2>6. Partition(PendingIds \ {j.id}, QueuedIds, LoadedIds \cup {j.id}, executed, dropped, Submitted)
    BY <2>5, Moved DEF PlacesInv
  <2> QED
    BY <1>1, <1>2, <2>2, <2>4, <2>6 DEF PlacesInv
<1> QED
  BY <1>3, <1>4 DEF RunPending, Erased

\* A batch job or a reply job is run.
LEMMA BatchPlaces ==
  ASSUME PoolInv, PlacesInv, NEW q \in {BATCH, REPLY}, proxy_run_batch_jobs(q)
  PROVE  PlacesInv'
<1>0. TypeOK /\ ExchangeInv /\ DOMAIN jobs = {BATCH, REPLY} \cup tagged
  BY DEF PoolInv, TypeOK
<1>1. UNCHANGED <<tagged, pending_commands, next_job, executed, dropped>>
  BY DEF proxy_run_batch_jobs
<1>2. PendingIds' = PendingIds /\ Submitted' = Submitted
  BY <1>1 DEF PendingIds, Submitted
<1>3. CASE UNCHANGED <<poolVars, threadVars, jobs>>
  <2>1. Holding' = Holding /\ run' = run
    BY <1>1, <1>3 DEF Holding, Threads, Workers
  <2> QED
    BY <1>1, <1>3, <2>1, PlacesKept
<1>4. CASE /\ jobs[q] # <<>> /\ Dispatch(Head(jobs[q]))
           /\ jobs' = [jobs EXCEPT ![q] = Tail(@)]
  <2>1. PICK j : j = Head(jobs[q])
    OBVIOUS
  <2> DEFINE R == {q}
  <2>2. /\ R \in SUBSET DOMAIN jobs /\ \A r \in R : jobs[r] # <<>>
        /\ jobs' = [r \in DOMAIN jobs |-> IF r \in R THEN Tail(jobs[r]) ELSE jobs[r]]
        /\ {Head(jobs[r]).id : r \in R} = {j.id}
    BY <1>0, <1>4, <2>1
  <2> HIDE DEF R
  <2>3. /\ QueuedIds' = QueuedIds \ {Head(jobs[r]).id : r \in R} /\ QueuedOnce'
        /\ {Head(jobs[r]).id : r \in R} \subseteq QueuedIds
    BY <1>0, <2>2, QueueHeadsTaken DEF PlacesInv
  <2>4. QueuedIds' = QueuedIds \ {j.id} /\ {j.id} \subseteq QueuedIds
    BY <2>2, <2>3
  <2>5. j.id \notin LoadedIds
    BY <2>4 DEF PlacesInv, Partition
  <2>6. LoadedIds' = LoadedIds \cup {j.id} /\ LoadedOnce'
    BY <1>0, <1>1, <1>4, <2>1, <2>5, DispatchLoaded DEF PlacesInv
  <2>7. Partition(PendingIds, QueuedIds \ {j.id}, LoadedIds \cup {j.id}, executed, dropped, Submitted)
    BY <2>4, Moved DEF PlacesInv
  <2> QED
    BY <1>1, <1>2, <2>3, <2>4, <2>6, <2>7 DEF PlacesInv
<1> QED
  BY <1>3, <1>4 DEF proxy_run_batch_jobs

\* The tagged threads take their next jobs.
LEMMA TaggedPlaces ==
  ASSUME PoolInv, TagInv, PlacesInv, RunTagged
  PROVE  PlacesInv'
<1>0. /\ TypeOK /\ Ready \in SUBSET DOMAIN jobs /\ \A t \in Ready : jobs[t] # <<>>
  BY DEF PoolInv, TypeOK, Ready
<1>1. /\ UNCHANGED <<pending_commands, next_job, executed, dropped>>
      /\ jobs' = [q \in DOMAIN jobs |-> IF q \in Ready THEN Tail(jobs[q]) ELSE jobs[q]]
  BY DEF RunTagged
<1>2. PendingIds' = PendingIds /\ Submitted' = Submitted
  BY <1>1 DEF PendingIds, Submitted
<1> DEFINE M == {Head(jobs[t]).id : t \in Ready}
<1>3. /\ QueuedIds' = QueuedIds \ M /\ QueuedOnce' /\ M \subseteq QueuedIds
      /\ \A t, u \in Ready : Head(jobs[t]).id = Head(jobs[u]).id => t = u
  BY <1>0, <1>1, QueueHeadsTaken DEF PlacesInv
<1>4. /\ Holding' = Holding \cup Ready /\ \A t \in Ready : t \notin Holding
      /\ \A t \in Ready : run'[t] = Head(jobs[t])
      /\ \A w \in Holding : run'[w] = run[w]
  BY TaggedHolds
<1>5. \A t \in Ready : Head(jobs[t]).id \notin LoadedIds
  BY <1>3 DEF PlacesInv, Partition
<1>6. /\ \A t, u \in Ready : run'[t].id = run'[u].id => t = u
      /\ \A t \in Ready : run'[t].id \notin LoadedIds
  BY <1>3, <1>4, <1>5
<1>7. LoadedIds' = LoadedIds \cup {run'[w].id : w \in Ready} /\ LoadedOnce'
  BY <1>4, <1>6, LoadedMore DEF PlacesInv
<1>8. {run'[w].id : w \in Ready} = M
  BY <1>4
<1> HIDE DEF M
<1>9. Partition(PendingIds, QueuedIds \ M, LoadedIds \cup M, executed, dropped, Submitted)
  BY <1>3, Moved DEF PlacesInv
<1> QED
  BY <1>1, <1>2, <1>3, <1>7, <1>8, <1>9 DEF PlacesInv

\* A thread runs its job.
LEMMA RanPlaces ==
  ASSUME PoolInv, TagInv, PlacesInv, NEW w \in Threads, WorkerRan(w)
  PROVE  PlacesInv'
<1>1. /\ UNCHANGED <<pending_commands, jobs, next_job, dropped>>
      /\ executed' = executed \cup {run[w].id}
  BY DEF WorkerRan
<1>2. /\ PendingIds' = PendingIds /\ Submitted' = Submitted
      /\ QueuedIds' = QueuedIds /\ QueuedOnce'
  BY <1>1 DEF PendingIds, Submitted, QueuedIds, QueuedOnce, PlacesInv
<1>3. LoadedIds' = LoadedIds \ {run[w].id} /\ LoadedOnce' /\ {run[w].id} \subseteq LoadedIds
  BY RanHolds, LoadedLess DEF PlacesInv
<1>4. Partition(PendingIds, QueuedIds, LoadedIds \ {run[w].id}, executed \cup {run[w].id}, dropped,
                Submitted)
  BY <1>3, Moved DEF PlacesInv
<1> QED
  BY <1>1, <1>2, <1>3, <1>4 DEF PlacesInv

\* A tagged thread is added, with a queue that is empty.
LEMMA AddedPlaces ==
  ASSUME PoolInv, TagInv, PlacesInv, NEW t \in Tagged, add_tagged_thread(t)
  PROVE  PlacesInv'
<1>0. TypeOK /\ DOMAIN jobs = {BATCH, REPLY} \cup tagged /\ t \notin DOMAIN jobs
  BY ClassAssumption DEF PoolInv, TypeOK, add_tagged_thread, Class
<1>1. UNCHANGED <<pending_commands, next_job, executed, dropped>> /\ jobs' = Put(jobs, t, <<>>)
  BY DEF add_tagged_thread
<1>2. PendingIds' = PendingIds /\ Submitted' = Submitted
  BY <1>1 DEF PendingIds, Submitted
<1>3. Holding = {} /\ Holding' = {}
  BY SetupHolds DEF Setup
<1>4. LoadedIds' = LoadedIds /\ LoadedOnce'
  BY <1>3 DEF LoadedIds, LoadedOnce
<1>5. /\ DOMAIN jobs' = DOMAIN jobs \cup {t}
      /\ \A q \in DOMAIN jobs : jobs'[q] = jobs[q]
      /\ \A i : i \notin 1 .. Len(jobs'[t])
  <2>1. jobs' = Put(jobs, t, <<>>)
    BY <1>1
  <2>2. jobs'[t] = <<>>
    BY <2>1 DEF Put
  <2>3. \A i : i \notin 1 .. Len(<<>>)
    OBVIOUS
  <2> QED
    BY <1>0, <2>1, <2>2, <2>3 DEF Put
<1>6. QueuedOnce'
  <2> SUFFICES ASSUME NEW q \in DOMAIN jobs', NEW r \in DOMAIN jobs',
                      NEW i \in 1 .. Len(jobs'[q]), NEW k \in 1 .. Len(jobs'[r]),
                      jobs'[q][i].id = jobs'[r][k].id
               PROVE  q = r /\ i = k
    BY DEF QueuedOnce
  <2>1. q \in DOMAIN jobs /\ r \in DOMAIN jobs
    BY <1>5
  <2>2. jobs'[q] = jobs[q] /\ jobs'[r] = jobs[r]
    BY <1>5, <2>1
  <2> QED
    BY <2>1, <2>2, QueuedAt DEF PlacesInv
<1>7. QueuedIds' = QueuedIds
  <2>1. ASSUME NEW x PROVE x \in QueuedIds' <=> x \in QueuedIds
    <3>1. x \in QueuedIds' <=> \E q \in DOMAIN jobs' : \E i \in 1 .. Len(jobs'[q]) : x = jobs'[q][i].id
      BY DEF QueuedIds
    <3>2. x \in QueuedIds <=> \E q \in DOMAIN jobs : \E i \in 1 .. Len(jobs[q]) : x = jobs[q][i].id
      BY DEF QueuedIds
    <3> QED
      BY <1>5, <3>1, <3>2
  <2> QED
    BY <2>1
<1> QED
  BY <1>1, <1>2, <1>4, <1>6, <1>7 DEF PlacesInv

\* Whatever the proxy, the threads and those who ask do, each job submitted is in
\* one place.
LEMMA PlacesStep ==
  ASSUME QueueInv, PlacesInv, [Next]_vars
  PROVE  PlacesInv'
<1>0. PoolInv /\ TagInv /\ Arrived /\ TypeOK /\ DOMAIN jobs = {BATCH, REPLY} \cup tagged
  BY DEF QueueInv, OrderInv, PoolInv, TypeOK
<1>1. ASSUME UNCHANGED <<nworkers, tagged, run, pc, to_worker>>
      PROVE  Holding' = Holding /\ \A w \in Holding : run'[w] = run[w]
  BY <1>1 DEF Holding, Threads, Workers
<1>2. CASE UNCHANGED vars \/ Stopped \/ LoopTop \/ PhaseDone \/ PendingDone
  <2>1. /\ UNCHANGED <<nworkers, tagged, run, pc, to_worker>>
        /\ UNCHANGED <<pending_commands, jobs, next_job, executed, dropped>>
    BY <1>2 DEF vars, Stopped, LoopTop, PhaseDone, PendingDone
  <2> QED
    BY <1>1, <2>1, PlacesKept
<1>3. CASE \/ start \/ Abandon \/ ReserveDone \/ StartTagged \/ AbandonJoin
           \/ \E c \in Category : ReserveCategory(c)
           \/ \E t \in Tagged : AbandonQuit(t)
  <2>1. UNCHANGED <<pending_commands, jobs, next_job, executed, dropped>>
    BY <1>3 DEF start, Abandon, ReserveDone, StartTagged, AbandonJoin, ReserveCategory, AbandonQuit
  <2>2. Holding = {} /\ Holding' = {}
    BY <1>0, <1>3, SetupHolds DEF Setup
  <2> QED
    BY <2>1, <2>2, PlacesKept
<1>4. CASE Quit \/ \E w \in Threads : proxy_worker_QUITTING(w) \/ WorkerStarting(w) \/ worker_wait_for(w)
  <2>1. UNCHANGED <<pending_commands, jobs, next_job, executed, dropped>>
    BY <1>4 DEF Quit, proxy_worker_QUITTING, WorkerStarting, worker_wait_for
  <2>2. Holding' = Holding /\ \A w \in Holding : run'[w] = run[w]
    BY <1>0, <1>4, QuietHolds
  <2> QED
    BY <2>1, <2>2, PlacesKept
<1>5. ASSUME NEW w \in Threads, proxy_worker_RAN(w) PROVE PlacesInv'
  <2>1. UNCHANGED <<pending_commands, executed, dropped>>
    BY <1>5 DEF proxy_worker_RAN
  <2>2. Holding' = Holding /\ \A u \in Holding : run'[u] = run[u]
    BY <1>0, <1>5, QuietHolds
  <2>3. CASE UNCHANGED <<jobs, next_job>>
    BY <2>1, <2>2, <2>3, PlacesKept
  <2>4. CASE \E q \in tagged \cup {BATCH} : QueueJob(q, "completion")
    <3>1. PICK q \in DOMAIN jobs : QueueJob(q, "completion")
      BY <1>0, <2>4
    <3> QED
      BY <1>0, <2>1, <2>2, <3>1, QueuePlaces
  <2> QED
    BY <1>5, <2>3, <2>4 DEF proxy_worker_RAN, JobFinished
<1>6. CASE \/ \E q \in {BATCH} \cup Tagged : proxy_batch(q) \/ queue_timer_job(q)
           \/ proxy_schedule_reply_job
  <2>1. PICK q \in DOMAIN jobs : QueueJob(q, "job")
    BY <1>0, <1>6 DEF proxy_batch, queue_timer_job, proxy_schedule_reply_job
  <2>2. /\ UNCHANGED <<nworkers, tagged, run, pc, to_worker>>
        /\ UNCHANGED <<pending_commands, executed, dropped>>
    BY <1>6 DEF proxy_batch, queue_timer_job, proxy_schedule_reply_job
  <2>3. Holding' = Holding /\ \A w \in Holding : run'[w] = run[w]
    BY <1>1, <2>2
  <2> QED
    BY <1>0, <2>1, <2>2, <2>3, QueuePlaces
<1>7. CASE \E c \in Category : proxy_inject_task(c) \/ proxy_to_worker(c)
  BY <1>0, <1>7, SubmitPlaces DEF proxy_inject_task, proxy_to_worker
<1>8. CASE RunPending
  BY <1>0, <1>8, PendingPlaces
<1>9. CASE \E q \in {BATCH, REPLY} : proxy_run_batch_jobs(q)
  BY <1>0, <1>9, BatchPlaces
<1>10. CASE RunTagged
  BY <1>0, <1>10, TaggedPlaces
<1>11. CASE \E w \in Threads : WorkerRan(w)
  BY <1>0, <1>11, RanPlaces
<1>12. CASE \E t \in Tagged : add_tagged_thread(t)
  BY <1>0, <1>12, AddedPlaces
<1> QED
  BY <1>2, <1>3, <1>4, <1>5, <1>6, <1>7, <1>8, <1>9, <1>10, <1>11, <1>12
  DEF Next, Setup, Request, Proxy, Worker

\* A job in one place is in one position of it.
LEMMA OnePlace ==
  ASSUME QueueInv, PlacesInv, NEW j \in Submitted
  PROVE  Cardinality(Places(j)) = 1
<1>0. /\ TypeOK /\ Arrived
      /\ DOMAIN pending_commands = 1 .. Len(pending_commands)
      /\ \A q \in DOMAIN jobs : DOMAIN jobs[q] = 1 .. Len(jobs[q])
  BY DEF QueueInv, OrderInv, PoolInv, TypeOK
<1> DEFINE P == {<<"pending", i>> : i \in {i \in DOMAIN pending_commands : pending_commands[i].id = j}}
           Q == UNION {{<<q, i>> : i \in {i \in DOMAIN jobs[q] : jobs[q][i].id = j}} : q \in DOMAIN jobs}
           L == {<<"run", w>> : w \in {w \in Threads : /\ run[w].id = j
                                                       /\ \/ pc[w] = "running"
                                                          \/ "RUN" \in Range(to_worker[w])}}
           E == {<<"executed", j>> : i \in executed \cap {j}}
           D == {<<"dropped", j>> : i \in dropped \cap {j}}
<1>1. Places(j) = P \cup Q \cup L \cup E \cup D
  BY DEF Places
<1>2. /\ j \notin PendingIds => P = {}
      /\ j \in PendingIds => \E x : P = {x}
  <2>1. ASSUME j \notin PendingIds PROVE P = {}
    BY <1>0, <2>1 DEF PendingIds
  <2>2. ASSUME j \in PendingIds PROVE \E x : P = {x}
    <3>1. PICK n \in 1 .. Len(pending_commands) : pending_commands[n].id = j
      BY <2>2 DEF PendingIds
    <3>2. ASSUME NEW i \in 1 .. Len(pending_commands), pending_commands[i].id = j PROVE i = n
      <4>1. i < n => pending_commands[i].id < pending_commands[n].id
        BY <1>0 DEF Arrived
      <4>2. n < i => pending_commands[n].id < pending_commands[i].id
        BY <1>0 DEF Arrived
      <4>3. j \in Int
        BY DEF Submitted
      <4> QED
        BY <3>1, <3>2, <4>1, <4>2, <4>3
    <3>3. {i \in DOMAIN pending_commands : pending_commands[i].id = j} = {n}
      BY <1>0, <3>1, <3>2
    <3>4. P = {<<"pending", n>>}
      BY <3>3
    <3> QED
      BY <3>4
  <2> QED
    BY <2>1, <2>2
<1>3. /\ j \notin QueuedIds => Q = {}
      /\ j \in QueuedIds => \E x : Q = {x}
  <2>1. ASSUME NEW x
        PROVE  x \in Q <=> \E q \in DOMAIN jobs : \E i \in 1 .. Len(jobs[q]) :
                             jobs[q][i].id = j /\ x = <<q, i>>
    BY <1>0
  <2>2. j \in QueuedIds <=> \E q \in DOMAIN jobs : \E i \in 1 .. Len(jobs[q]) : j = jobs[q][i].id
    BY DEF QueuedIds
  <2> HIDE DEF Q
  <2>3. ASSUME j \notin QueuedIds PROVE Q = {}
    BY <2>1, <2>2, <2>3
  <2>4. ASSUME j \in QueuedIds PROVE \E x : Q = {x}
    <3>0. PICK q \in DOMAIN jobs : \E i \in 1 .. Len(jobs[q]) : j = jobs[q][i].id
      BY <2>2, <2>4
    <3>1. PICK i \in 1 .. Len(jobs[q]) : j = jobs[q][i].id
      BY <3>0
    <3>2. \A r \in DOMAIN jobs : \A k \in 1 .. Len(jobs[r]) : jobs[r][k].id = j => q = r /\ i = k
      BY <3>1 DEF PlacesInv, QueuedOnce
    <3>3. ASSUME NEW x \in Q PROVE x = <<q, i>>
      <4>1. PICK r \in DOMAIN jobs : \E k \in 1 .. Len(jobs[r]) : jobs[r][k].id = j /\ x = <<r, k>>
        BY <2>1, <3>3
      <4>2. PICK k \in 1 .. Len(jobs[r]) : jobs[r][k].id = j /\ x = <<r, k>>
        BY <4>1
      <4> QED
        BY <3>2, <4>2
    <3>4. <<q, i>> \in Q
      BY <2>1, <3>1
    <3>5. Q = {<<q, i>>}
      BY <3>3, <3>4
    <3> QED
      BY <3>5
  <2> QED
    BY <2>3, <2>4
<1>4. /\ j \notin LoadedIds => L = {}
      /\ j \in LoadedIds => \E x : L = {x}
  <2>1. L = {<<"run", w>> : w \in {w \in Holding : run[w].id = j}}
    BY DEF Holding, Holds
  <2> HIDE DEF L
  <2>2. ASSUME j \notin LoadedIds PROVE L = {}
    BY <2>1, <2>2 DEF LoadedIds
  <2>3. ASSUME j \in LoadedIds PROVE \E x : L = {x}
    <3>1. PICK w \in Holding : run[w].id = j
      BY <2>3 DEF LoadedIds
    <3>2. {u \in Holding : run[u].id = j} = {w}
      BY <3>1 DEF PlacesInv, LoadedOnce
    <3>3. L = {<<"run", w>>}
      BY <2>1, <3>2
    <3> QED
      BY <3>3
  <2> QED
    BY <2>2, <2>3
<1>5. /\ j \notin executed => E = {}
      /\ j \in executed => E = {<<"executed", j>>}
      /\ j \notin dropped => D = {}
      /\ j \in dropped => D = {<<"dropped", j>>}
  OBVIOUS
<1> HIDE DEF P, Q, L, E, D
<1>6. \/ j \in PendingIds /\ j \notin QueuedIds /\ j \notin LoadedIds /\ j \notin executed /\ j \notin dropped
      \/ j \notin PendingIds /\ j \in QueuedIds /\ j \notin LoadedIds /\ j \notin executed /\ j \notin dropped
      \/ j \notin PendingIds /\ j \notin QueuedIds /\ j \in LoadedIds /\ j \notin executed /\ j \notin dropped
      \/ j \notin PendingIds /\ j \notin QueuedIds /\ j \notin LoadedIds /\ j \in executed /\ j \notin dropped
      \/ j \notin PendingIds /\ j \notin QueuedIds /\ j \notin LoadedIds /\ j \notin executed /\ j \in dropped
  BY DEF PlacesInv, Partition
<1>7. \E x : Places(j) = {x}
  BY <1>1, <1>2, <1>3, <1>4, <1>5, <1>6
<1> QED
  BY <1>7, FS_Singleton

\* No job is lost, run twice, or run and also kept: for any number of threads and
\* jobs, each job submitted is in one queue position, on one thread, run, or dropped.
THEOREM JobsInOnePlace == Spec => []EachJobInOnePlace
<1>1. Init => PlacesInv
  <2> SUFFICES ASSUME Init PROVE PlacesInv
    OBVIOUS
  <2>1. /\ next_job = 1 /\ executed = {} /\ dropped = {} /\ pending_commands = <<>>
        /\ nworkers = 0 /\ tagged = {} /\ jobs = [q \in {BATCH, REPLY} |-> <<>>]
    BY DEF Init
  <2>2. Holding = {} /\ Submitted = {}
    BY <2>1 DEF Holding, Submitted, Threads, Workers
  <2>3. \A i : i \notin 1 .. Len(<<>>)
    OBVIOUS
  <2>4. \A q \in DOMAIN jobs : jobs[q] = <<>>
    BY <2>1
  <2>5. \A q \in DOMAIN jobs : \A i : i \notin 1 .. Len(jobs[q])
    BY <2>3, <2>4
  <2>6. PendingIds = {}
    BY <2>1, <2>3 DEF PendingIds
  <2>7. LoadedIds = {} /\ LoadedOnce
    BY <2>2 DEF LoadedIds, LoadedOnce
  <2>8. QueuedOnce
    BY <2>5 DEF QueuedOnce
  <2>9. QueuedIds = {}
    <3>1. ASSUME NEW x PROVE x \notin QueuedIds
      <4>1. x \in QueuedIds <=> \E q \in DOMAIN jobs : \E i \in 1 .. Len(jobs[q]) : x = jobs[q][i].id
        BY DEF QueuedIds
      <4> QED
        BY <2>5, <4>1
    <3> QED
      BY <3>1
  <2> QED
    BY <2>1, <2>2, <2>6, <2>7, <2>8, <2>9 DEF PlacesInv, Partition
<1>2. QueueInv /\ PlacesInv /\ [Next]_vars => PlacesInv'
  BY PlacesStep
<1>3. QueueInv /\ PlacesInv => EachJobInOnePlace
  BY OnePlace DEF EachJobInOnePlace, Submitted
<1> QED
  BY <1>1, <1>2, <1>3, QueueInvariant, PTL DEF Spec
=============================================================================
