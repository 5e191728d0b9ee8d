---------------------------- MODULE QueueProofs ----------------------------
(***************************************************************************)
(* The tagged threads are in step with the proxy (TagInv), no command that *)
(* could run is left behind in pending_commands (OrderInv), the counters   *)
(* of the queues are exact (QueuedInv): all on top of the exchange between *)
(* the proxy and its threads (ExchangeInv).                                *)
(***************************************************************************)
EXTENDS WorkerPoolProofs

\* The order in which the provers are tried.
USE ZenonT(2), SMTT(20)

USE DEF proxyVars, poolVars, tagVars, queueVars, threadVars, jobVars

-----------------------------------------------------------------------------
(* The inductive invariants.                                               *)

\* A tagged thread that has not taken START yet has what follows it behind it.
TagWorking(t) == Working(t) \/ State(t) = <<"starting", <<"START", "RUN">>, <<>>>>
TagResting(t) == Resting(t) \/ State(t) = <<"starting", <<"START">>, <<>>>>
TagGone(t) == Gone(t) \/ State(t) = <<"starting", <<"START", "QUIT">>, <<>>>>

\* Before START, and when the object is destroyed without a start.
Early(t) == \/ State(t) = <<"connecting", <<>>, <<>>>>
            \/ State(t) = <<"starting", <<>>, <<"STARTING">>>>
TurnedAway(t) == \/ State(t) = <<"starting", <<"QUIT">>, <<"STARTING">>>>
                 \/ State(t) = <<"exited", <<>>, <<"STARTING", "QUITTING">>>>

InStep(t) ==
  /\ phase \in {"setup", "reserve", "starting"} => ~busy[t] /\ Early(t)
  /\ phase = "abandon" => ~busy[t] /\ (Early(t) \/ TurnedAway(t))
  /\ Started /\ busy[t] => TagWorking(t)
  /\ Started /\ ~busy[t] => TagResting(t) \/ (max_workers = 0 /\ TagGone(t))

TagInv ==
  /\ phase \in {"tagged", "batch", "reply", "commands"} => max_workers # 0
  /\ \A t \in tagged : InStep(t)

\* pending_commands is in the order of arrival; nothing waits before the start.
Arrived ==
  /\ ~Started => pending_commands = <<>>
  /\ \A i \in 1 .. Len(pending_commands) : pending_commands[i].id < next_job
  /\ \A i, k \in 1 .. Len(pending_commands) :
       i < k => pending_commands[i].id < pending_commands[k].id

\* What proxy_process_queue has passed over could not run, and still cannot.
PassedOver ==
  phase = "commands" =>
    \A i \in 1 .. Len(pending_commands) : i < it => ~HasRoom(pending_commands[i].cls)

OrderInv == Arrived /\ PassedOver /\ NoCommandOverlooked

\* The positions of the elements of class c.
Where(s, c) == {i \in 1 .. Len(s) : s[i].cls = c}

QueuedInv ==
  \A c \in Category :
    /\ queued[c] = Cardinality(Where(pending_commands, c))
    /\ cat_max_queue[c] >= 0 => queued[c] <= cat_max_queue[c]

-----------------------------------------------------------------------------
(* The tagged threads.                                                     *)

\* Sequences with the same elements are equal.
LEMMA SeqEqual ==
  ASSUME NEW S, NEW s \in Seq(S), NEW t \in Seq(S), Len(s) = Len(t),
         \A i \in 1 .. Len(s) : s[i] = t[i]
  PROVE  s = t
OBVIOUS

\* Sequences of one and of two messages.
LEMMA MessagesType ==
  ASSUME NEW S, NEW a \in S, NEW b \in S
  PROVE  /\ <<a>> \in Seq(S) /\ Len(<<a>>) = 1 /\ <<a>>[1] = a
         /\ <<a, b>> \in Seq(S) /\ Len(<<a, b>>) = 2 /\ <<a, b>>[1] = a /\ <<a, b>>[2] = b
OBVIOUS

\* A message behind another.
LEMMA MessageBehind ==
  ASSUME NEW S, NEW a \in S, NEW b \in S
  PROVE  Append(<<a>>, b) = <<a, b>>
<1>1. PICK r \in Seq(S) : r = <<a>> /\ Len(r) = 1 /\ r[1] = a
  BY MessagesType
<1>2. PICK s \in Seq(S) : s = Append(r, b) /\ Len(s) = 2 /\ s[1] = a /\ s[2] = b
  <2>1. /\ Append(r, b) \in Seq(S) /\ Len(Append(r, b)) = Len(r) + 1
        /\ \A i \in 1 .. Len(r) : Append(r, b)[i] = r[i]
        /\ Append(r, b)[Len(r) + 1] = b
    BY ONLY r \in Seq(S), b \in S, SeqAppend
  <2>2. PICK s : s = Append(r, b)
    OBVIOUS
  <2>3. s \in Seq(S) /\ Len(s) = 2 /\ s[1] = a /\ s[2] = b
    BY ONLY <1>1, <2>1, <2>2
  <2> QED
    BY <2>2, <2>3
<1>3. PICK u \in Seq(S) : u = <<a, b>> /\ Len(u) = 2 /\ u[1] = a /\ u[2] = b
  <2>1. <<a, b>> \in Seq(S) /\ Len(<<a, b>>) = 2 /\ <<a, b>>[1] = a /\ <<a, b>>[2] = b
    BY MessagesType
  <2> QED
    BY <2>1, Zenon
<1>4. s = u
  <2>1. Len(s) = 2 /\ Len(u) = 2 /\ s[1] = u[1] /\ s[2] = u[2]
    BY <1>2, <1>3, Zenon
  <2>2. Len(s) = Len(u) /\ \A i \in 1 .. Len(s) : s[i] = u[i]
    BY ONLY <2>1
  <2> QED
    BY ONLY <2>2, s \in Seq(S), u \in Seq(S), SeqEqual
<1> QED
  BY <1>1, <1>2, <1>3, <1>4

\* Taking the first of two messages.
LEMMA MessageTaken ==
  ASSUME NEW S, NEW a \in S, NEW b \in S
  PROVE  Tail(<<a, b>>) = <<b>> /\ Head(<<a, b>>) = a
<1>1. PICK r \in Seq(S) : r = <<a, b>> /\ Len(r) = 2 /\ r[1] = a /\ r[2] = b
  <2>1. <<a, b>> \in Seq(S) /\ Len(<<a, b>>) = 2 /\ <<a, b>>[1] = a /\ <<a, b>>[2] = b
    BY MessagesType
  <2> QED
    BY <2>1, Zenon
<1>2. r # <<>>
  BY ONLY <1>1, r \in Seq(S), SeqEmpty
<1>3. PICK s \in Seq(S) : s = Tail(r) /\ Len(s) = 1 /\ s[1] = b
  <2>1. Tail(r) \in Seq(S)
    BY ONLY r \in Seq(S), <1>2
  <2>2. Len(Tail(r)) = Len(r) - 1
    BY ONLY r \in Seq(S), <1>2
  <2>3. \A i \in 1 .. Len(r) - 1 : Tail(r)[i] = r[i + 1]
    BY ONLY r \in Seq(S), <1>2
  <2>4. PICK s : s = Tail(r)
    OBVIOUS
  <2>5. s \in Seq(S) /\ Len(s) = 1 /\ s[1] = b
    BY ONLY <1>1, <2>1, <2>2, <2>3, <2>4
  <2> QED
    BY <2>4, <2>5
<1>4. PICK u \in Seq(S) : u = <<b>> /\ Len(u) = 1 /\ u[1] = b
  BY MessagesType
<1>5. s = u
  <2>1. Len(s) = 1 /\ Len(u) = 1 /\ s[1] = u[1]
    BY <1>3, <1>4, Zenon
  <2>2. Len(s) = Len(u) /\ \A i \in 1 .. Len(s) : s[i] = u[i]
    BY ONLY <2>1
  <2> QED
    BY ONLY <2>2, s \in Seq(S), u \in Seq(S), SeqEqual
<1>6. Head(r) = r[1]
  BY ONLY r \in Seq(S), <1>2
<1> QED
  BY <1>1, <1>3, <1>4, <1>5, <1>6

\* A step that leaves the tagged threads alone.
LEMMA TagFrame ==
  ASSUME TagInv, UNCHANGED <<tagged, busy, max_workers>>,
         \A t \in tagged : State(t)' = State(t),
         phase' = phase \/ (Started /\ Started'),
         phase' \in {"tagged", "batch", "reply", "commands"} => max_workers # 0
  PROVE  TagInv'
<1> SUFFICES ASSUME NEW t \in tagged PROVE InStep(t)'
  BY DEF TagInv
<1>1. InStep(t) /\ State(t)' = State(t) /\ (busy[t])' = busy[t]
  BY DEF TagInv
<1>2. /\ Early(t)' <=> Early(t)
      /\ TurnedAway(t)' <=> TurnedAway(t)
      /\ TagWorking(t)' <=> TagWorking(t)
      /\ TagResting(t)' <=> TagResting(t)
      /\ TagGone(t)' <=> TagGone(t)
  BY <1>1 DEF Early, TurnedAway, TagWorking, TagResting, TagGone, Working, Resting, Gone
<1>3. CASE phase' = phase
  BY <1>1, <1>2, <1>3 DEF InStep, Started
<1>4. CASE Started /\ Started'
  BY <1>1, <1>2, <1>4 DEF InStep, Started
<1> QED
  BY <1>3, <1>4

\* The thread that Dispatch takes is of the pool.
LEMMA DispatchPool ==
  ASSUME TypeOK, NEW j, Dispatch(j), UNCHANGED <<tagged, busy>>
  PROVE  \A t \in tagged : State(t)' = State(t) /\ run'[t] = run[t]
<1>1. PICK w : w = get_idle_worker
  OBVIOUS
<1>2. w \in Nat
  <2>1. nworkers \in Nat /\ idle_workers \in Seq(Workers) /\ Workers \subseteq Nat
    BY DEF TypeOK, Workers
  <2>2. CASE idle_workers = <<>>
    BY <1>1, <2>1, <2>2 DEF get_idle_worker
  <2>3. CASE idle_workers # <<>>
    BY <1>1, <2>1, <2>3, FrontType DEF get_idle_worker
  <2> QED
    BY <2>2, <2>3
<1>3. \A t \in tagged : t # w /\ t \in Threads
  BY <1>2, ClassAssumption DEF TypeOK, Threads
<1>4. DOMAIN pc = Threads /\ DOMAIN to_worker = Threads /\ DOMAIN to_proxy = Threads
      /\ DOMAIN run = Threads
  BY DEF TypeOK
<1>5. /\ run' = Put(run, w, j)
      /\ \/ to_worker' = Put(to_worker, w, Append(to_worker[w], "RUN")) /\ UNCHANGED <<pc, to_proxy>>
         \/ /\ pc' = Put(pc, w, "running") /\ to_worker' = Put(to_worker, w, <<>>)
            /\ to_proxy' = Put(to_proxy, w, <<>>)
  BY <1>1 DEF Dispatch, proxy_run_worker
<1>6. ASSUME NEW t \in tagged
      PROVE  State(t)' = State(t) /\ run'[t] = run[t]
  <2>1. /\ pc'[t] = pc[t] /\ to_worker'[t] = to_worker[t] /\ to_proxy'[t] = to_proxy[t]
        /\ run'[t] = run[t]
    BY <1>3, <1>4, <1>5 DEF Put
  <2> QED
    BY <2>1 DEF State
<1> QED
  BY <1>6

\* Setting up, starting, and destroying an object that was never started.
LEMMA TagSetup ==
  ASSUME TypeOK, LimitInv, TagInv,
         \/ Setup \/ ReserveDone \/ StartTagged \/ AbandonJoin
         \/ \E c \in Category : ReserveCategory(c)
         \/ \E t \in Tagged : AbandonQuit(t)
  PROVE  TagInv'
<1>0. /\ DOMAIN pc = Threads /\ DOMAIN to_worker = Threads /\ DOMAIN to_proxy = Threads
      /\ DOMAIN busy = tagged /\ tagged \subseteq Threads
  BY DEF TypeOK, Threads
<1>1. ASSUME phase \in {"setup", "reserve"}, phase' \in {"setup", "reserve", "starting", "abandon"},
             UNCHANGED <<tagged, busy, threadVars>>
      PROVE  TagInv'
  <2> SUFFICES ASSUME NEW t \in tagged PROVE InStep(t)'
    BY <1>1 DEF TagInv
  <2>1. ~busy[t] /\ Early(t)
    BY <1>1 DEF TagInv, InStep
  <2>2. Early(t)' /\ ~(busy[t])'
    BY <1>1, <2>1 DEF Early, State
  <2> QED
    BY <1>1, <2>2 DEF InStep, Started
<1>2. CASE start \/ Abandon \/ ReserveDone \/ \E c \in Category : ReserveCategory(c)
  BY <1>1, <1>2 DEF start, Abandon, ReserveDone, ReserveCategory
<1>3. ASSUME NEW u \in Tagged, add_tagged_thread(u)
      PROVE  TagInv'
  <2>1. /\ phase = "setup" /\ phase' = "setup" /\ tagged' = tagged \cup {u}
        /\ busy' = Put(busy, u, FALSE) /\ pc' = Put(pc, u, "connecting")
        /\ to_worker' = Put(to_worker, u, <<>>) /\ to_proxy' = Put(to_proxy, u, <<>>)
        /\ u \notin tagged
    BY <1>3 DEF add_tagged_thread
  <2> SUFFICES ASSUME NEW t \in tagged \cup {u} PROVE InStep(t)'
    BY <2>1 DEF TagInv
  <2>2. CASE t = u
    <3>1. pc'[t] = "connecting" /\ to_worker'[t] = <<>> /\ to_proxy'[t] = <<>> /\ ~busy'[t]
      BY <2>1, <2>2 DEF Put
    <3>2. Early(t)'
      BY <3>1 DEF Early, State
    <3> QED
      BY <2>1, <3>1, <3>2 DEF InStep, Started
  <2>3. CASE t # u
    <3>1. t \in tagged /\ ~busy[t] /\ Early(t)
      BY <2>1, <2>3 DEF TagInv, InStep
    <3>2. /\ pc'[t] = pc[t] /\ to_worker'[t] = to_worker[t] /\ to_proxy'[t] = to_proxy[t]
          /\ busy'[t] = busy[t]
      BY <1>0, <2>1, <2>3, <3>1 DEF Put
    <3>3. Early(t)' /\ ~busy'[t]
      BY <3>1, <3>2 DEF Early, State
    <3> QED
      BY <2>1, <3>3 DEF InStep, Started
  <2> QED
    BY <2>2, <2>3
<1>4. CASE StartTagged
  <2>1. /\ phase = "starting" /\ phase' = "top" /\ UNCHANGED <<tagged, busy, pc>>
        /\ \A t \in tagged : /\ to_proxy[t] # <<>> /\ to_proxy'[t] = Tail(to_proxy[t])
                             /\ to_worker'[t] = Append(to_worker[t], "START")
    BY <1>4 DEF StartTagged
  <2> SUFFICES ASSUME NEW t \in tagged PROVE InStep(t)'
    BY <2>1 DEF TagInv
  <2>2. ~busy[t] /\ Early(t)
    BY <2>1 DEF TagInv, InStep
  <2>3. pc[t] = "starting" /\ to_worker[t] = <<>> /\ to_proxy[t] = <<"STARTING">>
    BY <2>1, <2>2 DEF Early, State
  <2>4. pc'[t] = "starting" /\ to_worker'[t] = <<"START">> /\ to_proxy'[t] = <<>>
    <3>1. Append(<<>>, "START") = <<"START">> /\ Tail(<<"STARTING">>) = <<>>
      OBVIOUS
    <3>2. to_worker'[t] = Append(<<>>, "START") /\ to_proxy'[t] = Tail(<<"STARTING">>)
      BY <2>1, <2>3
    <3> QED
      BY <2>1, <2>3, <3>1, <3>2
  <2>5. TagResting(t)' /\ ~busy'[t]
    BY <2>1, <2>2, <2>4 DEF TagResting, State
  <2> QED
    BY <2>1, <2>5 DEF InStep, Started
<1>5. ASSUME NEW u \in Tagged, AbandonQuit(u)
      PROVE  TagInv'
  <2>1. /\ phase = "abandon" /\ phase' = "abandon" /\ UNCHANGED <<tagged, busy, pc, to_proxy>>
        /\ u \in tagged /\ pc[u] = "starting" /\ to_worker[u] = <<>>
        /\ to_worker' = [to_worker EXCEPT ![u] = <<"QUIT">>]
    BY <1>5 DEF AbandonQuit
  <2> SUFFICES ASSUME NEW t \in tagged PROVE InStep(t)'
    BY <2>1 DEF TagInv
  <2>2. ~busy[t] /\ (Early(t) \/ TurnedAway(t))
    BY <2>1 DEF TagInv, InStep
  <2>3. CASE t = u
    <3>1. to_proxy[t] = <<"STARTING">>
      BY <2>1, <2>2, <2>3 DEF Early, TurnedAway, State
    <3>2. pc'[t] = "starting" /\ to_worker'[t] = <<"QUIT">> /\ to_proxy'[t] = <<"STARTING">>
      BY <1>0, <2>1, <2>3, <3>1
    <3>3. TurnedAway(t)'
      BY <3>2 DEF TurnedAway, State
    <3> QED
      BY <2>1, <2>2, <3>3 DEF InStep, Started
  <2>4. CASE t # u
    <3>1. State(t)' = State(t)
      BY <1>0, <2>1, <2>4 DEF State
    <3>2. Early(t)' \/ TurnedAway(t)'
      BY <2>2, <3>1 DEF Early, TurnedAway
    <3> QED
      BY <2>1, <2>2, <3>2 DEF InStep, Started
  <2> QED
    BY <2>3, <2>4
<1>6. CASE AbandonJoin
  <2>1. /\ phase = "abandon" /\ phase' = "stopped" /\ UNCHANGED <<tagged, busy, to_worker, max_workers>>
        /\ \A t \in tagged : pc[t] = "exited" /\ pc'[t] = "joined" /\ to_proxy'[t] = <<>>
    BY <1>6 DEF AbandonJoin
  <2>2. max_workers' = 0
    BY <2>1 DEF LimitInv
  <2> SUFFICES ASSUME NEW t \in tagged PROVE InStep(t)'
    BY <2>1 DEF TagInv
  <2>3. ~busy[t] /\ (Early(t) \/ TurnedAway(t))
    BY <2>1 DEF TagInv, InStep
  <2>4. to_worker[t] = <<>>
    BY <2>1, <2>3 DEF Early, TurnedAway, State
  <2>5. TagGone(t)' /\ ~busy'[t]
    BY <2>1, <2>3, <2>4 DEF TagGone, Gone, State
  <2> QED
    BY <2>1, <2>2, <2>5 DEF InStep, Started
<1> QED
  BY <1>2, <1>3, <1>4, <1>5, <1>6 DEF Setup

\* The proxy loop, the requests and the dispatch of jobs to the tagged threads.
LEMMA TagLoop ==
  ASSUME TypeOK, TagInv,
         LoopTop \/ PhaseDone \/ PendingDone \/ RunTagged \/ Quit
  PROVE  TagInv'
<1>0. /\ DOMAIN pc = Threads /\ DOMAIN to_worker = Threads /\ DOMAIN to_proxy = Threads
      /\ DOMAIN busy = tagged /\ tagged \subseteq Threads
      /\ \A t \in tagged : busy[t] \in BOOLEAN
  BY DEF TypeOK, Threads
<1>1. ASSUME UNCHANGED <<max_workers, tagVars, threadVars>>, Started, Started',
             phase' \in {"tagged", "batch", "reply", "commands"} => max_workers # 0
      PROVE  TagInv'
  <2>1. \A t \in tagged : State(t)' = State(t)
    BY <1>1 DEF State
  <2> QED
    BY <1>1, <2>1, TagFrame
<1>2. CASE LoopTop
  BY <1>1, <1>2 DEF LoopTop, Started
<1>3. CASE PhaseDone
  BY <1>1, <1>3 DEF PhaseDone, NextPhase, Started
<1>4. CASE PendingDone
  BY <1>1, <1>4 DEF PendingDone, Started
<1>5. CASE RunTagged
  <2>1. /\ phase = "tagged" /\ phase' = "batch" /\ UNCHANGED <<tagged, pc, to_proxy, max_workers>>
        /\ max_workers # 0
        /\ \A t \in tagged : /\ busy'[t] = (busy[t] \/ t \in Ready)
                             /\ to_worker'[t] = IF t \in Ready THEN Append(to_worker[t], "RUN")
                                                ELSE to_worker[t]
    BY <1>0, <1>5 DEF RunTagged, TagInv
  <2> SUFFICES ASSUME NEW t \in tagged PROVE InStep(t)'
    BY <2>1 DEF TagInv
  <2>2. (busy[t] => TagWorking(t)) /\ (~busy[t] => TagResting(t))
    BY <2>1 DEF TagInv, InStep, Started
  <2>3. CASE t \in Ready
    <3>1. TagResting(t) /\ busy'[t]
      BY <2>1, <2>2, <2>3 DEF Ready
    <3>2. /\ to_proxy[t] = <<>>
          /\ \/ pc[t] = "waiting" /\ to_worker[t] = <<>>
             \/ pc[t] = "starting" /\ to_worker[t] = <<"START">>
      BY <3>1 DEF TagResting, Resting, State
    <3>3. Append(<<>>, "RUN") = <<"RUN">> /\ Append(<<"START">>, "RUN") = <<"START", "RUN">>
      <4>1. Append(<<>>, "RUN") = <<"RUN">>
        OBVIOUS
      <4>2. "START" \in {"START", "RUN"} /\ "RUN" \in {"START", "RUN"}
        OBVIOUS
      <4> QED
        BY <4>1, <4>2, MessageBehind
    <3>4. /\ to_proxy'[t] = <<>>
          /\ \/ pc'[t] = "waiting" /\ to_worker'[t] = <<"RUN">>
             \/ pc'[t] = "starting" /\ to_worker'[t] = <<"START", "RUN">>
      BY <2>1, <2>3, <3>2, <3>3
    <3>5. TagWorking(t)'
      BY <3>4 DEF TagWorking, Working, State
    <3> QED
      BY <2>1, <3>1, <3>5 DEF InStep
  <2>4. CASE t \notin Ready
    <3>1. State(t)' = State(t) /\ busy'[t] = busy[t]
      BY <1>0, <2>1, <2>4 DEF State
    <3>2. (busy'[t] => TagWorking(t)') /\ (~busy'[t] => TagResting(t)')
      BY <2>2, <3>1 DEF TagWorking, TagResting, Working, Resting
    <3> QED
      BY <2>1, <3>2 DEF InStep
  <2> QED
    BY <2>3, <2>4
<1>6. CASE Quit
  <2>1. /\ phase = "control" /\ phase' = "control" /\ UNCHANGED <<tagged, busy, pc, to_proxy>>
        /\ max_workers # 0 /\ max_workers' = 0
    BY <1>6 DEF Quit
  <2>2. ASSUME NEW t \in tagged
        PROVE  /\ ~busy[t] => to_worker'[t] = Append(to_worker[t], "QUIT")
               /\ busy[t] => to_worker'[t] = to_worker[t]
    <3>1. to_worker'[t] = IF t \in Range(idle_workers) \cup {u \in tagged : ~busy[u]}
                          THEN Append(to_worker[t], "QUIT") ELSE to_worker[t]
      BY <1>0, <1>6 DEF Quit
    <3>2. t \notin Range(idle_workers)
      BY ClassAssumption DEF TypeOK, Range, Workers
    <3> QED
      BY <3>1, <3>2
  <2> SUFFICES ASSUME NEW t \in tagged PROVE InStep(t)'
    BY <2>1 DEF TagInv
  <2>3. (busy[t] => TagWorking(t)) /\ (~busy[t] => TagResting(t))
    BY <2>1 DEF TagInv, InStep, Started
  <2>4. CASE busy[t]
    <3>1. State(t)' = State(t) /\ busy'[t]
      BY <2>1, <2>2, <2>4 DEF State
    <3>2. TagWorking(t)'
      BY <2>3, <2>4, <3>1 DEF TagWorking, Working
    <3> QED
      BY <2>1, <3>1, <3>2 DEF InStep
  <2>5. CASE ~busy[t]
    <3>2. /\ to_proxy[t] = <<>>
          /\ \/ pc[t] = "waiting" /\ to_worker[t] = <<>>
             \/ pc[t] = "starting" /\ to_worker[t] = <<"START">>
      BY <2>3, <2>5 DEF TagResting, Resting, State
    <3>3. Append(<<>>, "QUIT") = <<"QUIT">> /\ Append(<<"START">>, "QUIT") = <<"START", "QUIT">>
      <4>1. Append(<<>>, "QUIT") = <<"QUIT">>
        OBVIOUS
      <4>2. "START" \in {"START", "QUIT"} /\ "QUIT" \in {"START", "QUIT"}
        OBVIOUS
      <4> QED
        BY <4>1, <4>2, MessageBehind
    <3>4. /\ to_proxy'[t] = <<>>
          /\ \/ pc'[t] = "waiting" /\ to_worker'[t] = <<"QUIT">>
             \/ pc'[t] = "starting" /\ to_worker'[t] = <<"START", "QUIT">>
      BY <2>1, <2>2, <2>5, <3>2, <3>3
    <3>5. TagGone(t)' /\ ~busy'[t]
      BY <2>1, <2>5, <3>4 DEF TagGone, Gone, State
    <3> QED
      BY <2>1, <3>5 DEF InStep
  <2> QED
    BY <2>4, <2>5
<1> QED
  BY <1>2, <1>3, <1>4, <1>5, <1>6

\* Jobs that come in, and jobs that go to the pool.
LEMMA TagJobs ==
  ASSUME TypeOK, TagInv,
         \/ \E c \in Category : proxy_inject_task(c) \/ proxy_to_worker(c)
         \/ \E q \in {BATCH} \cup Tagged : proxy_batch(q) \/ queue_timer_job(q)
         \/ proxy_schedule_reply_job
         \/ \E q \in {BATCH, REPLY} : proxy_run_batch_jobs(q)
         \/ RunPending \/ Stopped
  PROVE  TagInv'
<1>0. ASSUME UNCHANGED <<max_workers, tagVars>>,
             UNCHANGED threadVars \/ \E j : Dispatch(j),
             \/ phase' = phase
             \/ phase \in {"batch", "reply"} /\ phase' \in {"reply", "commands"}
      PROVE  TagInv'
  <2>1. \A t \in tagged : State(t)' = State(t)
    <3>1. CASE UNCHANGED threadVars
      BY <3>1 DEF State
    <3>2. CASE \E j : Dispatch(j)
      BY <1>0, <3>2, DispatchPool
    <3> QED
      BY <1>0, <3>1, <3>2
  <2>2. phase' \in {"tagged", "batch", "reply", "commands"} => max_workers # 0
    BY <1>0 DEF TagInv
  <2> QED
    BY <1>0, <2>1, <2>2, TagFrame DEF Started
<1>1. ASSUME NEW c \in Category, SubmitCommand(c)
      PROVE  TagInv'
  <2>1. UNCHANGED <<proxyVars, tagVars>> /\ (UNCHANGED threadVars \/ \E j : Dispatch(j))
    BY <1>1 DEF SubmitCommand
  <2> QED
    BY <2>1, <1>0
<1>2. ASSUME NEW q \in {BATCH} \cup Tagged, proxy_batch(q) \/ queue_timer_job(q)
      PROVE  TagInv'
  BY <1>0, <1>2 DEF proxy_batch, queue_timer_job
<1>3. CASE proxy_schedule_reply_job
  BY <1>0, <1>3 DEF proxy_schedule_reply_job
<1>4. ASSUME NEW q \in {BATCH, REPLY}, proxy_run_batch_jobs(q)
      PROVE  TagInv'
  <2>1. UNCHANGED <<max_workers, tagVars>> /\ (UNCHANGED threadVars \/ \E j : Dispatch(j))
    BY <1>4 DEF proxy_run_batch_jobs
  <2>2. phase' = phase \/ (phase \in {"batch", "reply"} /\ phase' \in {"reply", "commands"})
    BY <1>4 DEF proxy_run_batch_jobs, QueuePhase
  <2> QED
    BY <2>1, <2>2, <1>0
<1>5. CASE RunPending
  <2>1. UNCHANGED <<proxyVars, tagVars>> /\ (UNCHANGED threadVars \/ \E j : Dispatch(j))
    BY <1>5 DEF RunPending
  <2> QED
    BY <2>1, <1>0
<1>6. CASE Stopped
  BY <1>0, <1>6 DEF Stopped, vars
<1> QED
  BY <1>1, <1>2, <1>3, <1>4, <1>5, <1>6 DEF proxy_inject_task, proxy_to_worker

\* A step that concerns one thread, and leaves the proxy where it is.
LEMMA TagOne ==
  ASSUME TagInv, NEW w, UNCHANGED <<tagged, max_workers, phase>>,
         \A t \in tagged : t # w => State(t)' = State(t) /\ busy'[t] = busy[t],
         w \in tagged => InStep(w)'
  PROVE  TagInv'
<1> SUFFICES ASSUME NEW t \in tagged PROVE InStep(t)'
  BY DEF TagInv
<1>1. CASE t = w
  BY <1>1
<1>2. CASE t # w
  <2>1. InStep(t) /\ State(t)' = State(t) /\ busy'[t] = busy[t]
    BY <1>2 DEF TagInv
  <2>2. /\ Early(t)' <=> Early(t)
        /\ TurnedAway(t)' <=> TurnedAway(t)
        /\ TagWorking(t)' <=> TagWorking(t)
        /\ TagResting(t)' <=> TagResting(t)
        /\ TagGone(t)' <=> TagGone(t)
    BY <2>1 DEF Early, TurnedAway, TagWorking, TagResting, TagGone, Working, Resting, Gone
  <2> QED
    BY <2>1, <2>2 DEF InStep, Started
<1> QED
  BY <1>1, <1>2

\* A thread that takes its next message stays what the proxy takes it for.
LEMMA WaitKeeps ==
  ASSUME TypeOK, NEW w \in Threads, worker_wait_for(w)
  PROVE  /\ ~Early(w)
         /\ TurnedAway(w) => TurnedAway(w)'
         /\ TagWorking(w) => TagWorking(w)'
         /\ TagResting(w) => TagResting(w)'
         /\ TagGone(w) => TagGone(w)'
<1>0. DOMAIN pc = Threads /\ DOMAIN to_worker = Threads /\ DOMAIN to_proxy = Threads
  BY DEF TypeOK
<1>1. pc[w] \in {"starting", "waiting"} /\ to_worker[w] # <<>>
  BY DEF worker_wait_for
<1>2. to_worker'[w] = Tail(to_worker[w])
  BY <1>0 DEF worker_wait_for
<1>3. Head(to_worker[w]) = "START" /\ pc[w] = "starting" =>
        pc'[w] = "waiting" /\ to_proxy'[w] = to_proxy[w]
  BY <1>0 DEF worker_wait_for
<1>4. Head(to_worker[w]) = "RUN" /\ pc[w] = "waiting" =>
        pc'[w] = "running" /\ to_proxy'[w] = to_proxy[w]
  BY <1>0 DEF worker_wait_for
<1>5. Head(to_worker[w]) = "QUIT" =>
        pc'[w] = "exited" /\ to_proxy'[w] = Append(to_proxy[w], "QUITTING")
  BY <1>0 DEF worker_wait_for
<1>6. ~Early(w)
  BY <1>1 DEF Early, State
<1>7. /\ Tail(<<"START">>) = <<>> /\ Head(<<"START">>) = "START"
      /\ Tail(<<"RUN">>) = <<>> /\ Head(<<"RUN">>) = "RUN"
      /\ Tail(<<"QUIT">>) = <<>> /\ Head(<<"QUIT">>) = "QUIT"
      /\ Append(<<>>, "QUITTING") = <<"QUITTING">>
  OBVIOUS
<1>8. /\ Tail(<<"START", "RUN">>) = <<"RUN">> /\ Head(<<"START", "RUN">>) = "START"
      /\ Tail(<<"START", "QUIT">>) = <<"QUIT">> /\ Head(<<"START", "QUIT">>) = "START"
  <2>1. "START" \in {"START", "RUN", "QUIT"} /\ "RUN" \in {"START", "RUN", "QUIT"}
        /\ "QUIT" \in {"START", "RUN", "QUIT"}
    OBVIOUS
  <2> QED
    BY <2>1, MessageTaken
<1>9. Append(<<"STARTING">>, "QUITTING") = <<"STARTING", "QUITTING">>
  <2>1. "STARTING" \in {"STARTING", "QUITTING"} /\ "QUITTING" \in {"STARTING", "QUITTING"}
    OBVIOUS
  <2> QED
    BY <2>1, MessageBehind
<1>10. ASSUME TurnedAway(w) PROVE TurnedAway(w)'
  <2>1. pc[w] = "starting" /\ to_worker[w] = <<"QUIT">> /\ to_proxy[w] = <<"STARTING">>
    BY <1>1, <1>10 DEF TurnedAway, State
  <2>2. pc'[w] = "exited" /\ to_worker'[w] = <<>> /\ to_proxy'[w] = <<"STARTING", "QUITTING">>
    BY <1>2, <1>5, <1>7, <1>9, <2>1
  <2> QED
    BY <2>2 DEF TurnedAway, State
<1>11. ASSUME TagWorking(w) PROVE TagWorking(w)'
  <2>1. /\ to_proxy[w] = <<>>
        /\ \/ pc[w] = "starting" /\ to_worker[w] = <<"START", "RUN">>
           \/ pc[w] = "waiting" /\ to_worker[w] = <<"RUN">>
    BY <1>1, <1>11 DEF TagWorking, Working, State
  <2>2. /\ to_proxy'[w] = <<>>
        /\ \/ pc'[w] = "waiting" /\ to_worker'[w] = <<"RUN">>
           \/ pc'[w] = "running" /\ to_worker'[w] = <<>>
    BY <1>2, <1>3, <1>4, <1>7, <1>8, <2>1
  <2> QED
    BY <2>2 DEF TagWorking, Working, State
<1>12. ASSUME TagResting(w) PROVE TagResting(w)'
  <2>1. pc[w] = "starting" /\ to_worker[w] = <<"START">> /\ to_proxy[w] = <<>>
    BY <1>1, <1>12 DEF TagResting, Resting, State
  <2>2. pc'[w] = "waiting" /\ to_worker'[w] = <<>> /\ to_proxy'[w] = <<>>
    BY <1>2, <1>3, <1>7, <2>1
  <2> QED
    BY <2>2 DEF TagResting, Resting, State
<1>13. ASSUME TagGone(w) PROVE TagGone(w)'
  <2>1. /\ to_proxy[w] = <<>>
        /\ \/ pc[w] = "starting" /\ to_worker[w] = <<"START", "QUIT">>
           \/ pc[w] = "waiting" /\ to_worker[w] = <<"QUIT">>
    BY <1>1, <1>13 DEF TagGone, Gone, State
  <2>2. \/ pc'[w] = "waiting" /\ to_worker'[w] = <<"QUIT">> /\ to_proxy'[w] = <<>>
        \/ pc'[w] = "exited" /\ to_worker'[w] = <<>> /\ to_proxy'[w] = <<"QUITTING">>
    BY <1>2, <1>3, <1>5, <1>7, <1>8, <2>1
  <2> QED
    BY <2>2 DEF TagGone, Gone, State
<1> QED
  BY <1>6, <1>10, <1>11, <1>12, <1>13

\* What the threads do, and what the proxy does when it hears from one.
LEMMA TagThread ==
  ASSUME TypeOK, TagInv, NEW w \in Threads,
         proxy_worker_RAN(w) \/ proxy_worker_QUITTING(w) \/ Worker(w)
  PROVE  TagInv'
<1>0. /\ DOMAIN pc = Threads /\ DOMAIN to_worker = Threads /\ DOMAIN to_proxy = Threads
      /\ DOMAIN busy = tagged /\ tagged \subseteq Threads
      /\ \A t \in tagged : busy[t] \in BOOLEAN
  BY DEF TypeOK, Threads
<1>1. UNCHANGED <<tagged, max_workers, phase>>
  BY DEF proxy_worker_RAN, proxy_worker_QUITTING, Worker, WorkerStarting, worker_wait_for, WorkerRan
<1>2. ASSUME NEW t \in tagged, t # w PROVE State(t)' = State(t) /\ busy'[t] = busy[t]
  <2>1. pc'[t] = pc[t]
    BY <1>0, <1>2 DEF proxy_worker_RAN, proxy_worker_QUITTING, Worker, WorkerStarting,
                      worker_wait_for, WorkerRan
  <2>2. to_worker'[t] = to_worker[t]
    BY <1>0, <1>2 DEF proxy_worker_RAN, proxy_worker_QUITTING, Worker, WorkerStarting,
                      worker_wait_for, WorkerRan, Rest
  <2>3. to_proxy'[t] = to_proxy[t]
    BY <1>0, <1>2 DEF proxy_worker_RAN, proxy_worker_QUITTING, Worker, WorkerStarting,
                      worker_wait_for, WorkerRan
  <2>4. busy'[t] = busy[t]
    BY <1>0, <1>2 DEF proxy_worker_RAN, proxy_worker_QUITTING, Worker, WorkerStarting,
                      worker_wait_for, WorkerRan, Release
  <2> QED
    BY <2>1, <2>2, <2>3, <2>4 DEF State
<1>3. ASSUME w \in tagged PROVE InStep(w)'
  <2>0. InStep(w)
    BY <1>3 DEF TagInv
  <2>1. CASE proxy_worker_RAN(w)
    <3>1. /\ phase = "worker" /\ phase' = "worker" /\ max_workers' = max_workers
          /\ to_proxy[w] # <<>> /\ Head(to_proxy[w]) = "RAN"
          /\ to_proxy'[w] = Tail(to_proxy[w]) /\ pc'[w] = pc[w]
      BY <1>0, <2>1 DEF proxy_worker_RAN
    <3>2. ~busy'[w]
      BY <1>0, <1>3, <2>1 DEF proxy_worker_RAN, Release
    <3>3. to_worker'[w] = IF max_workers = 0 THEN Append(to_worker[w], "QUIT") ELSE to_worker[w]
      BY <1>0, <2>1 DEF proxy_worker_RAN, Rest
    <3>4. TagWorking(w) \/ TagResting(w) \/ TagGone(w)
      BY <1>0, <1>3, <2>0, <3>1 DEF InStep, Started
    <3>5. Head(<<"QUITTING">>) = "QUITTING" /\ Tail(<<"RAN">>) = <<>>
          /\ Append(<<>>, "QUIT") = <<"QUIT">>
      OBVIOUS
    <3>6. pc[w] = "waiting" /\ to_worker[w] = <<>> /\ to_proxy[w] = <<"RAN">>
      BY <3>1, <3>4, <3>5 DEF TagWorking, Working, TagResting, Resting, TagGone, Gone, State
    <3>7. CASE max_workers = 0
      <4>1. pc'[w] = "waiting" /\ to_worker'[w] = <<"QUIT">> /\ to_proxy'[w] = <<>>
        BY <3>1, <3>3, <3>5, <3>6, <3>7
      <4>2. TagGone(w)'
        BY <4>1 DEF TagGone, Gone, State
      <4> QED
        BY <3>1, <3>2, <3>7, <4>2 DEF InStep
    <3>8. CASE max_workers # 0
      <4>1. pc'[w] = "waiting" /\ to_worker'[w] = <<>> /\ to_proxy'[w] = <<>>
        BY <3>1, <3>3, <3>5, <3>6, <3>8
      <4>2. TagResting(w)'
        BY <4>1 DEF TagResting, Resting, State
      <4> QED
        BY <3>1, <3>2, <4>2 DEF InStep
    <3> QED
      BY <3>7, <3>8
  <2>2. CASE proxy_worker_QUITTING(w)
    <3>1. /\ phase = "worker" /\ phase' = "worker" /\ max_workers' = max_workers
          /\ pc[w] = "exited" /\ pc'[w] = "joined" /\ to_worker'[w] = to_worker[w]
          /\ to_proxy'[w] = Tail(to_proxy[w]) /\ busy' = busy
      BY <1>0, <2>2 DEF proxy_worker_QUITTING
    <3>2. ~TagWorking(w) /\ ~TagResting(w)
      BY <3>1 DEF TagWorking, Working, TagResting, Resting, State
    <3>3. ~busy[w] /\ max_workers = 0 /\ TagGone(w)
      BY <1>0, <1>3, <2>0, <3>1, <3>2 DEF InStep, Started
    <3>4. to_worker[w] = <<>> /\ to_proxy[w] = <<"QUITTING">>
      BY <3>1, <3>3 DEF TagGone, Gone, State
    <3>5. to_worker'[w] = <<>> /\ to_proxy'[w] = <<>>
      BY <3>1, <3>4
    <3>6. TagGone(w)'
      BY <3>1, <3>5 DEF TagGone, Gone, State
    <3> QED
      BY <3>1, <3>3, <3>6 DEF InStep
  <2>3. CASE Worker(w)
    <3>0. UNCHANGED <<phase, max_workers, busy>>
      BY <2>3 DEF Worker, WorkerStarting, worker_wait_for, WorkerRan
    <3>1. /\ Early(w) => Early(w)'
          /\ TurnedAway(w) => TurnedAway(w)'
          /\ TagWorking(w) => TagWorking(w)'
          /\ TagResting(w) => TagResting(w)'
          /\ TagGone(w) => TagGone(w)'
      <4>1. CASE WorkerStarting(w)
        <5>1. pc[w] = "connecting" /\ pc'[w] = "starting" /\ to_worker'[w] = to_worker[w]
              /\ to_proxy'[w] = Append(to_proxy[w], "STARTING")
          BY <1>0, <4>1 DEF WorkerStarting
        <5>2. /\ ~TurnedAway(w) /\ ~TagWorking(w) /\ ~TagResting(w) /\ ~TagGone(w)
          BY <5>1 DEF TurnedAway, TagWorking, Working, TagResting, Resting, TagGone, Gone, State
        <5>3. ASSUME Early(w) PROVE Early(w)'
          <6>1. to_worker[w] = <<>> /\ to_proxy[w] = <<>>
            BY <5>1, <5>3 DEF Early, State
          <6>2. to_worker'[w] = <<>> /\ to_proxy'[w] = <<"STARTING">>
            BY <5>1, <6>1
          <6> QED
            BY <5>1, <6>2 DEF Early, State
        <5> QED
          BY <5>2, <5>3
      <4>2. CASE worker_wait_for(w)
        BY <4>2, WaitKeeps
      <4>3. CASE WorkerRan(w)
        <5>1. pc[w] = "running" /\ pc'[w] = "waiting" /\ to_worker'[w] = to_worker[w]
              /\ to_proxy'[w] = Append(to_proxy[w], "RAN")
          BY <1>0, <4>3 DEF WorkerRan
        <5>2. ~TurnedAway(w) /\ ~Early(w) /\ ~TagResting(w) /\ ~TagGone(w)
          BY <5>1 DEF TurnedAway, Early, TagResting, Resting, TagGone, Gone, State
        <5>3. ASSUME TagWorking(w) PROVE TagWorking(w)'
          <6>1. to_worker[w] = <<>> /\ to_proxy[w] = <<>>
            BY <5>1, <5>3 DEF TagWorking, Working, State
          <6>2. to_worker'[w] = <<>> /\ to_proxy'[w] = <<"RAN">>
            BY <5>1, <6>1
          <6> QED
            BY <5>1, <6>2 DEF TagWorking, Working, State
        <5> QED
          BY <5>2, <5>3
      <4> QED
        BY <2>3, <4>1, <4>2, <4>3 DEF Worker
    <3> QED
      BY <2>0, <3>0, <3>1 DEF InStep, Started
  <2> QED
    BY <2>1, <2>2, <2>3
<1> QED
  BY <1>1, <1>2, <1>3, TagOne

\* TagInv is inductive, given the type invariant and LimitInv.
LEMMA TagStep ==
  ASSUME TypeOK, LimitInv, TagInv, [Next]_vars
  PROVE  TagInv'
<1>1. CASE UNCHANGED vars
  <2>1. \A t \in tagged : State(t)' = State(t)
    BY <1>1 DEF vars, State
  <2> QED
    BY <1>1, <2>1, TagFrame DEF vars, TagInv
<1>2. CASE Setup
  BY <1>2, TagSetup
<1>3. CASE Request
  BY <1>3, TagJobs, TagLoop DEF Request
<1>4. CASE Proxy
  BY <1>4, TagSetup, TagLoop, TagJobs, TagThread DEF Proxy
<1>5. CASE \E w \in Threads : Worker(w)
  BY <1>5, TagThread
<1>6. CASE Stopped
  BY <1>6, TagJobs
<1> QED
  BY <1>1, <1>2, <1>3, <1>4, <1>5, <1>6 DEF Next

-----------------------------------------------------------------------------
(* The pending commands and their counters.                                *)

\* Where the elements of a queue are once one of them is erased.
LEMMA ErasedAt ==
  ASSUME NEW S, NEW s \in Seq(S), NEW i \in 1 .. Len(s)
  PROVE  /\ Erased(s, i) \in Seq(S) /\ Len(Erased(s, i)) = Len(s) - 1
         /\ \A k \in 1 .. Len(s) - 1 : Erased(s, i)[k] = s[IF k < i THEN k ELSE k + 1]
<1>1. Len(s) \in Nat /\ i \in Nat \ {0} /\ i <= Len(s)
  OBVIOUS
<1>2. PICK a \in Seq(S) : /\ a = SubSeq(s, 1, i - 1) /\ Len(a) = i - 1
                          /\ \A k \in 1 .. i - 1 : a[k] = s[k]
  <2> DEFINE n == i - 1
  <2>1. n \in Nat /\ n <= Len(s)
    BY <1>1
  <2> HIDE DEF n
  <2>2. SubSeq(s, 1, n) \in Seq(S) /\ Len(SubSeq(s, 1, n)) = n
    BY <2>1
  <2>3. \A k \in 1 .. n : SubSeq(s, 1, n)[k] = s[k]
    BY <2>1
  <2> QED
    BY <2>2, <2>3, Zenon DEF n
<1>3. PICK b \in Seq(S) : /\ b = SubSeq(s, i + 1, Len(s)) /\ Len(b) = Len(s) - i
                          /\ \A k \in 1 .. Len(s) - i : b[k] = s[i + k]
  <2>1. SubSeq(s, i + 1, Len(s)) \in Seq(S)
    BY <1>1
  <2>2. Len(SubSeq(s, i + 1, Len(s))) = Len(s) - i
    BY <1>1
  <2>3. \A k \in 1 .. Len(s) - i : SubSeq(s, i + 1, Len(s))[k] = s[i + k]
    BY <1>1
  <2> QED
    BY <2>1, <2>2, <2>3, Zenon
<1>4. /\ a \o b \in Seq(S) /\ Len(a \o b) = Len(a) + Len(b)
      /\ \A k \in 1 .. Len(a) + Len(b) : (a \o b)[k] = IF k <= Len(a) THEN a[k] ELSE b[k - Len(a)]
  BY ONLY a \in Seq(S), b \in Seq(S)
<1>5. PICK t : t = a \o b
  OBVIOUS
<1>6. Len(a) = i - 1 /\ Len(b) = Len(s) - i
  BY <1>2, <1>3, Zenon
<1>7. t \in Seq(S) /\ Len(t) = Len(a) + Len(b)
  BY <1>4, <1>5, Zenon
<1>8. t \in Seq(S) /\ Len(t) = Len(s) - 1
  BY ONLY <1>1, <1>6, <1>7
<1>9. ASSUME NEW k \in 1 .. Len(s) - 1
      PROVE  t[k] = s[IF k < i THEN k ELSE k + 1]
  <2>0. k \in 1 .. Len(a) + Len(b) /\ k \in Int
    BY ONLY <1>1, <1>6, k \in 1 .. Len(s) - 1
  <2>1. t[k] = IF k <= Len(a) THEN a[k] ELSE b[k - Len(a)]
    BY <2>0, <1>4, <1>5, Zenon
  <2>2. CASE k < i
    <3>1. k <= Len(a) /\ k \in 1 .. i - 1
      BY ONLY <1>1, <1>6, <2>0, <2>2
    <3> QED
      BY <1>2, <2>1, <2>2, <3>1
  <2>3. CASE ~(k < i)
    <3>1. ~(k <= Len(a)) /\ k - Len(a) \in 1 .. Len(s) - i /\ i + (k - Len(a)) = k + 1
      BY ONLY <1>1, <1>6, <2>0, <2>3
    <3>2. b[k - Len(a)] = s[i + (k - Len(a))]
      BY <1>3, <3>1, Zenon
    <3> QED
      BY <2>1, <2>3, <3>1, <3>2
  <2> QED
    BY <2>2, <2>3
<1>10. Erased(s, i) = t
  BY <1>2, <1>3, <1>5, Zenon DEF Erased
<1> QED
  BY <1>8, <1>9, <1>10, Zenon

\* The positions of the elements of a class are finitely many.
LEMMA WhereFinite ==
  ASSUME NEW s \in Seq(Job), NEW c
  PROVE  IsFiniteSet(Where(s, c)) /\ Cardinality(Where(s, c)) \in Nat
<1>1. IsFiniteSet(1 .. Len(s))
  BY FS_Interval
<1> QED
  BY <1>1, FS_Subset, FS_CardinalityType DEF Where

\* Appending a job adds one position of its class.
LEMMA WhereAppend ==
  ASSUME NEW s \in Seq(Job), NEW j \in Job, NEW c
  PROVE  Cardinality(Where(Append(s, j), c))
           = IF j.cls = c THEN Cardinality(Where(s, c)) + 1 ELSE Cardinality(Where(s, c))
<1> DEFINE t == Append(s, j)
           n == Len(s) + 1
<1>1. /\ Len(s) \in Nat /\ n \in Nat /\ Len(t) = n /\ t[n] = j
      /\ \A i \in 1 .. Len(s) : t[i] = s[i]
  BY SeqAppend
<1> HIDE DEF t
<1>2. n \notin Where(s, c)
  BY <1>1 DEF Where
<1>3. CASE j.cls = c
  <2>1. Where(t, c) = Where(s, c) \cup {n}
    BY <1>1, <1>3 DEF Where
  <2> HIDE DEF n
  <2>2. Cardinality(Where(s, c) \cup {n}) = Cardinality(Where(s, c)) + 1
    BY <1>2, WhereFinite, FS_AddElement
  <2> QED
    BY <1>3, <2>1, <2>2 DEF t
<1>4. CASE j.cls # c
  <2>1. Where(t, c) = Where(s, c)
    BY <1>1, <1>4 DEF Where
  <2> QED
    BY <1>4, <2>1 DEF t
<1> QED
  BY <1>3, <1>4

\* Erasing a job takes one position of its class.
LEMMA WhereErased ==
  ASSUME NEW s \in Seq(Job), NEW i \in 1 .. Len(s), NEW c
  PROVE  Cardinality(Where(Erased(s, i), c))
           = IF s[i].cls = c THEN Cardinality(Where(s, c)) - 1 ELSE Cardinality(Where(s, c))
<1> DEFINE t == Erased(s, i)
           A == Where(t, c)
           B == Where(s, c) \ {i}
           f == [k \in A |-> IF k < i THEN k ELSE k + 1]
<1>1. /\ Len(t) = Len(s) - 1 /\ Len(s) \in Nat
      /\ \A k \in 1 .. Len(s) - 1 : t[k] = s[IF k < i THEN k ELSE k + 1]
  BY ErasedAt
<1> HIDE DEF t
<1>2. \A k \in A : k \in 1 .. Len(s) - 1 /\ t[k].cls = c
  BY <1>1 DEF Where
<1>3. \A k \in A : f[k] \in B
  <2> TAKE k \in A
  <2>1. k \in 1 .. Len(s) - 1 /\ t[k].cls = c
    BY <1>2
  <2>2. f[k] = (IF k < i THEN k ELSE k + 1) /\ t[k] = s[f[k]]
    BY <1>1, <2>1
  <2>3. f[k] \in 1 .. Len(s) /\ f[k] # i
    BY <1>1, <2>1, <2>2
  <2> HIDE DEF f
  <2> QED
    BY <2>1, <2>2, <2>3 DEF Where
<1>4. \A k, l \in A : f[k] = f[l] => k = l
  BY <1>1, <1>2
<1>5. \A m \in B : \E k \in A : f[k] = m
  <2> TAKE m \in B
  <2>1. m \in 1 .. Len(s) /\ m # i /\ s[m].cls = c /\ m \in Int /\ i \in Int
    BY DEF Where
  <2>2. PICK k \in 1 .. Len(s) - 1 : m = IF k < i THEN k ELSE k + 1
    <3>1. CASE m < i
      BY <1>1, <2>1, <3>1
    <3>2. CASE m > i
      <4>1. m - 1 \in 1 .. Len(s) - 1 /\ m = IF m - 1 < i THEN m - 1 ELSE (m - 1) + 1
        BY <1>1, <2>1, <3>2
      <4> QED
        BY <4>1
    <3> QED
      BY <2>1, <3>1, <3>2
  <2>3. t[k] = s[m]
    BY <1>1, <2>2
  <2>4. k \in A
    BY <1>1, <2>1, <2>3 DEF Where
  <2> QED
    BY <2>2, <2>4
<1>6. f \in Bijection(A, B)
  <2>1. f \in [A -> B]
    BY <1>3
  <2> HIDE DEF f, A, B
  <2> QED
    BY <1>4, <1>5, <2>1 DEF Bijection, Injection, Surjection, IsInjective
<1>7. t \in Seq(Job)
  BY ErasedAt DEF t
<1>8. IsFiniteSet(A) /\ IsFiniteSet(Where(s, c)) /\ Cardinality(Where(s, c)) \in Nat
  BY <1>7, WhereFinite
<1> HIDE DEF f
<1>9. Cardinality(B) = Cardinality(A)
  BY <1>6, <1>8, FS_Bijection DEF ExistsBijection
<1>10. Cardinality(B) = IF i \in Where(s, c) THEN Cardinality(Where(s, c)) - 1
                        ELSE Cardinality(Where(s, c))
  BY <1>8, FS_RemoveElement
<1>11. i \in Where(s, c) <=> s[i].cls = c
  BY DEF Where
<1> QED
  BY <1>9, <1>10, <1>11 DEF t

\* The two ways in which pending_commands changes.
Enqueues(c) ==
  /\ Started /\ next_job <= MaxJobs
  /\ QueueCommand(c) /\ next_job' = next_job + 1
  /\ cat_max_queue[c] < 0 \/ queued[c] < cat_max_queue[c]

Dequeues ==
  /\ Started
  /\ it \in 1 .. Len(pending_commands)
  /\ pending_commands' = Erased(pending_commands, it)
  /\ queued' = [queued EXCEPT ![pending_commands[it].cls] = @ - 1]

\* No other step changes the pending commands or their counters.
LEMMA QueueEffect ==
  ASSUME TypeOK, [Next]_vars
  PROVE  UNCHANGED <<pending_commands, queued>> \/ (\E c \in Category : Enqueues(c)) \/ Dequeues
<1>1. CASE UNCHANGED vars \/ Stopped
  BY <1>1 DEF vars, Stopped
<1>2. CASE Setup
  BY <1>2 DEF Setup, add_tagged_thread, start, Abandon
<1>3. CASE Request
  <2>1. ASSUME NEW c \in Category, SubmitCommand(c)
        PROVE  UNCHANGED <<pending_commands, queued>> \/ (Started => Enqueues(c))
    BY <2>1 DEF SubmitCommand, Enqueues
  <2>2. CASE \/ \E q \in {BATCH} \cup Tagged : proxy_batch(q) \/ queue_timer_job(q)
             \/ proxy_schedule_reply_job \/ Quit
    BY <2>2 DEF proxy_batch, queue_timer_job, proxy_schedule_reply_job, Quit
  <2> QED
    BY <1>3, <2>1, <2>2 DEF Request, proxy_inject_task, proxy_to_worker, Started
<1>4. CASE Proxy
  <2>1. CASE RunPending
    <3>1. it \in 1 .. Len(pending_commands)
      BY <2>1 DEF RunPending, TypeOK
    <3> QED
      BY <2>1, <3>1 DEF RunPending, Dequeues, Erased, Started
  <2>2. CASE ~RunPending
    BY <1>4, <2>2 DEF Proxy, ReserveCategory, ReserveDone, StartTagged, AbandonQuit, AbandonJoin,
      LoopTop, PhaseDone, RunTagged, proxy_run_batch_jobs, PendingDone, proxy_worker_RAN,
      proxy_worker_QUITTING
  <2> QED
    BY <2>1, <2>2
<1>5. CASE \E w \in Threads : Worker(w)
  BY <1>5 DEF Worker, WorkerStarting, worker_wait_for, WorkerRan
<1> QED
  BY <1>1, <1>2, <1>3, <1>4, <1>5 DEF Next

\* The counters stay exact.
LEMMA QueuedStep ==
  ASSUME TypeOK, QueuedInv, [Next]_vars
  PROVE  QueuedInv'
<1>0. /\ pending_commands \in Seq(Job) /\ queued \in [Category -> Int]
      /\ \A i \in 1 .. Len(pending_commands) : pending_commands[i].cls \in Category
      /\ cat_max_queue \in [Category -> Int]
  BY ThreadsAssumption DEF TypeOK
<1>1. CASE UNCHANGED <<pending_commands, queued>>
  BY <1>1 DEF QueuedInv
<1>2. ASSUME NEW c \in Category, Enqueues(c) PROVE QueuedInv'
  <2>1. PICK j : j = NewJob(c, "command")
    OBVIOUS
  <2>2. j \in Job /\ j.cls = c
    BY <1>2, <2>1, NewJobType DEF Enqueues, NewJob, Class
  <2>3. pending_commands' = Append(pending_commands, j) /\ queued' = [queued EXCEPT ![c] = @ + 1]
    BY <1>2, <2>1 DEF Enqueues, QueueCommand
  <2> SUFFICES ASSUME NEW d \in Category
               PROVE  /\ queued'[d] = Cardinality(Where(pending_commands', d))
                      /\ cat_max_queue[d] >= 0 => queued'[d] <= cat_max_queue[d]
    BY DEF QueuedInv
  <2>4. /\ queued[d] = Cardinality(Where(pending_commands, d))
        /\ cat_max_queue[d] >= 0 => queued[d] <= cat_max_queue[d]
    BY DEF QueuedInv
  <2>5. Cardinality(Where(pending_commands', d))
          = IF d = c THEN Cardinality(Where(pending_commands, d)) + 1
            ELSE Cardinality(Where(pending_commands, d))
    BY <1>0, <2>2, <2>3, WhereAppend
  <2>6. queued'[d] = (IF d = c THEN queued[d] + 1 ELSE queued[d]) /\ queued[d] \in Int
        /\ cat_max_queue[d] \in Int
    BY <1>0, <2>3
  <2>7. d = c => cat_max_queue[d] < 0 \/ queued[d] < cat_max_queue[d]
    BY <1>2 DEF Enqueues
  <2>8. cat_max_queue[d] >= 0 => queued'[d] <= cat_max_queue[d]
    BY <2>4, <2>6, <2>7
  <2> QED
    BY <2>4, <2>5, <2>6, <2>8
<1>3. ASSUME Dequeues PROVE QueuedInv'
  <2>1. PICK c \in Category, k \in 1 .. Len(pending_commands) :
          c = pending_commands[k].cls /\ k = it
    BY <1>0, <1>3 DEF Dequeues
  <2>3. /\ pending_commands' = Erased(pending_commands, k)
        /\ queued' = [queued EXCEPT ![c] = @ - 1]
    BY <1>3, <2>1 DEF Dequeues
  <2> SUFFICES ASSUME NEW d \in Category
               PROVE  /\ queued'[d] = Cardinality(Where(pending_commands', d))
                      /\ cat_max_queue[d] >= 0 => queued'[d] <= cat_max_queue[d]
    BY DEF QueuedInv
  <2>4. /\ queued[d] = Cardinality(Where(pending_commands, d))
        /\ cat_max_queue[d] >= 0 => queued[d] <= cat_max_queue[d]
    BY DEF QueuedInv
  <2>5. Cardinality(Where(pending_commands', d))
          = IF c = d THEN Cardinality(Where(pending_commands, d)) - 1
            ELSE Cardinality(Where(pending_commands, d))
    BY <1>0, <2>1, <2>3, WhereErased
  <2>6. queued'[d] = (IF c = d THEN queued[d] - 1 ELSE queued[d]) /\ queued[d] \in Int
        /\ cat_max_queue[d] \in Int
    BY <1>0, <2>3
  <2>7. cat_max_queue[d] >= 0 => queued'[d] <= cat_max_queue[d]
    BY <2>4, <2>6
  <2> QED
    BY <2>4, <2>5, <2>6, <2>7
<1> QED
  BY <1>1, <1>2, <1>3, QueueEffect

-----------------------------------------------------------------------------
(* The order of the commands.                                              *)

\* The proxy never goes back to starting, and jobs are numbered upwards.
LEMMA Onward ==
  ASSUME TypeOK, [Next]_vars
  PROVE  (Started => Started') /\ next_job' \in Int /\ next_job' >= next_job /\ next_job \in Int
<1>0. next_job \in Int /\ \A q, k : QueueJob(q, k) => next_job' = next_job + 1
  BY ThreadsAssumption DEF TypeOK, QueueJob
<1>1. CASE UNCHANGED vars
  BY <1>0, <1>1 DEF vars, Started
<1>2. CASE Setup
  <2>1. phase = "setup" /\ next_job' = next_job
    BY <1>2 DEF Setup, add_tagged_thread, start, Abandon
  <2> QED
    BY <1>0, <2>1 DEF Started
<1>3. CASE Request
  <2>1. next_job' \in {next_job, next_job + 1}
    BY <1>0, <1>3 DEF Request, proxy_inject_task, proxy_to_worker, SubmitCommand,
      proxy_batch, queue_timer_job, proxy_schedule_reply_job, Quit
  <2>2. phase' = phase
    BY <1>3 DEF Request, proxy_inject_task, proxy_to_worker, SubmitCommand,
      proxy_batch, queue_timer_job, proxy_schedule_reply_job, Quit
  <2> QED
    BY <1>0, <2>1, <2>2 DEF Started
<1>4. CASE Proxy
  <2>1. next_job' \in {next_job, next_job + 1}
    BY <1>0, <1>4 DEF Proxy, ReserveCategory, ReserveDone, StartTagged, AbandonQuit, AbandonJoin,
      LoopTop, PhaseDone, RunTagged, proxy_run_batch_jobs, RunPending, PendingDone,
      proxy_worker_RAN, JobFinished, proxy_worker_QUITTING
  <2>2. Started => Started'
    BY <1>4 DEF Started, Proxy, ReserveCategory, ReserveDone, StartTagged, AbandonQuit,
      AbandonJoin, LoopTop, PhaseDone, NextPhase, RunTagged, proxy_run_batch_jobs,
      QueuePhase, RunPending, PendingDone, proxy_worker_RAN, proxy_worker_QUITTING
  <2> QED
    BY <1>0, <2>1, <2>2
<1>5. CASE \E w \in Threads : Worker(w)
  BY <1>0, <1>5 DEF Started, Worker, WorkerStarting, worker_wait_for, WorkerRan
<1>6. CASE Stopped
  BY <1>0, <1>6 DEF Stopped, vars, Started
<1> QED
  BY <1>1, <1>2, <1>3, <1>4, <1>5, <1>6 DEF Next

\* The order of arrival is kept.
LEMMA ArrivedStep ==
  ASSUME TypeOK, Arrived, [Next]_vars
  PROVE  Arrived'
<1> DEFINE s == pending_commands
<1>0. /\ s \in Seq(Job) /\ Len(s) \in Nat
      /\ \A i \in 1 .. Len(s) : s[i] \in Job /\ s[i].id \in Int
  <2>1. s \in Seq(Job)
    BY DEF TypeOK
  <2>2. Len(s) \in Nat /\ \A i \in 1 .. Len(s) : s[i] \in Job
    BY <2>1, SeqLen
  <2>3. \A j \in Job : j.id \in Int
    BY ThreadsAssumption DEF Job
  <2> QED
    BY <2>1, <2>2, <2>3
<1>1. (Started => Started') /\ next_job' \in Int /\ next_job' >= next_job /\ next_job \in Int
  BY Onward
<1>2. /\ \A i \in 1 .. Len(s) : s[i].id < next_job
      /\ \A i, k \in 1 .. Len(s) : i < k => s[i].id < s[k].id
  BY DEF Arrived
<1>3. CASE UNCHANGED <<pending_commands, queued>>
  <2>1. ~Started' => pending_commands' = <<>>
    BY <1>1, <1>3 DEF Arrived
  <2>2. \A i \in 1 .. Len(s) : s[i].id < next_job'
    BY <1>0, <1>1, <1>2
  <2> QED
    BY <1>2, <1>3, <2>1, <2>2 DEF Arrived
<1>4. ASSUME NEW c \in Category, Enqueues(c) PROVE Arrived'
  <2>1. PICK j \in Job : s' = Append(s, j) /\ j.id = next_job
    <3>1. NewJob(c, "command") \in Job
      BY <1>4, NewJobType DEF Enqueues, Class
    <3>2. s' = Append(s, NewJob(c, "command")) /\ NewJob(c, "command").id = next_job
      BY <1>4 DEF Enqueues, QueueCommand, NewJob
    <3> QED
      BY <3>1, <3>2
  <2>2. Started' /\ next_job' = next_job + 1
    BY <1>1, <1>4 DEF Enqueues
  <2>3. PICK t : t = s'
    OBVIOUS
  <2>4. /\ t \in Seq(Job) /\ Len(t) = Len(s) + 1 /\ t[Len(s) + 1] = j
        /\ \A i \in 1 .. Len(s) : t[i] = s[i]
    BY <1>0, <2>1, <2>3, SeqAppend
  <2>5. \A i \in 1 .. Len(t) : i \in 1 .. Len(s) \/ i = Len(s) + 1
    BY <1>0, <2>4
  <2>6. \A i \in 1 .. Len(t) : t[i].id < next_job'
    BY <1>0, <1>1, <1>2, <2>1, <2>2, <2>4, <2>5
  <2>7. \A i, k \in 1 .. Len(t) : i < k => t[i].id < t[k].id
    <3> SUFFICES ASSUME NEW i \in 1 .. Len(t), NEW k \in 1 .. Len(t), i < k
                 PROVE  t[i].id < t[k].id
      OBVIOUS
    <3>1. i \in 1 .. Len(s)
      BY <1>0, <2>4
    <3>2. CASE k \in 1 .. Len(s)
      BY <1>2, <2>4, <3>1, <3>2
    <3>3. CASE k = Len(s) + 1
      BY <1>2, <2>1, <2>4, <3>1, <3>3
    <3> QED
      BY <2>5, <3>2, <3>3
  <2> QED
    BY <2>2, <2>3, <2>6, <2>7 DEF Arrived
<1>5. ASSUME Dequeues PROVE Arrived'
  <2>1. PICK n \in 1 .. Len(s) : s' = Erased(s, n)
    BY <1>5 DEF Dequeues
  <2>2. Started'
    BY <1>1, <1>5 DEF Dequeues
  <2>3. PICK t : t = s'
    OBVIOUS
  <2>4. /\ Len(t) = Len(s) - 1
        /\ \A i \in 1 .. Len(s) - 1 : t[i] = s[IF i < n THEN i ELSE i + 1]
    BY <1>0, <2>1, <2>3, ErasedAt
  <2>5. \A i \in 1 .. Len(t) : /\ (IF i < n THEN i ELSE i + 1) \in 1 .. Len(s)
                               /\ t[i] = s[IF i < n THEN i ELSE i + 1]
    BY <1>0, <2>4
  <2>6. \A i \in 1 .. Len(t) : t[i].id < next_job'
    <3> TAKE i \in 1 .. Len(t)
    <3>1. PICK m \in 1 .. Len(s) : t[i] = s[m]
      BY <2>5
    <3> QED
      BY <1>0, <1>1, <1>2, <3>1
  <2>7. \A i, k \in 1 .. Len(t) : i < k => t[i].id < t[k].id
    <3> SUFFICES ASSUME NEW i \in 1 .. Len(t), NEW k \in 1 .. Len(t), i < k
                 PROVE  t[i].id < t[k].id
      OBVIOUS
    <3>1. PICK a \in 1 .. Len(s), b \in 1 .. Len(s) :
            /\ a = (IF i < n THEN i ELSE i + 1) /\ t[i] = s[a]
            /\ b = (IF k < n THEN k ELSE k + 1) /\ t[k] = s[b]
      BY <2>5
    <3>2. a < b
      BY <3>1
    <3> QED
      BY <1>2, <3>1, <3>2
  <2> QED
    BY <2>2, <2>3, <2>6, <2>7 DEF Arrived
<1> QED
  BY <1>3, <1>4, <1>5, QueueEffect

\* Nobody who is left waiting has room.
NoneHasRoom == \A i \in 1 .. Len(pending_commands) : ~HasRoom(pending_commands[i].cls)

LooksComplete == Running /\ phase \in {"incoming", "top", "control"}

\* NoCommandOverlooked in these words.
LEMMA Overlooked ==
  ASSUME pending_commands \in Seq(Job)
  PROVE  NoCommandOverlooked <=> (LooksComplete => NoneHasRoom)
<1>1. DOMAIN pending_commands = 1 .. Len(pending_commands)
  OBVIOUS
<1> QED
  BY <1>1 DEF NoCommandOverlooked, LooksComplete, NoneHasRoom

\* Dispatching a job makes no room for any class.
LEMMA DispatchRoom ==
  ASSUME TypeOK, NEW j \in Job, j.cls \in Class, Dispatch(j), NEW c \in Class, HasRoom(c)'
  PROVE  HasRoom(c)
<1>1. active_threads'[c] >= active_threads[c] /\ active_threads[c] \in Int
      /\ active_threads'[c] \in Int
  <2>1. active_threads \in [Class -> Int] /\ active_threads' = [active_threads EXCEPT ![j.cls] = @ + 1]
    BY DEF Dispatch, TypeOK
  <2> QED
    BY <2>1
<1>2. active_workers' = active_workers + 1 /\ active_workers \in Int
  <2>0. nworkers \in Nat /\ idle_workers \in Seq(Workers) /\ Len(idle_workers) \in Nat
    BY DEF TypeOK
  <2>1. CASE idle_workers = <<>>
    <3>1. nworkers' = nworkers + 1 /\ idle_workers' = <<>>
      BY <2>1 DEF Dispatch, IdleLeft
    <3>2. Len(<<>>) = 0
      OBVIOUS
    <3> QED
      BY <2>0, <2>1, <3>1, <3>2 DEF active_workers
  <2>2. CASE idle_workers # <<>>
    <3>1. nworkers' = nworkers /\ idle_workers' = SubSeq(idle_workers, 1, Len(idle_workers) - 1)
      BY <2>2 DEF Dispatch, IdleLeft
    <3>2. Len(SubSeq(idle_workers, 1, Len(idle_workers) - 1)) = Len(idle_workers) - 1
      BY <2>0, <2>2, FrontType
    <3>3. nworkers' = nworkers /\ Len(idle_workers') = Len(idle_workers) - 1
      BY <3>1, <3>2
    <3> QED
      BY <2>0, <3>3 DEF active_workers
  <2> QED
    BY <2>1, <2>2
<1>3. active_threads'[c] < reserved_threads[c] \/ active_workers' < general_workers
  BY DEF HasRoom
<1> QED
  BY <1>1, <1>2, <1>3, ReservedType, ThreadsAssumption DEF HasRoom

\* A step that leaves the queue alone and makes no room that matters.
LEMMA RoomFrame ==
  ASSUME TypeOK, PassedOver, NoCommandOverlooked, pending_commands' = pending_commands,
         phase' = "commands" => it' = 1 \/ (phase = "commands" /\ it' = it),
         LooksComplete' => LooksComplete,
         LooksComplete' \/ phase' = "commands" => \A c \in Class : HasRoom(c)' => HasRoom(c)
  PROVE  PassedOver' /\ NoCommandOverlooked'
<1>0. /\ pending_commands \in Seq(Job)
      /\ \A i \in 1 .. Len(pending_commands) : pending_commands[i].cls \in Class
  BY DEF TypeOK, Class
<1>1. NoCommandOverlooked'
  <2> SUFFICES ASSUME LooksComplete' PROVE NoneHasRoom'
    BY <1>0, Overlooked DEF NoCommandOverlooked, LooksComplete, NoneHasRoom
  <2>1. NoneHasRoom
    BY <1>0, Overlooked
  <2> QED
    BY <1>0, <2>1 DEF NoneHasRoom
<1>2. PassedOver'
  <2> SUFFICES ASSUME phase' = "commands", NEW i \in 1 .. Len(pending_commands), i < it',
                      HasRoom(pending_commands[i].cls)'
               PROVE  FALSE
    BY DEF PassedOver
  <2>1. phase = "commands" /\ it' = it
    BY <1>0
  <2>2. ~HasRoom(pending_commands[i].cls)
    BY <2>1 DEF PassedOver
  <2>3. PICK c \in Class : c = pending_commands[i].cls
    BY <1>0
  <2>4. HasRoom(c)'
    BY <2>3
  <2> QED
    BY <2>2, <2>3, <2>4
<1> QED
  BY <1>1, <1>2

\* When no thread is left, every reserved place is taken, so no class has room.
LEMMA FullPool ==
  ASSUME TypeOK, LimitInv, CountInv, Running, active_workers >= max_workers, NEW c \in Class
  PROVE  ~HasRoom(c)
<1> DEFINE n == Cardinality(Taken)
           m == Cardinality(Reserved(Class))
<1>1. max_workers = general_workers + m /\ active_workers <= general_workers + n
  BY DEF LimitInv
<1>2. n \in Nat /\ m \in Nat /\ n <= m /\ Taken \subseteq Reserved(Class)
      /\ IsFiniteSet(Reserved(Class))
  BY TakenFinite, ReservedFinite DEF Taken, TakenBy
<1>3. active_workers \in Int /\ general_workers \in Nat /\ max_workers \in Nat
  <2>1. nworkers \in Nat /\ Len(idle_workers) \in Nat
    BY DEF TypeOK
  <2> QED
    BY <2>1, ThreadsAssumption DEF active_workers, TypeOK
<1> HIDE DEF n, m
<1>4. n = m /\ ~(active_workers < general_workers)
  BY <1>1, <1>2, <1>3
<1>5. Taken = Reserved(Class)
  BY <1>2, <1>4, FS_Subset DEF n, m
<1>6. active_threads[c] \in Nat /\ reserved_threads[c] \in Nat
  BY OnFinite, ReservedType DEF CountInv
<1>7. ~(active_threads[c] < reserved_threads[c])
  <2> SUFFICES ASSUME active_threads[c] < reserved_threads[c] PROVE FALSE
    OBVIOUS
  <2>1. PICK r \in Nat : r = reserved_threads[c] /\ r \in 1 .. reserved_threads[c]
    BY <1>6
  <2>2. <<c, r>> \in Taken
    BY <1>5, <2>1, ReservedMember
  <2>3. r <= active_threads[c]
    BY <2>2 DEF Taken, TakenBy
  <2> QED
    BY <1>6, <2>1, <2>3
<1> QED
  BY <1>4, <1>7 DEF HasRoom

\* proxy_process_queue is done: it got to the end, or no thread is left.
LEMMA DoneRoom ==
  ASSUME TypeOK, LimitInv, CountInv, TagInv, PassedOver, PendingDone
  PROVE  NoneHasRoom'
<1>0. /\ phase = "commands" /\ max_workers # 0
      /\ UNCHANGED <<pending_commands, nworkers, idle_workers, active_threads>>
      /\ it > Len(pending_commands) \/ active_workers >= max_workers
  BY DEF PendingDone, TagInv
<1>1. /\ pending_commands \in Seq(Job) /\ Len(pending_commands) \in Nat /\ it \in Nat
      /\ \A i \in 1 .. Len(pending_commands) : pending_commands[i].cls \in Class
  BY DEF TypeOK, Class
<1>2. NoneHasRoom
  <2>1. CASE it > Len(pending_commands)
    BY <1>0, <1>1, <2>1 DEF PassedOver, NoneHasRoom
  <2>2. CASE active_workers >= max_workers
    <3>1. Running
      BY <1>0 DEF Running, Started
    <3> QED
      BY <1>1, <2>2, <3>1, FullPool DEF NoneHasRoom
  <2> QED
    BY <1>0, <2>1, <2>2
<1> QED
  BY <1>0, <1>2 DEF NoneHasRoom, HasRoom, active_workers

\* A command comes in: whatever becomes of it, nobody is left with room.
LEMMA SubmitRoom ==
  ASSUME TypeOK, PassedOver, NoCommandOverlooked, NEW c \in Category, SubmitCommand(c),
         phase \in {"control", "incoming"}
  PROVE  PassedOver' /\ NoCommandOverlooked'
<1>0. UNCHANGED <<phase, max_workers, it>> /\ c \in Class
  BY DEF SubmitCommand, Class
<1>1. LooksComplete' => LooksComplete
  BY <1>0 DEF LooksComplete, Running, Started
<1>2. CASE HasRoom(c) /\ Dispatch(NewJob(c, "command")) /\ pending_commands' = pending_commands
  <2>1. NewJob(c, "command") \in Job /\ NewJob(c, "command").cls = c
    BY <1>0, NewJobType DEF SubmitCommand
  <2>2. \A d \in Class : HasRoom(d)' => HasRoom(d)
    BY <1>0, <1>2, <2>1, DispatchRoom
  <2> QED
    BY <1>0, <1>1, <1>2, <2>2, RoomFrame
<1>3. CASE UNCHANGED <<poolVars, pending_commands>>
  <2>1. \A d \in Class : HasRoom(d)' => HasRoom(d)
    BY <1>3 DEF HasRoom, active_workers
  <2> QED
    BY <1>0, <1>1, <1>3, <2>1, RoomFrame
<1>4. CASE ~HasRoom(c) /\ QueueCommand(c) /\ UNCHANGED poolVars
  <2>1. pending_commands \in Seq(Job)
    BY DEF TypeOK
  <2>2. PICK j \in Job : pending_commands' = Append(pending_commands, j) /\ j.cls = c
    <3>1. NewJob(c, "command") \in Job /\ NewJob(c, "command").cls = c
      BY <1>0, NewJobType DEF SubmitCommand
    <3> QED
      BY <1>4, <3>1 DEF QueueCommand
  <2>3. PICK t : t = pending_commands'
    OBVIOUS
  <2>4. /\ Len(t) = Len(pending_commands) + 1 /\ t[Len(pending_commands) + 1] = j
        /\ \A i \in 1 .. Len(pending_commands) : t[i] = pending_commands[i]
        /\ t \in Seq(Job) /\ Len(pending_commands) \in Nat
    BY <2>1, <2>2, <2>3, SeqAppend
  <2>5. ASSUME LooksComplete', NEW i \in 1 .. Len(t) PROVE ~HasRoom(t[i].cls)
    <3>1. CASE i \in 1 .. Len(pending_commands)
      BY <1>1, <2>1, <2>4, <2>5, <3>1, Overlooked DEF NoneHasRoom
    <3>2. CASE i = Len(pending_commands) + 1
      BY <1>4, <2>2, <2>4, <3>2
    <3> QED
      BY <2>4, <3>1, <3>2
  <2>6. \A d : HasRoom(d)' <=> HasRoom(d)
    BY <1>4 DEF HasRoom, active_workers
  <2>7. LooksComplete' => \A i \in 1 .. Len(t) : ~HasRoom(t[i].cls)'
    BY <2>5, <2>6
  <2>8. NoCommandOverlooked'
    <3>1. DOMAIN t = 1 .. Len(t)
      BY <2>4, SeqLen
    <3> QED
      BY <2>3, <2>7, <3>1 DEF NoCommandOverlooked, LooksComplete
  <2>9. PassedOver'
    BY <1>0 DEF PassedOver
  <2> QED
    BY <2>8, <2>9
<1> QED
  BY <1>2, <1>3, <1>4 DEF SubmitCommand

\* proxy_process_queue runs a command, or passes over one that has no room.
LEMMA PendingRoom ==
  ASSUME TypeOK, PassedOver, RunPending
  PROVE  PassedOver' /\ NoCommandOverlooked'
<1>0. /\ phase = "commands" /\ phase' = "commands"
      /\ it \in 1 .. Len(pending_commands) /\ pending_commands \in Seq(Job)
      /\ \A i \in 1 .. Len(pending_commands) : pending_commands[i].cls \in Class
      /\ \A i \in 1 .. Len(pending_commands) : i < it => ~HasRoom(pending_commands[i].cls)
  BY DEF RunPending, TypeOK, PassedOver, Class
<1>1. NoCommandOverlooked'
  BY <1>0 DEF NoCommandOverlooked
<1>2. PICK n \in 1 .. Len(pending_commands), j \in Job : n = it /\ j = pending_commands[n]
  BY <1>0
<1>3. CASE HasRoom(j.cls)
  <2>1. /\ Dispatch(j) /\ it' = n
        /\ pending_commands' = Erased(pending_commands, n)
    BY <1>2, <1>3 DEF RunPending, Erased
  <2>2. j.cls \in Class
    BY <1>0, <1>2
  <2>3. PICK t : t = pending_commands'
    OBVIOUS
  <2>4. /\ Len(t) = Len(pending_commands) - 1
        /\ \A i \in 1 .. Len(pending_commands) - 1 :
             t[i] = pending_commands[IF i < n THEN i ELSE i + 1]
    BY <1>0, <2>1, <2>3, ErasedAt
  <2>5. ASSUME NEW i \in 1 .. Len(t), i < n PROVE ~HasRoom(t[i].cls)'
    <3>1. i \in 1 .. Len(pending_commands) /\ t[i] = pending_commands[i]
      BY <2>4, <2>5
    <3>2. PICK d \in Class : d = t[i].cls
      BY <1>0, <3>1
    <3>3. ~HasRoom(d)
      BY <1>0, <1>2, <2>5, <3>1, <3>2
    <3>4. ~HasRoom(d)'
      BY <2>1, <2>2, <3>3, DispatchRoom
    <3> QED
      BY <3>2, <3>4
  <2> QED
    BY <1>1, <2>1, <2>3, <2>5 DEF PassedOver
<1>4. CASE ~HasRoom(j.cls)
  <2>1. it' = n + 1 /\ UNCHANGED <<pending_commands, nworkers, idle_workers, active_threads>>
    BY <1>2, <1>4 DEF RunPending
  <2>2. \A d : HasRoom(d)' <=> HasRoom(d)
    BY <2>1 DEF HasRoom, active_workers
  <2>3. ASSUME NEW i \in 1 .. Len(pending_commands), i < n + 1
        PROVE  ~HasRoom(pending_commands[i].cls)
    <3>1. i = n \/ i < n
      BY <2>3
    <3> QED
      BY <1>0, <1>2, <1>4, <3>1
  <2>4. PICK t : t = pending_commands
    OBVIOUS
  <2>5. \A i \in 1 .. Len(t) : i < n + 1 => ~HasRoom(t[i].cls)'
    BY <2>2, <2>3, <2>4
  <2>6. t = pending_commands'
    BY <2>1, <2>4
  <2> QED
    BY <1>1, <2>1, <2>5, <2>6 DEF PassedOver
<1> QED
  BY <1>3, <1>4

\* Nobody is passed over or left behind who could have run.
LEMMA RoomStep ==
  ASSUME PoolInv, TagInv, OrderInv, [Next]_vars
  PROVE  PassedOver' /\ NoCommandOverlooked'
<1>0. /\ TypeOK /\ LimitInv /\ CountInv /\ PassedOver /\ NoCommandOverlooked /\ Arrived
      /\ pending_commands \in Seq(Job)
  BY DEF PoolInv, OrderInv, TypeOK
<1>1. ASSUME pending_commands' = <<>> PROVE PassedOver' /\ NoCommandOverlooked'
  <2>1. 1 .. Len(<<>>) = {} /\ DOMAIN <<>> = {}
    OBVIOUS
  <2> QED
    BY <1>1, <2>1 DEF PassedOver, NoCommandOverlooked
<1>2. ASSUME UNCHANGED <<pending_commands, nworkers, idle_workers, active_threads>>,
             phase' = "commands" => it' = 1 \/ (phase = "commands" /\ it' = it),
             LooksComplete' => LooksComplete
      PROVE  PassedOver' /\ NoCommandOverlooked'
  <2>1. \A d \in Class : HasRoom(d)' => HasRoom(d)
    BY <1>2 DEF HasRoom, active_workers
  <2> QED
    BY <1>0, <1>2, <2>1, RoomFrame
<1>3. ASSUME phase' \notin {"commands", "incoming", "top", "control"}
      PROVE  PassedOver' /\ NoCommandOverlooked'
  BY <1>3 DEF PassedOver, NoCommandOverlooked
<1>4. CASE UNCHANGED vars \/ Stopped
  BY <1>2, <1>4 DEF vars, Stopped, LooksComplete, Running, Started
<1>5. CASE \/ Setup \/ ReserveDone \/ StartTagged \/ AbandonJoin
           \/ \E c \in Category : ReserveCategory(c)
           \/ \E t \in Tagged : AbandonQuit(t)
  <2>1. ~Started /\ pending_commands' = pending_commands
    BY <1>5 DEF Setup, add_tagged_thread, start, Abandon, ReserveCategory, ReserveDone,
      StartTagged, AbandonQuit, AbandonJoin, Started
  <2> QED
    BY <1>0, <1>1, <2>1 DEF Arrived
<1>6. CASE \E c \in Category : proxy_inject_task(c) \/ proxy_to_worker(c)
  BY <1>0, <1>6, SubmitRoom DEF proxy_inject_task, proxy_to_worker
<1>7. CASE \/ \E q \in {BATCH} \cup Tagged : proxy_batch(q) \/ queue_timer_job(q)
           \/ proxy_schedule_reply_job
  BY <1>2, <1>7 DEF proxy_batch, queue_timer_job, proxy_schedule_reply_job, LooksComplete,
    Running, Started
<1>8. CASE Quit
  BY <1>8 DEF Quit, PassedOver, NoCommandOverlooked, Running
<1>9. CASE LoopTop
  BY <1>2, <1>9 DEF LoopTop, LooksComplete, Running, Started
<1>10. CASE PhaseDone
  BY <1>2, <1>10 DEF PhaseDone, NextPhase, LooksComplete, Running, Started
<1>11. CASE RunTagged
  BY <1>3, <1>11 DEF RunTagged
<1>12. ASSUME NEW q \in {BATCH, REPLY}, proxy_run_batch_jobs(q)
       PROVE  PassedOver' /\ NoCommandOverlooked'
  <2>1. CASE phase' = "commands"
    <3>1. UNCHANGED <<pending_commands, nworkers, idle_workers, active_threads>> /\ it' = 1
      BY <1>12, <2>1 DEF proxy_run_batch_jobs, QueuePhase
    <3> QED
      BY <1>2, <2>1, <3>1 DEF LooksComplete
  <2>2. CASE phase' # "commands"
    BY <1>3, <1>12, <2>2 DEF proxy_run_batch_jobs, QueuePhase
  <2> QED
    BY <2>1, <2>2
<1>13. CASE RunPending
  BY <1>0, <1>13, PendingRoom
<1>14. CASE PendingDone
  <2>1. NoneHasRoom' /\ phase' = "incoming" /\ pending_commands' = pending_commands
    BY <1>0, <1>14, DoneRoom DEF PendingDone
  <2>2. DOMAIN pending_commands = 1 .. Len(pending_commands)
    BY <1>0, SeqLen
  <2> QED
    BY <2>1, <2>2 DEF PassedOver, NoCommandOverlooked, NoneHasRoom
<1>15. CASE \E w \in Threads : proxy_worker_RAN(w) \/ proxy_worker_QUITTING(w)
  BY <1>3, <1>15 DEF proxy_worker_RAN, proxy_worker_QUITTING
<1>16. CASE \E w \in Threads : Worker(w)
  BY <1>2, <1>16 DEF Worker, WorkerStarting, worker_wait_for, WorkerRan, LooksComplete,
    Running, Started
<1> QED
  BY <1>4, <1>5, <1>6, <1>7, <1>8, <1>9, <1>10, <1>11, <1>12, <1>13, <1>14, <1>15, <1>16
  DEF Next, Request, Proxy

-----------------------------------------------------------------------------
(* The theorems.                                                           *)

QueueInv == PoolInv /\ TagInv /\ QueuedInv /\ OrderInv

\* The tagged threads, the counters of the queue and its order hold together.
THEOREM QueueInvariant == Spec => []QueueInv
<1>1. Init => TagInv /\ QueuedInv /\ OrderInv
  <2> SUFFICES ASSUME Init PROVE TagInv /\ QueuedInv /\ OrderInv
    OBVIOUS
  <2>1. TagInv
    BY DEF Init, TagInv
  <2>2. pending_commands = <<>> /\ \A c : Where(<<>>, c) = {}
    BY DEF Init, Where
  <2>3. QueuedInv
    BY <2>2, FS_EmptySet, ThreadsAssumption DEF Init, QueuedInv
  <2>4. OrderInv
    BY <2>2 DEF Init, OrderInv, Arrived, PassedOver, NoCommandOverlooked
  <2> QED
    BY <2>1, <2>3, <2>4
<1>2. PoolInv /\ TagInv /\ QueuedInv /\ OrderInv /\ [Next]_vars => TagInv' /\ QueuedInv' /\ OrderInv'
  <2> SUFFICES ASSUME PoolInv, TagInv, QueuedInv, OrderInv, [Next]_vars
               PROVE  TagInv' /\ QueuedInv' /\ OrderInv'
    OBVIOUS
  <2>1. TypeOK /\ LimitInv /\ Arrived
    BY DEF PoolInv, OrderInv
  <2> QED
    BY <2>1, TagStep, QueuedStep, ArrivedStep, RoomStep DEF OrderInv
<1> QED
  BY <1>1, <1>2, PoolInvariant, PTL DEF Spec, QueueInv

\* The proxy's view of a thread and the thread's stage in the exchange agree.
LEMMA StageOf ==
  ASSUME NEW t
  PROVE  /\ TagWorking(t) => Busy(t)
         /\ TagResting(t) => Idle(t)
         /\ TagGone(t) => Leaving(t)
         /\ Resting(t) => ~Busy(t)
         /\ Gone(t) => ~Busy(t)
<1>1. /\ Tail(<<"START">>) = <<>> /\ Head(<<"START">>) = "START"
      /\ <<"START">> # <<>> /\ <<"START", "RUN">> # <<>> /\ <<"START", "QUIT">> # <<>>
  OBVIOUS
<1>2. /\ Tail(<<"START", "RUN">>) = <<"RUN">> /\ Head(<<"START", "RUN">>) = "START"
      /\ Tail(<<"START", "QUIT">>) = <<"QUIT">> /\ Head(<<"START", "QUIT">>) = "START"
  <2>1. "START" \in {"START", "RUN", "QUIT"} /\ "RUN" \in {"START", "RUN", "QUIT"}
        /\ "QUIT" \in {"START", "RUN", "QUIT"}
    OBVIOUS
  <2> QED
    BY <2>1, MessageTaken
<1>3. pc[t] # "starting" => Stage(t) = State(t)
  BY DEF Stage, State
<1>4. pc[t] = "starting" /\ to_worker[t] = <<"START", "RUN">> /\ to_proxy[t] = <<>> => Busy(t)
  BY <1>1, <1>2 DEF Stage, Busy
<1>5. pc[t] = "starting" /\ to_worker[t] = <<"START">> /\ to_proxy[t] = <<>> => Idle(t)
  BY <1>1, <1>2 DEF Stage, Idle
<1>6. pc[t] = "starting" /\ to_worker[t] = <<"START", "QUIT">> /\ to_proxy[t] = <<>> => Leaving(t)
  BY <1>1, <1>2 DEF Stage, Leaving
<1>7. ASSUME Working(t) PROVE Busy(t)
  <2>1. pc[t] # "starting"
    BY <1>7 DEF Working, State
  <2> QED
    BY <1>3, <1>7, <2>1 DEF Working, Busy
<1>8. ASSUME Resting(t) PROVE Idle(t) /\ ~Busy(t)
  <2>1. pc[t] # "starting"
    BY <1>8 DEF Resting, State
  <2> QED
    BY <1>3, <1>8, <2>1 DEF Resting, Idle, Busy
<1>9. ASSUME Gone(t) PROVE Leaving(t) /\ ~Busy(t)
  <2>1. pc[t] # "starting"
    BY <1>9 DEF Gone, State
  <2> QED
    BY <1>3, <1>9, <2>1 DEF Gone, Leaving, Busy
<1>10. TagWorking(t) => Busy(t)
  BY <1>4, <1>7 DEF TagWorking, State
<1>11. TagResting(t) => Idle(t)
  BY <1>5, <1>8 DEF TagResting, State
<1>12. TagGone(t) => Leaving(t)
  BY <1>6, <1>9 DEF TagGone, State
<1> QED
  BY <1>8, <1>9, <1>10, <1>11, <1>12

\* The proxy and every thread agree on whose turn it is: nobody is given a job
\* while at work, and everybody is told QUIT exactly once, pool thread or tagged
\* thread, for any number of either.
THEOREM ThreadsInStep == Spec => []WorkerProtocol
<1>1. ASSUME QueueInv PROVE WorkerProtocol
  <2>1. TypeOK /\ ExchangeInv /\ TagInv
    BY <1>1 DEF QueueInv, PoolInv
  <2>2. \A w : w \in Range(idle_workers) <=> IsIdle(w)
    BY <2>1 DEF Range, IsIdle, TypeOK
  <2>3. ASSUME NEW w \in Workers
        PROVE  IF w \in Range(idle_workers) THEN Idle(w)
               ELSE Busy(w) \/ (max_workers = 0 /\ Leaving(w))
    <3>1. /\ IsIdle(w) => Resting(w)
          /\ ~IsIdle(w) => Working(w) \/ (max_workers = 0 /\ Gone(w))
      BY <2>1 DEF ExchangeInv
    <3> QED
      BY <2>2, <3>1, StageOf DEF TagWorking, TagResting, TagGone
  <2>4. ASSUME Started, NEW t \in tagged
        PROVE  IF busy[t] THEN Busy(t) ELSE Idle(t) \/ (max_workers = 0 /\ Leaving(t))
    <3>1. /\ busy[t] => TagWorking(t)
          /\ ~busy[t] => TagResting(t) \/ (max_workers = 0 /\ TagGone(t))
      BY <2>1, <2>4 DEF TagInv, InStep
    <3> QED
      BY <3>1, StageOf
  <2> QED
    BY <2>3, <2>4 DEF WorkerProtocol
<1> QED
  BY <1>1, QueueInvariant, PTL

\* The counters that the dispatch decisions and the queue limits rest on are the
\* numbers they stand for.
THEOREM CountersAreExact == Spec => []CountersExact
<1>1. ASSUME QueueInv PROVE CountersExact
  <2>1. TypeOK /\ ExchangeInv /\ CountInv /\ QueuedInv
    BY <1>1 DEF QueueInv, PoolInv
  <2>2. \A w \in Workers : Working(w) <=> Busy(w)
    BY <2>1, StageOf DEF ExchangeInv, TagWorking
  <2>3. \A c \in Class : On(c) = {w \in Workers : Busy(w) /\ run[w].cls = c}
    BY <2>2 DEF On
  <2>4. DOMAIN pending_commands = 1 .. Len(pending_commands)
    BY <2>1 DEF TypeOK
  <2>5. \A c \in Category :
          Where(pending_commands, c) = {i \in DOMAIN pending_commands : pending_commands[i].cls = c}
    BY <2>4 DEF Where
  <2> QED
    BY <2>1, <2>3, <2>5 DEF CountersExact, CountInv, QueuedInv
<1> QED
  BY <1>1, QueueInvariant, PTL

\* Between two rounds of worker messages no pending command has a thread it could
\* run on, for any mix of categories and reservations.
THEOREM NothingOverlooked == Spec => []NoCommandOverlooked
<1>1. QueueInv => NoCommandOverlooked
  BY DEF QueueInv, OrderInv
<1> QED
  BY <1>1, QueueInvariant, PTL

\* Tagged threads are added only while none of them has got past START: a thread
\* holds no reference into tagged_workers when it is reallocated.
THEOREM ReferencesStable == Spec => TaggedReferenceStable
<1>1. ASSUME QueueInv, [Next]_vars, tagged' # tagged, NEW t \in tagged
      PROVE  pc[t] \in {"connecting", "starting"} /\ to_worker[t] = <<>>
  <2>1. phase = "setup"
    BY <1>1 DEF Next, vars, Setup, Request, Proxy, Worker, Stopped, add_tagged_thread,
      start, Abandon, proxy_inject_task, proxy_to_worker, SubmitCommand, proxy_batch,
      queue_timer_job, proxy_schedule_reply_job, Quit, ReserveCategory, ReserveDone, StartTagged,
      AbandonQuit, AbandonJoin, LoopTop, PhaseDone, RunTagged, proxy_run_batch_jobs,
      RunPending, PendingDone, proxy_worker_RAN, proxy_worker_QUITTING,
      WorkerStarting, worker_wait_for, WorkerRan
  <2>2. Early(t)
    BY <1>1, <2>1 DEF QueueInv, TagInv, InStep
  <2> QED
    BY <2>2 DEF Early, State
<1>2. QueueInv /\ [Next]_vars =>
        [tagged' # tagged => \A t \in tagged : pc[t] \in {"connecting", "starting"}
                                               /\ to_worker[t] = <<>>]_vars
  BY <1>1
<1> QED
  BY <1>2, QueueInvariant, PTL DEF Spec, TaggedReferenceStable

\* A job that starts now is not ahead of a pending command of its class.
InTurn(j) == \A i \in 1 .. Len(pending_commands) :
               pending_commands[i].cls = j.cls => pending_commands[i].id >= j.id

StartsInTurn ==
  \A w \in DOMAIN run' : w \notin Threads \/ run'[w] # run[w] => InTurn(run'[w])

\* Dispatch loads one thread only.
LEMMA DispatchLoads ==
  ASSUME TypeOK, NEW j, Dispatch(j), InTurn(j)
  PROVE  StartsInTurn
<1>1. PICK u : run' = Put(run, u, j)
  BY DEF Dispatch
<1>2. DOMAIN run = Threads
  BY DEF TypeOK
<1>3. ASSUME NEW w \in DOMAIN run', w \notin Threads \/ run'[w] # run[w]
      PROVE  run'[w] = j
  <2>1. DOMAIN run' = DOMAIN run \cup {u} /\ run'[w] = IF w = u THEN j ELSE run[w]
    BY <1>1 DEF Put
  <2> QED
    BY <1>2, <1>3, <2>1
<1> QED
  BY <1>3 DEF StartsInTurn

\* Every step that loads a job loads the one whose turn it is.
LEMMA TurnStep ==
  ASSUME QueueInv, Running, [Next]_vars
  PROVE  StartsInTurn
<1>0. /\ TypeOK /\ Arrived /\ PassedOver /\ NoCommandOverlooked /\ Started
      /\ pending_commands \in Seq(Job) /\ DOMAIN run = Threads
      /\ \A i \in 1 .. Len(pending_commands) : pending_commands[i].cls \in Category
  BY DEF QueueInv, PoolInv, OrderInv, TypeOK, Running
<1>1. ASSUME run' = run PROVE StartsInTurn
  BY <1>0, <1>1 DEF StartsInTurn
<1>2. CASE Setup
  BY <1>0, <1>2 DEF Setup, add_tagged_thread, start, Abandon, Started
<1>3. ASSUME NEW c \in Category, SubmitCommand(c), phase \in {"control", "incoming"}
      PROVE  StartsInTurn
  <2>1. CASE UNCHANGED threadVars
    BY <1>1, <2>1
  <2>2. CASE HasRoom(c) /\ Dispatch(NewJob(c, "command"))
    <3>1. NoneHasRoom
      BY <1>0, <1>3, Overlooked DEF LooksComplete
    <3>2. NewJob(c, "command").cls = c
      BY DEF NewJob
    <3>3. InTurn(NewJob(c, "command"))
      BY <2>2, <3>1, <3>2 DEF NoneHasRoom, InTurn
    <3> QED
      BY <1>0, <2>2, <3>3, DispatchLoads
  <2> QED
    BY <1>3, <2>1, <2>2 DEF SubmitCommand
<1>4. CASE RunTagged
  <2>1. ASSUME NEW w \in DOMAIN run', w \notin Threads \/ run'[w] # run[w]
        PROVE  InTurn(run'[w])
    <3>1. DOMAIN run' = Threads /\ run'[w] = IF w \in Ready THEN Head(jobs[w]) ELSE run[w]
      BY <1>4, <2>1 DEF RunTagged
    <3>2. w \in Ready /\ run'[w] = Head(jobs[w])
      BY <2>1, <3>1
    <3>3. w \in tagged /\ jobs[w] # <<>>
      BY <3>2 DEF Ready
    <3>4. Head(jobs[w]).cls = w
      BY <1>0, <3>3, JobsHeadTail DEF TypeOK
    <3>5. w \notin Category
      BY <1>0, <3>3, ClassAssumption DEF TypeOK, Class
    <3> QED
      BY <1>0, <3>2, <3>4, <3>5 DEF InTurn
  <2> QED
    BY <2>1 DEF StartsInTurn
<1>5. ASSUME NEW q \in {BATCH, REPLY}, proxy_run_batch_jobs(q)
      PROVE  StartsInTurn
  <2>1. CASE UNCHANGED threadVars
    BY <1>1, <2>1
  <2>2. CASE jobs[q] # <<>> /\ Dispatch(Head(jobs[q]))
    <3>1. Head(jobs[q]).cls = q
      BY <1>0, <2>2, JobsHeadTail DEF TypeOK
    <3>2. q \notin Category
      BY ClassAssumption
    <3>3. InTurn(Head(jobs[q]))
      BY <1>0, <3>1, <3>2 DEF InTurn
    <3> QED
      BY <1>0, <2>2, <3>3, DispatchLoads
  <2> QED
    BY <1>5, <2>1, <2>2 DEF proxy_run_batch_jobs
<1>6. CASE RunPending
  <2>1. CASE UNCHANGED threadVars
    BY <1>1, <2>1
  <2>2. CASE HasRoom(pending_commands[it].cls) /\ Dispatch(pending_commands[it])
    <3>1. /\ it \in 1 .. Len(pending_commands) /\ Len(pending_commands) \in Nat
          /\ \A i \in 1 .. Len(pending_commands) : pending_commands[i].id \in Int
      <4>1. \A j \in Job : j.id \in Int
        BY ThreadsAssumption DEF Job
      <4> QED
        BY <1>0, <1>6, <4>1 DEF RunPending, TypeOK
    <3>2. \A i \in 1 .. Len(pending_commands) : i < it => ~HasRoom(pending_commands[i].cls)
      BY <1>0, <1>6 DEF PassedOver, RunPending
    <3>3. \A i \in 1 .. Len(pending_commands) :
            it < i => pending_commands[it].id < pending_commands[i].id
      BY <1>0, <3>1 DEF Arrived
    <3>4. ASSUME NEW i \in 1 .. Len(pending_commands),
                 pending_commands[i].cls = pending_commands[it].cls
          PROVE  pending_commands[i].id >= pending_commands[it].id
      <4>1. ~(i < it)
        BY <2>2, <3>2, <3>4
      <4>2. i = it \/ it < i
        BY <3>1, <4>1
      <4> QED
        BY <3>1, <3>3, <4>2
    <3>5. InTurn(pending_commands[it])
      BY <3>4 DEF InTurn
    <3> QED
      BY <1>0, <2>2, <3>5, DispatchLoads
  <2> QED
    BY <1>6, <2>1, <2>2 DEF RunPending
<1>7. CASE \/ UNCHANGED vars \/ Stopped
           \/ \E q \in {BATCH} \cup Tagged : proxy_batch(q) \/ queue_timer_job(q)
           \/ proxy_schedule_reply_job \/ Quit
           \/ \E c \in Category : ReserveCategory(c)
           \/ ReserveDone \/ StartTagged \/ AbandonJoin
           \/ \E t \in Tagged : AbandonQuit(t)
           \/ LoopTop \/ PhaseDone \/ PendingDone
           \/ \E w \in Threads : proxy_worker_RAN(w) \/ proxy_worker_QUITTING(w) \/ Worker(w)
  BY <1>1, <1>7 DEF vars, Stopped, proxy_batch, queue_timer_job, proxy_schedule_reply_job, Quit,
    ReserveCategory, ReserveDone, StartTagged, AbandonJoin, AbandonQuit, LoopTop, PhaseDone,
    PendingDone, proxy_worker_RAN, proxy_worker_QUITTING, Worker, WorkerStarting,
    worker_wait_for, WorkerRan
<1> QED
  BY <1>2, <1>3, <1>4, <1>5, <1>6, <1>7
  DEF Next, Request, Proxy, proxy_inject_task, proxy_to_worker

\* Commands of one category start in the order they came, though a new one is
\* dispatched without a look at the queue: when it finds room, none of its
\* category is waiting.
THEOREM CommandsInOrder == Spec => CategoryFifo
<1>1. QueueInv /\ [Next]_vars =>
        [Running => \A w \in DOMAIN run' : w \notin Threads \/ run'[w] # run[w] =>
           \A i \in DOMAIN pending_commands :
             pending_commands[i].cls = run'[w].cls => pending_commands[i].id >= run'[w].id]_vars
  <2> SUFFICES ASSUME QueueInv, [Next]_vars, Running,
                      NEW w \in DOMAIN run', w \notin Threads \/ run'[w] # run[w]
               PROVE  \A i \in DOMAIN pending_commands :
                        pending_commands[i].cls = run'[w].cls => pending_commands[i].id >= run'[w].id
    OBVIOUS
  <2>1. InTurn(run'[w])
    BY TurnStep DEF StartsInTurn
  <2>2. DOMAIN pending_commands = 1 .. Len(pending_commands)
    BY DEF QueueInv, PoolInv, TypeOK
  <2> QED
    BY <2>1, <2>2 DEF InTurn
<1> QED
  BY <1>1, QueueInvariant, PTL DEF Spec, CategoryFifo
=============================================================================
