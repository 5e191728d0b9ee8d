-------------------------- MODULE BatchStepProofs --------------------------
(***************************************************************************)
(* What is to be run of a batch waits in one place of one queue, or one    *)
(* worker has it, or one RAN (PlacesInv).  So the count of a batch the     *)
(* proxy owns is the number of its jobs that are somewhere, and the        *)
(* completion function is somewhere just when none of them is (CountInv).  *)
(*                                                                         *)
(* The first part says what each way of moving items does to their places  *)
(* and to the count.  The second shows that the invariant holds at the     *)
(* start and that filling, handing over and taking a batch keeps it;       *)
(* BatchesProofs has the other steps.                                      *)
(***************************************************************************)
EXTENDS Batches, FiniteSetTheorems, TLAPS

\* The order in which the provers are tried.
USE ZenonT(2), SMTT(20)

USE DEF batchVars, workVars, timerVars, idVars

-----------------------------------------------------------------------------
(* The inductive invariant.                                                *)

Message == [cmd : {"BATCH"}, b : Address]
           \cup [cmd : {"TIMER"}, id : Nat, squelch : BOOLEAN, thread : Place \cup {InProxy}]
           \cup [cmd : {"TIMER_DEL"}, id : Nat]

TypeInv ==
  /\ TypeOK
  /\ heap \in [DOMAIN heap -> Object] /\ DOMAIN heap \subseteq DOMAIN plan
  /\ batches \subseteq DOMAIN heap
  /\ control \in [Client -> Seq(Message)] /\ calls \in [Address -> Seq(Int)]
  /\ timer_zmq_id \in [DOMAIN timer_zmq_id -> DOMAIN timer_jobs]

\* The item for job i of batch b, and the one that a worker has.
Piece(b, i) == [b |-> b, job |-> i]
ItemOf(r) == Piece(r.b, r.job)

\* An item waits in one place, or one worker has it, or one RAN.
PlacesInv ==
  /\ \A p, q \in Place : \A j \in DOMAIN queue[p], k \in DOMAIN queue[q] :
       queue[p][j] = queue[q][k] => p = q /\ j = k
  /\ \A r, s \in running \cup ran : ItemOf(r) = ItemOf(s) => r = s
  /\ running \cap ran = {}
  /\ \A r \in running \cup ran : \A p \in Place : \A k \in DOMAIN queue[p] :
       queue[p][k] # ItemOf(r)

Waiting == {x \in Item : \E p \in Place : \E k \in DOMAIN queue[p] : queue[p][k] = x}
Working == {ItemOf(r) : r \in running}
Done == {ItemOf(r) : r \in ran}

Pending == Waiting \cup Working

\* The jobs of batch b, of n, that are among the items in S.
Left(S, b, n) == {i \in 1 .. n : Piece(b, i) \in S}

\* The object o of a batch the proxy owns, of n jobs, when c was called, the items
\* in P are to be run and those in D are done.
Owned(b, o, n, c, P, D) ==
  /\ o.outstanding = Cardinality(Left(P \cup D, b, n))
  /\ Piece(b, -1) \in P \cup D <=> Left(P \cup D, b, n) = {}
  /\ Piece(b, -1) \in P \cup D => o.complete \in Place
  /\ \A i \in 1 .. n : i \in Range(c) <=> Piece(b, i) \notin P
  /\ -1 \in Range(c) <=> Piece(b, -1) \in D

\* What an object keeps of the plan it was made with.
Planned(o, p) ==
  /\ Len(o.threads) = p.jobs /\ o.complete = p.complete
  /\ p.jobs \in (1 .. MaxJobs) \cup {1}

\* An object that waits to be taken by the proxy.
Posted(o, p, c) == o.outstanding = p.jobs /\ o.timer = NoTimer /\ c = <<>>

CountInv ==
  /\ \A b \in DOMAIN heap : Planned(heap[b], plan[b])
  /\ \A b \in DOMAIN heap \ batches : Posted(heap[b], plan[b], calls[b])
  /\ \A b \in batches : Owned(b, heap[b], plan[b].jobs, calls[b], Pending, Done)
  /\ \A b \in Address \ DOMAIN plan : calls[b] = <<>>
  /\ \A x \in Pending \cup Done :
       x.b \in batches /\ x.job \in (1 .. plan[x.b].jobs) \cup {-1}
  /\ object.outstanding = Len(object.threads) /\ Len(object.threads) <= MaxJobs
  /\ object.timer = NoTimer

\* A batch that was handed over is in one message until the proxy takes it.
PostInv ==
  /\ \A c \in Client : \A k \in DOMAIN control[c] :
       control[c][k].cmd = "BATCH" => control[c][k].b \in DOMAIN heap \ batches
  /\ \A c, d \in Client : \A j \in DOMAIN control[c], k \in DOMAIN control[d] :
       /\ control[c][j].cmd = "BATCH" /\ control[d][k].cmd = "BATCH"
       /\ control[c][j].b = control[d][k].b
       => c = d /\ j = k

\* The completion function of a timer's job.
TimerBatch(o, jobs) ==
  o.timer # NoTimer =>
    /\ o.timer \in DOMAIN jobs
    /\ o.complete = IF jobs[o.timer].squelch THEN InProxy ELSE NoFunction

\* A timer with `squelch` has at most one batch, and one just when it is marked.
TimerInv ==
  /\ \A b \in batches : TimerBatch(heap[b], timer_jobs)
  /\ \A z \in DOMAIN timer_jobs : timer_jobs[z].squelch =>
       /\ timer_jobs[z].running <=> \E b \in batches : heap[b].timer = z
       /\ \A a, b \in batches : heap[a].timer = z /\ heap[b].timer = z => a = b

\* A timer is added by one message of its owner, which its owner's cancellation
\* follows.
CancelInv ==
  /\ CancelledStaysQuiet
  /\ \A x, y \in DOMAIN timer_zmq_id : timer_zmq_id[x] = timer_zmq_id[y] => x = y
  /\ \A c \in Client : \A k \in DOMAIN control[c] :
       control[c][k].cmd = "TIMER" =>
         LET id == control[c][k].id IN
         /\ id \in DOMAIN owner /\ owner[id] = c
         /\ id \notin disowned /\ id \notin DOMAIN timer_zmq_id
         /\ \A j \in DOMAIN control[c] :
              control[c][j].cmd # "BATCH" /\ control[c][j].id = id /\ j # k
              => j > k /\ control[c][j].cmd = "TIMER_DEL"
  /\ \A c \in Client : \A k \in DOMAIN control[c] :
       control[c][k].cmd # "BATCH" => control[c][k].id \in DOMAIN owner

BatchInv == TypeInv /\ PlacesInv /\ CountInv /\ PostInv /\ TimerInv /\ CancelInv

-----------------------------------------------------------------------------
(* The jobs of a batch for one thread, in their order.                     *)

\* Induction over the natural numbers, for a set of them.
LEMMA NatSetInduction ==
  ASSUME NEW S \in SUBSET Nat, 0 \in S, \A n \in S : n + 1 \in S
  PROVE  S = Nat
<1> DEFINE T == Nat \ S
           R == OpToRel(<, Nat)
<1>1. SUFFICES ASSUME T # {} PROVE FALSE
  OBVIOUS
<1>2. T \subseteq Nat
  OBVIOUS
<1>3. IsWellFoundedOn(R, Nat)
  BY NatLessThanWellFounded
<1> HIDE DEF R
<1>4. PICK x \in T : \A y \in T : ~ (<<y, x>> \in R)
  BY ONLY <1>1, <1>2, <1>3, WFMin
<1>5. \A y \in Nat : y < x => <<y, x>> \in R
  BY DEF R, OpToRel
<1>6. x # 0 /\ x \in Nat
  OBVIOUS
<1>7. x - 1 \in Nat /\ x - 1 < x
  BY <1>6
<1>8. x - 1 \in S
  BY <1>4, <1>5, <1>7
<1> QED
  BY <1>8, <1>7, <1>6

Rising(s, n) == \A j, k \in 1 .. n : j < k => s[j] < s[k]

\* Any set of jobs can be put in order.
LEMMA OrderExists ==
  ASSUME NEW n \in Nat, NEW J \in SUBSET (1 .. n)
  PROVE  /\ IsFiniteSet(J) /\ Cardinality(J) \in Nat
         /\ \E s \in Surjection(1 .. Cardinality(J), J) : Rising(s, Cardinality(J))
<1> DEFINE Sorted(K) == \E s \in Surjection(1 .. Cardinality(K), K) : Rising(s, Cardinality(K))
           Good == {m \in Nat : \A K \in SUBSET (1 .. m) : Sorted(K)}
<1>1. \A m \in Nat : \A K \in SUBSET (1 .. m) : IsFiniteSet(K) /\ Cardinality(K) \in Nat
  <2> TAKE m \in Nat
  <2> TAKE K \in SUBSET (1 .. m)
  <2>1. IsFiniteSet(1 .. m)
    BY FS_Interval
  <2>2. IsFiniteSet(K)
    BY ONLY <2>1, K \in SUBSET (1 .. m), FS_Subset
  <2> QED
    BY <2>2, FS_CardinalityType
<1>2. 0 \in Good
  <2>1. SUFFICES Sorted({})
    <3>1. \A K \in SUBSET (1 .. 0) : K = {}
      OBVIOUS
    <3> HIDE DEF Sorted
    <3> QED
      BY <3>1, <2>1
  <2>2. Cardinality({}) = 0
    BY FS_EmptySet
  <2>3. [i \in 1 .. 0 |-> i] \in Surjection(1 .. 0, {})
    BY DEF Surjection
  <2>4. Rising([i \in 1 .. 0 |-> i], 0)
    BY DEF Rising
  <2> QED
    BY <2>2, <2>3, <2>4
<1>3. ASSUME NEW m \in Good
      PROVE  m + 1 \in Good
  <2>1. SUFFICES ASSUME NEW K \in SUBSET (1 .. m + 1)
                 PROVE  Sorted(K)
    BY SMT
  <2>2. CASE m + 1 \notin K
    <3>1. K \in SUBSET (1 .. m)
      BY <2>2
    <3> QED
      BY <3>1
  <2>3. CASE m + 1 \in K
    <3> DEFINE L == K \ {m + 1}
               c == Cardinality(L)
    <3>1. L \in SUBSET (1 .. m)
      OBVIOUS
    <3>2. PICK s \in Surjection(1 .. c, L) : Rising(s, c)
      BY <3>1
    <3>3. c \in Nat /\ IsFiniteSet(L)
      BY <3>1, <1>1
    <3>4. K = L \cup {m + 1} /\ m + 1 \notin L
      BY <2>3
    <3>5. Cardinality(K) = c + 1
      BY <3>3, <3>4, FS_AddElement
    <3> DEFINE t == [k \in 1 .. c + 1 |-> IF k = c + 1 THEN m + 1 ELSE s[k]]
    <3> HIDE DEF c, L
    <3>6. s \in [1 .. c -> L] /\ \A x \in L : \E k \in 1 .. c : s[k] = x
      BY <3>2 DEF Surjection
    <3>7. \A k \in 1 .. c : k \in 1 .. c + 1 /\ k # c + 1 /\ t[k] = s[k] /\ s[k] \in L
      BY <3>3, <3>6
    <3>8. c + 1 \in 1 .. c + 1 /\ t[c + 1] = m + 1
      BY <3>3
    <3>9. t \in [1 .. c + 1 -> K]
      BY <3>3, <3>4, <3>6
    <3>10. t \in Surjection(1 .. c + 1, K)
      BY <3>4, <3>6, <3>7, <3>8, <3>9 DEF Surjection
    <3>11. Rising(t, c + 1)
      <4> SUFFICES ASSUME NEW j \in 1 .. c + 1, NEW k \in 1 .. c + 1, j < k
                   PROVE  t[j] < t[k]
        BY DEF Rising
      <4>1. j \in 1 .. c
        BY <3>3
      <4>2. CASE k = c + 1
        <5>1. t[j] \in L /\ t[k] = m + 1
          BY <4>1, <4>2, <3>7, <3>8
        <5> HIDE DEF t
        <5>2. t[j] \in 1 .. m /\ m \in Nat
          BY <5>1, <3>1
        <5> QED
          BY <5>1, <5>2
      <4>3. CASE k # c + 1
        <5>1. k \in 1 .. c
          BY <4>3, <3>3
        <5> QED
          BY <4>1, <5>1, <3>2, <3>7 DEF Rising
      <4> QED
        BY <4>2, <4>3
    <3> QED
      BY <3>5, <3>10, <3>11
  <2> QED
    BY <2>2, <2>3
<1>4. Good = Nat
  <2> HIDE DEF Good
  <2>1. Good \in SUBSET Nat
    BY DEF Good
  <2> QED
    BY ONLY <1>2, <1>3, <2>1, NatSetInduction
<1> QED
  BY <1>1, <1>4

\* InOrder gives every job once, from the first to the last.
LEMMA InOrderProperties ==
  ASSUME NEW n \in Nat, NEW J \in SUBSET (1 .. n)
  PROVE  LET s == InOrder(J) IN
         /\ s \in Seq(J)
         /\ \A i \in J : \E k \in DOMAIN s : s[k] = i
         /\ \A j, k \in DOMAIN s : s[j] = s[k] => j = k
<1> DEFINE s == InOrder(J)
           c == Cardinality(J)
<1>0. \A x \in J : x \in Int
  OBVIOUS
<1>1. c \in Nat /\ \E t \in Surjection(1 .. c, J) : Rising(t, c)
  BY OrderExists
<1>2. s \in Surjection(1 .. c, J) /\ Rising(s, c)
  BY <1>1 DEF InOrder, Rising
<1> HIDE DEF s, c
<1>3. s \in [1 .. c -> J] /\ \A i \in J : \E k \in 1 .. c : s[k] = i
  BY <1>2 DEF Surjection
<1>4. s \in Seq(J) /\ DOMAIN s = 1 .. c
  BY <1>1, <1>3
<1>5. ASSUME NEW j \in 1 .. c, NEW k \in 1 .. c, s[j] = s[k]
      PROVE  j = k
  <2>1. s[j] \in J /\ s[k] \in J
    BY <1>3
  <2>2. s[j] \in Int /\ s[k] \in Int
    BY <2>1, <1>0
  <2>3. (j < k => s[j] < s[k]) /\ (k < j => s[k] < s[j])
    BY <1>2 DEF Rising
  <2>4. j \in Int /\ k \in Int
    BY <1>1
  <2> QED
    BY <2>2, <2>3, <2>4, <1>5
<1> QED
  BY <1>3, <1>4, <1>5 DEF s

-----------------------------------------------------------------------------
(* Control messages and items on the move.                                 *)

\* send_control puts one message behind those on the socket of its thread.
LEMMA Sent ==
  ASSUME control \in [Client -> Seq(Message)], NEW c \in Client, NEW m \in Message,
         control' = [control EXCEPT ![c] = Append(@, m)]
  PROVE  /\ control' \in [Client -> Seq(Message)]
         /\ \A d \in Client : \A k \in DOMAIN control[d] :
              k \in DOMAIN control'[d] /\ control'[d][k] = control[d][k]
         /\ \A d \in Client : \A k \in DOMAIN control'[d] :
              \/ k \in DOMAIN control[d] /\ control'[d][k] = control[d][k]
              \/ d = c /\ k = Len(control[c]) + 1 /\ control'[d][k] = m
<1> DEFINE s == control[c]
<1>1. s \in Seq(Message)
  OBVIOUS
<1>2. control'[c] = Append(s, m) /\ \A d \in Client \ {c} : control'[d] = control[d]
  OBVIOUS
<1> HIDE DEF s
<1>3. /\ Append(s, m) \in Seq(Message) /\ Len(Append(s, m)) = Len(s) + 1
      /\ \A k \in 1 .. Len(s) : Append(s, m)[k] = s[k]
      /\ Append(s, m)[Len(s) + 1] = m
  BY <1>1
<1>4. control' \in [Client -> Seq(Message)]
  BY <1>2, <1>3
<1>5. DOMAIN s = 1 .. Len(s) /\ DOMAIN Append(s, m) = 1 .. Len(s) + 1 /\ Len(s) \in Nat
  BY <1>1, <1>3
<1>6. /\ \A k \in DOMAIN s : k \in DOMAIN Append(s, m) /\ Append(s, m)[k] = s[k]
      /\ \A k \in DOMAIN Append(s, m) :
           \/ k \in DOMAIN s /\ Append(s, m)[k] = s[k]
           \/ k = Len(s) + 1 /\ Append(s, m)[k] = m
  BY <1>3, <1>5
<1> QED
  BY <1>2, <1>4, <1>6 DEF s

\* The proxy takes the first message of one socket.
LEMMA Taken ==
  ASSUME control \in [Client -> Seq(Message)], NEW c \in Client, control[c] # <<>>,
         control' = [control EXCEPT ![c] = Tail(@)]
  PROVE  /\ control' \in [Client -> Seq(Message)]
         /\ 1 \in DOMAIN control[c] /\ Head(control[c]) = control[c][1] /\ control[c][1] \in Message
         /\ \A d \in Client : \A k \in DOMAIN control'[d] :
              LET j == IF d = c THEN k + 1 ELSE k IN
              j \in DOMAIN control[d] /\ control'[d][k] = control[d][j] /\ k \in Nat \ {0}
<1> DEFINE s == control[c]
<1>1. s \in Seq(Message) /\ s # <<>>
  OBVIOUS
<1>2. control'[c] = Tail(s) /\ \A d \in Client \ {c} : control'[d] = control[d]
  OBVIOUS
<1> HIDE DEF s
<1>3. /\ Tail(s) \in Seq(Message) /\ Len(Tail(s)) = Len(s) - 1
      /\ \A k \in 1 .. Len(Tail(s)) : Tail(s)[k] = s[k + 1]
  BY <1>1
<1>4. control' \in [Client -> Seq(Message)]
  BY <1>2, <1>3
<1>5. DOMAIN s = 1 .. Len(s) /\ DOMAIN Tail(s) = 1 .. Len(s) - 1 /\ Len(s) \in Nat /\ Len(s) # 0
  BY <1>1, <1>3
<1>6. 1 \in DOMAIN s /\ Head(s) = s[1] /\ s[1] \in Message
  BY <1>1, <1>5
<1>7. \A k \in DOMAIN Tail(s) : k + 1 \in DOMAIN s /\ Tail(s)[k] = s[k + 1] /\ k \in Nat \ {0}
  BY <1>3, <1>5
<1>8. \A d \in Client : \A k \in DOMAIN control[d] : k \in Nat \ {0}
  OBVIOUS
<1> QED
  BY <1>2, <1>4, <1>6, <1>7, <1>8 DEF s

\* u holds the elements of s where s has them, and behind them those of t.
Joined(s, t, u, S) ==
  /\ u \in Seq(S)
  /\ \A k \in DOMAIN s : k \in DOMAIN u /\ u[k] = s[k]
  /\ \A k \in DOMAIN t : \E l \in DOMAIN u : u[l] = t[k]
  /\ \A k \in DOMAIN u :
       \/ k \in DOMAIN s /\ u[k] = s[k]
       \/ \E l \in DOMAIN t : u[k] = t[l] /\ k = Len(s) + l

\* Where the elements of s and of t are in s \o t.
LEMMA ConcatPlaces ==
  ASSUME NEW S, NEW s \in Seq(S), NEW t \in Seq(S), NEW u, u = s \o t
  PROVE  Joined(s, t, u, S)
<1> DEFINE m == Len(s)
           n == Len(t)
<1>1. /\ u \in Seq(S) /\ Len(u) = m + n /\ m \in Nat /\ n \in Nat
      /\ DOMAIN s = 1 .. m /\ DOMAIN t = 1 .. n /\ DOMAIN u = 1 .. m + n
  OBVIOUS
<1>2. \A k \in 1 .. m + n : u[k] = IF k <= m THEN s[k] ELSE t[k - m]
  OBVIOUS
<1> HIDE DEF m, n
<1>3. \A k \in 1 .. m : k \in 1 .. m + n /\ k <= m
  BY <1>1
<1>4. \A k \in 1 .. n : m + k \in 1 .. m + n /\ ~(m + k <= m) /\ (m + k) - m = k
  BY <1>1
<1>5. \A k \in 1 .. m + n : ~(k <= m) => k - m \in 1 .. n /\ k = m + (k - m)
  BY <1>1
<1>6. \A k \in 1 .. m + n : k <= m => k \in 1 .. m
  BY <1>1
<1>7. \A k \in DOMAIN s : k \in DOMAIN u /\ u[k] = s[k]
  BY <1>1, <1>2, <1>3
<1>8. ASSUME NEW k \in DOMAIN t
      PROVE  \E l \in DOMAIN u : u[l] = t[k]
  <2>1. m + k \in DOMAIN u /\ u[m + k] = t[k]
    BY <1>1, <1>2, <1>4
  <2> QED
    BY <2>1
<1>9. ASSUME NEW k \in DOMAIN u
      PROVE  \/ k \in DOMAIN s /\ u[k] = s[k]
             \/ \E l \in DOMAIN t : u[k] = t[l] /\ k = m + l
  <2>1. CASE k <= m
    BY <2>1, <1>1, <1>2, <1>6
  <2>2. CASE ~(k <= m)
    <3>1. k - m \in DOMAIN t /\ u[k] = t[k - m] /\ k = m + (k - m)
      BY <2>2, <1>1, <1>2, <1>5
    <3> QED
      BY <3>1
  <2> QED
    BY <2>1, <2>2
<1> QED
  BY <1>1, <1>7, <1>8, <1>9 DEF Joined, m

\* The items in F go behind those of each queue.
Enqueue(F) == queue' = [p \in Place |-> queue[p] \o F[p]]

QueueType == queue \in [Place -> Seq(Item)]

\* The items in F are new, each in one place.
NewItems(F) ==
  /\ F \in [Place -> Seq(Item)]
  /\ \A p, q \in Place : \A j \in DOMAIN F[p], k \in DOMAIN F[q] :
       F[p][j] = F[q][k] => p = q /\ j = k
  /\ \A p \in Place : \A j \in DOMAIN F[p] : F[p][j] \notin Waiting \cup Working \cup Done

\* New items that go to the queues wait there, each in its own place.
LEMMA Enqueued ==
  ASSUME QueueType, PlacesInv, NEW F, NewItems(F), Enqueue(F), running' = running, ran' \subseteq ran
  PROVE  /\ QueueType' /\ PlacesInv'
         /\ Waiting' = Waiting \cup {x \in Item : \E p \in Place : \E k \in DOMAIN F[p] : F[p][k] = x}
<1>0. DOMAIN queue = Place /\ DOMAIN queue' = Place /\ DOMAIN F = Place
  BY DEF QueueType, Enqueue, NewItems
<1>1. \A p \in Place :
        /\ queue'[p] \in Seq(Item)
        /\ \A k \in DOMAIN queue[p] : k \in DOMAIN queue'[p] /\ queue'[p][k] = queue[p][k]
        /\ \A k \in DOMAIN F[p] : \E l \in DOMAIN queue'[p] : queue'[p][l] = F[p][k]
        /\ \A k \in DOMAIN queue'[p] :
             \/ k \in DOMAIN queue[p] /\ queue'[p][k] = queue[p][k]
             \/ \E l \in DOMAIN F[p] : queue'[p][k] = F[p][l] /\ k = Len(queue[p]) + l
  <2> SUFFICES ASSUME NEW p \in Place
               PROVE  /\ queue'[p] \in Seq(Item)
                      /\ \A k \in DOMAIN queue[p] : k \in DOMAIN queue'[p] /\ queue'[p][k] = queue[p][k]
                      /\ \A k \in DOMAIN F[p] : \E l \in DOMAIN queue'[p] : queue'[p][l] = F[p][k]
                      /\ \A k \in DOMAIN queue'[p] :
                           \/ k \in DOMAIN queue[p] /\ queue'[p][k] = queue[p][k]
                           \/ \E l \in DOMAIN F[p] : queue'[p][k] = F[p][l] /\ k = Len(queue[p]) + l
    OBVIOUS
  <2>1. queue'[p] = queue[p] \o F[p]
    BY DEF Enqueue
  <2>2. queue[p] \in Seq(Item) /\ F[p] \in Seq(Item)
    BY DEF QueueType, NewItems
  <2> DEFINE s == queue[p]
             f == F[p]
             u == queue'[p]
  <2> HIDE DEF s, f, u
  <2>3. s \in Seq(Item) /\ f \in Seq(Item) /\ u = s \o f
    BY <2>1, <2>2 DEF s, f, u
  <2>4. Joined(s, f, u, Item)
    BY ONLY <2>3, ConcatPlaces
  <2> QED
    BY <2>4 DEF Joined, s, f, u
<1>2. QueueType'
  BY <1>1 DEF QueueType, Enqueue
<1>3. \A p \in Place : \A k \in DOMAIN queue[p] : queue[p][k] \in Item /\ queue[p][k] \in Waiting
  BY DEF Waiting, QueueType
<1>4. \A p \in Place : \A k \in DOMAIN F[p] : F[p][k] \in Item /\ F[p][k] \notin Waiting \cup Working \cup Done
  BY DEF NewItems
<1>5. Waiting' = Waiting \cup {x \in Item : \E p \in Place : \E k \in DOMAIN F[p] : F[p][k] = x}
  <2>1. Waiting' = {x \in Item : \E p \in Place : \E k \in DOMAIN queue'[p] : queue'[p][k] = x}
    BY DEF Waiting
  <2>2. Waiting = {x \in Item : \E p \in Place : \E k \in DOMAIN queue[p] : queue[p][k] = x}
    BY DEF Waiting
  <2>3. \A x \in Item :
          (\E p \in Place : \E k \in DOMAIN queue'[p] : queue'[p][k] = x)
          <=> \/ \E p \in Place : \E k \in DOMAIN queue[p] : queue[p][k] = x
              \/ \E p \in Place : \E k \in DOMAIN F[p] : F[p][k] = x
    BY <1>1
  <2> QED
    BY <2>1, <2>2, <2>3
<1>6. ASSUME NEW p \in Place, NEW q \in Place, NEW j \in DOMAIN queue'[p], NEW k \in DOMAIN queue'[q],
             queue'[p][j] = queue'[q][k]
      PROVE  p = q /\ j = k
  <2> DEFINE Old(x, m) == m \in DOMAIN queue[x] /\ queue'[x][m] = queue[x][m]
             Added(x, m) == \E l \in DOMAIN F[x] : queue'[x][m] = F[x][l] /\ m = Len(queue[x]) + l
  <2>1. CASE Old(p, j) /\ Old(q, k)
    <3>1. j \in DOMAIN queue[p] /\ k \in DOMAIN queue[q] /\ queue[p][j] = queue[q][k]
      BY <1>6, <2>1
    <3>2. \A x, y \in Place : \A m \in DOMAIN queue[x], n \in DOMAIN queue[y] :
            queue[x][m] = queue[y][n] => x = y /\ m = n
      BY DEF PlacesInv
    <3> QED
      BY ONLY <3>1, <3>2, <1>0, p \in Place, q \in Place
  <2>2. CASE Added(p, j) /\ Added(q, k)
    <3>1. PICK l \in DOMAIN F[p] : queue'[p][j] = F[p][l] /\ j = Len(queue[p]) + l
      BY <2>2
    <3>2. PICK n \in DOMAIN F[q] : queue'[q][k] = F[q][n] /\ k = Len(queue[q]) + n
      BY <2>2
    <3>3. p = q /\ l = n
      <4>1. F[p][l] = F[q][n]
        BY <1>6, <3>1, <3>2
      <4>2. \A x, y \in Place : \A a \in DOMAIN F[x], b \in DOMAIN F[y] :
              F[x][a] = F[y][b] => x = y /\ a = b
        BY DEF NewItems
      <4> QED
        BY ONLY <4>1, <4>2, <1>0, p \in Place, q \in Place, l \in DOMAIN F[p], n \in DOMAIN F[q]
    <3> QED
      BY <3>1, <3>2, <3>3
  <2>3. (Old(p, j) \/ Added(p, j)) /\ (Old(q, k) \/ Added(q, k))
    BY <1>1
  <2>4. CASE Old(p, j) /\ Added(q, k)
    BY ZenonT(30), <1>3, <1>4, <1>6, <2>4
  <2>5. CASE Added(p, j) /\ Old(q, k)
    BY ZenonT(30), <1>3, <1>4, <1>6, <2>5
  <2> QED
    BY <2>1, <2>2, <2>3, <2>4, <2>5
<1>7. ASSUME NEW r \in (running \cup ran)', NEW p \in Place, NEW k \in DOMAIN queue'[p]
      PROVE  queue'[p][k] # ItemOf(r)
  <2>1. r \in running \cup ran
    OBVIOUS
  <2>2. ItemOf(r) \in Working \cup Done
    BY <2>1 DEF Working, Done
  <2>3. \A m \in DOMAIN queue[p] : queue[p][m] # ItemOf(r)
    BY <2>1 DEF PlacesInv
  <2> QED
    BY <1>1, <1>4, <2>2, <2>3
<1>8. PlacesInv'
  <2>1. /\ \A r, s \in (running \cup ran)' : ItemOf(r) = ItemOf(s) => r = s
        /\ (running \cap ran)' = {}
    BY DEF PlacesInv
  <2> QED
    BY <1>6, <1>7, <2>1 DEF PlacesInv
<1> QED
  BY <1>2, <1>5, <1>8

\* One new item at the end of one queue.
LEMMA OneEnqueued ==
  ASSUME QueueType, PlacesInv, NEW p \in Place, NEW x \in Item,
         x \notin Waiting \cup Working \cup Done,
         queue' = [queue EXCEPT ![p] = Append(@, x)], running' = running, ran' \subseteq ran
  PROVE  QueueType' /\ PlacesInv' /\ Waiting' = Waiting \cup {x}
<1> DEFINE F == [q \in Place |-> IF q = p THEN <<x>> ELSE <<>>]
<1>1. <<x>> \in Seq(Item) /\ DOMAIN <<x>> = {1} /\ <<x>>[1] = x
  OBVIOUS
<1>2. <<>> \in Seq(Item) /\ DOMAIN <<>> = {}
  OBVIOUS
<1>3. F \in [Place -> Seq(Item)] /\ F[p] = <<x>> /\ \A q \in Place : q # p => F[q] = <<>>
  BY <1>1, <1>2
<1> HIDE DEF F
<1>4. /\ DOMAIN F[p] = {1} /\ F[p][1] = x
      /\ \A q \in Place : q # p => DOMAIN F[q] = {}
  BY <1>1, <1>2, <1>3
<1>5. NewItems(F)
  BY <1>3, <1>4 DEF NewItems
<1>6. Enqueue(F)
  <2>1. queue' \in [Place -> Seq(Item)]
    BY DEF QueueType
  <2>2. \A q \in Place : queue[q] \in Seq(Item)
    BY DEF QueueType
  <2>3. queue'[p] = Append(queue[p], x) /\ \A q \in Place : q # p => queue'[q] = queue[q]
    BY DEF QueueType
  <2>4. Append(queue[p], x) = queue[p] \o <<x>>
    BY <2>2
  <2>5. \A q \in Place : queue[q] \o <<>> = queue[q]
    BY <2>2
  <2>6. \A q \in Place : queue'[q] = queue[q] \o F[q]
    BY ONLY <1>3, <2>3, <2>4, <2>5, p \in Place
  <2> QED
    BY ONLY <2>1, <2>6 DEF Enqueue
<1>7. {y \in Item : \E q \in Place : \E k \in DOMAIN F[q] : F[q][k] = y} = {x}
  BY <1>4
<1> QED
  BY <1>5, <1>6, <1>7, Enqueued


\* Where the elements of s are in its tail.
LEMMA TailPlaces ==
  ASSUME NEW S, NEW s \in Seq(S), s # <<>>
  PROVE  /\ Tail(s) \in Seq(S) /\ 1 \in DOMAIN s /\ Head(s) = s[1] /\ s[1] \in S
         /\ \A k \in DOMAIN Tail(s) :
              k + 1 \in DOMAIN s /\ Tail(s)[k] = s[k + 1] /\ k \in Nat \ {0}
         /\ \A k \in DOMAIN s : k = 1 \/ \E l \in DOMAIN Tail(s) : Tail(s)[l] = s[k]
<1> DEFINE m == Len(s)
<1>1. /\ Tail(s) \in Seq(S) /\ Len(Tail(s)) = m - 1 /\ m \in Nat \ {0}
      /\ DOMAIN s = 1 .. m /\ DOMAIN Tail(s) = 1 .. m - 1
  OBVIOUS
<1>2. \A k \in 1 .. m - 1 : Tail(s)[k] = s[k + 1]
  BY <1>1
<1>3. Head(s) = s[1] /\ s[1] \in S
  BY <1>1
<1> HIDE DEF m
<1>4. \A k \in 1 .. m - 1 : k + 1 \in 1 .. m /\ k \in Nat \ {0}
  BY <1>1
<1>5. \A k \in 1 .. m : k = 1 \/ (k - 1 \in 1 .. m - 1 /\ (k - 1) + 1 = k)
  BY <1>1
<1>6. ASSUME NEW k \in DOMAIN s, k # 1
      PROVE  \E l \in DOMAIN Tail(s) : Tail(s)[l] = s[k]
  <2>1. k - 1 \in DOMAIN Tail(s) /\ Tail(s)[k - 1] = s[k]
    BY <1>1, <1>2, <1>5, <1>6
  <2> QED
    BY <2>1
<1>7. \A k \in DOMAIN Tail(s) : k + 1 \in DOMAIN s /\ Tail(s)[k] = s[k + 1] /\ k \in Nat \ {0}
  BY <1>1, <1>2, <1>4
<1>8. 1 \in DOMAIN s
  BY <1>1
<1> QED
  BY <1>1, <1>3, <1>6, <1>7, <1>8

Dequeue(p) == queue[p] # <<>> /\ queue' = [queue EXCEPT ![p] = Tail(@)]

\* A worker is given the item at the head of a queue.
LEMMA Dequeued ==
  ASSUME QueueType, PlacesInv, NEW p \in Place, Dequeue(p),
         NEW r, r = [place |-> p, b |-> Head(queue[p]).b, job |-> Head(queue[p]).job],
         running' = running \cup {r}, ran' = ran
  PROVE  /\ QueueType' /\ PlacesInv' /\ r \in Run
         /\ ItemOf(r) \in Waiting /\ Waiting' = Waiting \ {ItemOf(r)}
         /\ Working' = Working \cup {ItemOf(r)} /\ Done' = Done
<1> DEFINE s == queue[p]
           x == Head(s)
<1>1. s \in Seq(Item) /\ s # <<>>
  BY DEF QueueType, Dequeue
<1>2. DOMAIN queue = Place /\ DOMAIN queue' = Place
  BY DEF QueueType, Dequeue
<1>3. queue'[p] = Tail(s) /\ \A q \in Place \ {p} : queue'[q] = queue[q]
  BY <1>2 DEF Dequeue
<1>4. QueueType'
  <2>1. Tail(s) \in Seq(Item)
    BY <1>1
  <2> QED
    BY <2>1 DEF QueueType, Dequeue
<1>5. x \in Item
  BY <1>1
<1>6. x = [b |-> x.b, job |-> x.job] /\ x.b \in Address /\ x.job \in (1 .. MaxJobs) \cup {1, -1}
  BY <1>5 DEF Item
<1>7. r \in Run /\ ItemOf(r) = x
  BY <1>6 DEF Run, ItemOf, Piece
<1> HIDE DEF s, x
<1>8. /\ 1 \in DOMAIN s /\ x = s[1]
      /\ \A k \in DOMAIN Tail(s) : k + 1 \in DOMAIN s /\ Tail(s)[k] = s[k + 1] /\ k \in Nat \ {0}
      /\ \A k \in DOMAIN s : k = 1 \/ \E l \in DOMAIN Tail(s) : Tail(s)[l] = s[k]
  BY <1>1, TailPlaces DEF x
<1>9. \A q \in Place : \A k \in DOMAIN queue'[q] :
        \E j \in DOMAIN queue[q] : /\ queue'[q][k] = queue[q][j]
                                   /\ j = IF q = p THEN k + 1 ELSE k
                                   /\ q = p => k \in Nat \ {0}
  <2> TAKE q \in Place
  <2> TAKE k \in DOMAIN queue'[q]
  <2>1. CASE q = p
    <3>1. k \in DOMAIN Tail(s) /\ queue'[q][k] = Tail(s)[k]
      BY <1>3, <2>1
    <3>2. k + 1 \in DOMAIN queue[q] /\ queue'[q][k] = queue[q][k + 1] /\ k \in Nat \ {0}
      BY <1>8, <2>1, <3>1 DEF s
    <3> QED
      BY <2>1, <3>2
  <2>2. CASE q # p
    <3>1. k \in DOMAIN queue[q] /\ queue'[q][k] = queue[q][k]
      BY <1>3, <2>2
    <3> QED
      BY <2>2, <3>1
  <2> QED
    BY <2>1, <2>2
<1>10. \A q \in Place : \A j \in DOMAIN queue[q] :
         (q = p /\ j = 1) \/ \E k \in DOMAIN queue'[q] : queue'[q][k] = queue[q][j]
  <2> TAKE q \in Place
  <2> TAKE j \in DOMAIN queue[q]
  <2>1. CASE q = p
    <3>1. j \in DOMAIN s /\ queue[q][j] = s[j]
      BY <2>1 DEF s
    <3> QED
      BY <1>3, <1>8, <2>1, <3>1
  <2>2. CASE q # p
    BY <1>3, <2>2
  <2> QED
    BY <2>1, <2>2
<1>11. 1 \in DOMAIN queue[p] /\ queue[p][1] = x
  BY <1>8 DEF s
<1>12. \A a, q \in Place : \A j \in DOMAIN queue[a], k \in DOMAIN queue[q] :
         queue[a][j] = queue[q][k] => a = q /\ j = k
  BY DEF PlacesInv
<1>13. \A q \in Place : \A k \in DOMAIN queue'[q] : queue'[q][k] # x
  <2> TAKE q \in Place
  <2> TAKE k \in DOMAIN queue'[q]
  <2>1. PICK j \in DOMAIN queue[q] : /\ queue'[q][k] = queue[q][j]
                                     /\ j = IF q = p THEN k + 1 ELSE k
                                     /\ q = p => k \in Nat \ {0}
    BY <1>9
  <2>2. ~(q = p /\ j = 1)
    BY <2>1
  <2>3. queue[q][j] # queue[p][1]
    BY ONLY <1>2, <1>11, <1>12, <2>2, p \in Place, q \in Place, j \in DOMAIN queue[q]
  <2> QED
    BY <2>1, <2>3, <1>11
<1>14. Waiting' = Waiting \ {x} /\ x \in Waiting
  <2>1. Waiting' = {y \in Item : \E q \in Place : \E k \in DOMAIN queue'[q] : queue'[q][k] = y}
    BY DEF Waiting
  <2>2. Waiting = {y \in Item : \E q \in Place : \E k \in DOMAIN queue[q] : queue[q][k] = y}
    BY DEF Waiting
  <2>3. \A y : (\E q \in Place : \E k \in DOMAIN queue'[q] : queue'[q][k] = y)
              => y # x /\ \E q \in Place : \E k \in DOMAIN queue[q] : queue[q][k] = y
    BY <1>9, <1>13
  <2>4. \A y : y # x /\ (\E q \in Place : \E k \in DOMAIN queue[q] : queue[q][k] = y)
              => \E q \in Place : \E k \in DOMAIN queue'[q] : queue'[q][k] = y
    BY <1>10, <1>11
  <2>5. x \in Waiting
    BY <2>2, <1>5, <1>11
  <2> QED
    BY <2>1, <2>2, <2>3, <2>4, <2>5
<1>15. ASSUME NEW a \in Place, NEW q \in Place, NEW j \in DOMAIN queue'[a], NEW k \in DOMAIN queue'[q],
              queue'[a][j] = queue'[q][k]
       PROVE  a = q /\ j = k
  <2>1. PICK m \in DOMAIN queue[a] : /\ queue'[a][j] = queue[a][m]
                                     /\ m = IF a = p THEN j + 1 ELSE j
                                     /\ a = p => j \in Nat \ {0}
    BY <1>9
  <2>2. PICK n \in DOMAIN queue[q] : /\ queue'[q][k] = queue[q][n]
                                     /\ n = IF q = p THEN k + 1 ELSE k
                                     /\ q = p => k \in Nat \ {0}
    BY <1>9
  <2>3. queue[a][m] = queue[q][n]
    BY <1>15, <2>1, <2>2
  <2>4. a = q /\ m = n
    BY ONLY <1>2, <1>12, <2>3, a \in Place, q \in Place, m \in DOMAIN queue[a], n \in DOMAIN queue[q]
  <2> QED
    BY <2>1, <2>2, <2>4
<1>16. \A q \in running \cup ran : ItemOf(q) # x
  BY <1>11 DEF PlacesInv
<1>17. r \notin running \cup ran
  BY <1>7, <1>16
<1>18. \A q \in running \cup ran : \A a \in Place : \A k \in DOMAIN queue'[a] : queue'[a][k] # ItemOf(q)
  BY <1>9 DEF PlacesInv
<1>19. PlacesInv'
  <2>1. \A a, q \in (running \cup ran)' : ItemOf(a) = ItemOf(q) => a = q
    BY <1>7, <1>16 DEF PlacesInv
  <2>2. (running \cap ran)' = {}
    BY <1>17 DEF PlacesInv
  <2>3. \A q \in (running \cup ran)' : \A a \in Place : \A k \in DOMAIN queue'[a] : queue'[a][k] # ItemOf(q)
    BY <1>7, <1>13, <1>18
  <2> QED
    BY <1>15, <2>1, <2>2, <2>3 DEF PlacesInv
<1>20. Working' = Working \cup {x} /\ Done' = Done
  BY <1>7 DEF Working, Done
<1> QED
  BY <1>4, <1>7, <1>14, <1>19, <1>20

\* A worker sends RAN with the item it has run.
LEMMA Moved ==
  ASSUME PlacesInv, UNCHANGED queue, NEW r \in running,
         running' = running \ {r}, ran' = ran \cup {r}
  PROVE  /\ PlacesInv' /\ Waiting' = Waiting
         /\ ItemOf(r) \in Working /\ ItemOf(r) \notin Waiting
         /\ Working' = Working \ {ItemOf(r)} /\ Done' = Done \cup {ItemOf(r)}
<1>1. (running \cup ran)' = running \cup ran /\ (running \cap ran)' = {}
  BY DEF PlacesInv
<1>2. PlacesInv'
  BY <1>1 DEF PlacesInv
<1>3. \A q \in running : ItemOf(q) = ItemOf(r) => q = r
  BY DEF PlacesInv
<1>4. Working' = Working \ {ItemOf(r)} /\ ItemOf(r) \in Working
  BY <1>3 DEF Working
<1>5. Done' = Done \cup {ItemOf(r)}
  BY DEF Done
<1>6. ItemOf(r) \notin Waiting
  BY DEF PlacesInv, Waiting
<1> QED
  BY <1>2, <1>4, <1>5, <1>6 DEF Waiting

\* The proxy takes a RAN: nobody has its item any more.
LEMMA Counted ==
  ASSUME PlacesInv, NEW r \in ran, ran' = ran \ {r}, UNCHANGED running
  PROVE  /\ ItemOf(r) \in Done /\ ItemOf(r) \notin Waiting \cup Working
         /\ Working' = Working /\ Done' = Done \ {ItemOf(r)}
<1>1. \A q \in running \cup ran : ItemOf(q) = ItemOf(r) => q = r
  BY DEF PlacesInv
<1>2. r \notin running
  BY DEF PlacesInv
<1>3. Done' = Done \ {ItemOf(r)} /\ ItemOf(r) \in Done
  BY <1>1 DEF Done
<1>4. ItemOf(r) \notin Working
  BY <1>1, <1>2 DEF Working
<1>5. ItemOf(r) \notin Waiting
  BY DEF PlacesInv, Waiting
<1> QED
  BY <1>3, <1>4, <1>5 DEF Working

\* The same when nothing is added to a queue.
LEMMA CountedOnly ==
  ASSUME PlacesInv, NEW r \in ran, ran' = ran \ {r}, UNCHANGED <<running, queue>>
  PROVE  PlacesInv' /\ Waiting' = Waiting
<1>1. (running \cup ran)' \subseteq running \cup ran /\ (running \cap ran)' = {}
  BY DEF PlacesInv
<1> QED
  BY <1>1 DEF PlacesInv, Waiting

-----------------------------------------------------------------------------
(* The count of one batch.                                                 *)

\* A piece of work is the batch and the job it names.
LEMMA Pieces ==
  /\ \A a, b, i, j : Piece(a, i) = Piece(b, j) <=> a = b /\ i = j
  /\ \A b, i : Piece(b, i).b = b /\ Piece(b, i).job = i
  /\ \A x \in Item : x = Piece(x.b, x.job)
BY DEF Piece, Item

\* The jobs left of a batch are finitely many, and none when their number is 0.
LEMMA LeftProperties ==
  ASSUME NEW S, NEW b, NEW n \in Nat
  PROVE  /\ IsFiniteSet(Left(S, b, n)) /\ Cardinality(Left(S, b, n)) \in Nat
         /\ Cardinality(Left(S, b, n)) = 0 <=> Left(S, b, n) = {}
<1> DEFINE L == Left(S, b, n)
<1>1. L \in SUBSET (1 .. n)
  BY DEF Left
<1>2. IsFiniteSet(1 .. n)
  BY FS_Interval
<1> HIDE DEF L
<1>3. IsFiniteSet(L)
  BY ONLY <1>1, <1>2, FS_Subset
<1>4. Cardinality(L) \in Nat /\ (Cardinality(L) = 0 <=> L = {})
  BY <1>3, FS_CardinalityType, FS_EmptySet
<1> QED
  BY <1>3, <1>4 DEF L

\* A job that is counted is not left.
LEMMA LeftLess ==
  ASSUME NEW S, NEW b, NEW n \in Nat, NEW i \in 1 .. n, Piece(b, i) \in S
  PROVE  /\ Left(S \ {Piece(b, i)}, b, n) = Left(S, b, n) \ {i} /\ i \in Left(S, b, n)
         /\ Cardinality(Left(S \ {Piece(b, i)}, b, n)) = Cardinality(Left(S, b, n)) - 1
<1>1. Left(S \ {Piece(b, i)}, b, n) = Left(S, b, n) \ {i} /\ i \in Left(S, b, n)
  BY Pieces DEF Left
<1>2. IsFiniteSet(Left(S, b, n))
  BY LeftProperties
<1>3. Cardinality(Left(S, b, n) \ {i}) = Cardinality(Left(S, b, n)) - 1
  BY <1>1, <1>2, FS_RemoveElement
<1> QED
  BY <1>1, <1>3

\* The count of a batch only depends on its own items.
LEMMA OwnedFrame ==
  ASSUME NEW b, NEW o, NEW q, NEW n, NEW c, NEW P, NEW D, NEW Q, NEW E,
         Owned(b, o, n, c, P, D),
         q.outstanding = o.outstanding, q.complete = o.complete,
         \A i : Piece(b, i) \in P <=> Piece(b, i) \in Q,
         \A i : Piece(b, i) \in D <=> Piece(b, i) \in E
  PROVE  Owned(b, q, n, c, Q, E)
<1>1. Left(P \cup D, b, n) = Left(Q \cup E, b, n)
  BY DEF Left
<1> QED
  BY <1>1 DEF Owned

\* What is called is added to the calls.
LEMMA RangeAppend ==
  ASSUME NEW s \in Seq(Int), NEW x \in Int
  PROVE  Append(s, x) \in Seq(Int) /\ Range(Append(s, x)) = Range(s) \cup {x}
<1> DEFINE u == Append(s, x)
           m == Len(s)
<1>1. /\ u \in Seq(Int) /\ m \in Nat /\ DOMAIN s = 1 .. m /\ DOMAIN u = 1 .. m + 1
      /\ u[m + 1] = x /\ \A k \in 1 .. m : u[k] = s[k]
  OBVIOUS
<1> HIDE DEF u, m
<1>2. \A k \in 1 .. m + 1 : k \in 1 .. m \/ k = m + 1
  BY <1>1
<1>3. m + 1 \in 1 .. m + 1 /\ \A k \in 1 .. m : k \in 1 .. m + 1
  BY <1>1
<1>4. Range(u) = Range(s) \cup {x}
  <2>1. Range(u) \subseteq Range(s) \cup {x}
    BY <1>1, <1>2 DEF Range
  <2>2. Range(s) \cup {x} \subseteq Range(u)
    BY <1>1, <1>3 DEF Range
  <2> QED
    BY <2>1, <2>2
<1> QED
  BY <1>1, <1>4 DEF u

\* A worker has run a job of the batch, or its completion function.
LEMMA OwnedRun ==
  ASSUME NEW b, NEW o, NEW q, NEW n \in Nat, NEW c \in Seq(Int), NEW P, NEW D, NEW j \in Int,
         Owned(b, o, n, c, P, D), Piece(b, j) \in P, j \in 1 .. n \/ j = -1,
         q.outstanding = o.outstanding, q.complete = o.complete
  PROVE  Owned(b, q, n, Append(c, j), P \ {Piece(b, j)}, D \cup {Piece(b, j)})
<1> DEFINE Q == P \ {Piece(b, j)}
           E == D \cup {Piece(b, j)}
           r == Range(Append(c, j))
<1>1. Q \cup E = P \cup D
  OBVIOUS
<1>2. r = Range(c) \cup {j}
  BY RangeAppend
<1>3. \A i : Piece(b, i) \in Q <=> Piece(b, i) \in P /\ i # j
  BY Pieces
<1>4. Piece(b, -1) \in E <=> Piece(b, -1) \in D \/ j = -1
  BY Pieces
<1> HIDE DEF Q, E, r
<1>5. \A i \in 1 .. n : i \in r <=> Piece(b, i) \notin Q
  BY <1>2, <1>3 DEF Owned
<1>6. -1 \in r <=> Piece(b, -1) \in E
  BY <1>2, <1>4 DEF Owned
<1>7. Owned(b, q, n, Append(c, j), Q, E)
  BY <1>1, <1>5, <1>6 DEF Owned, r
<1> QED
  BY <1>7 DEF Q, E

\* The proxy counts a job that is not the last.
LEMMA OwnedCount ==
  ASSUME NEW b, NEW o, NEW q, NEW n \in Nat, NEW c, NEW P, NEW D, NEW j \in 1 .. n,
         Owned(b, o, n, c, P, D), Piece(b, j) \in D, Piece(b, j) \notin P,
         o.outstanding > 1, q.outstanding = o.outstanding - 1, q.complete = o.complete
  PROVE  Owned(b, q, n, c, P, D \ {Piece(b, j)})
<1> DEFINE E == D \ {Piece(b, j)}
<1>1. P \cup E = (P \cup D) \ {Piece(b, j)}
  OBVIOUS
<1>2. /\ Left(P \cup E, b, n) = Left(P \cup D, b, n) \ {j} /\ j \in Left(P \cup D, b, n)
      /\ Cardinality(Left(P \cup E, b, n)) = Cardinality(Left(P \cup D, b, n)) - 1
  BY <1>1, LeftLess
<1>3. Cardinality(Left(P \cup D, b, n)) \in Nat
  BY LeftProperties
<1>4. Cardinality(Left(P \cup E, b, n)) # 0
  BY <1>2, <1>3 DEF Owned
<1>5. Left(P \cup E, b, n) # {}
  BY <1>4, LeftProperties
<1>6. Piece(b, -1) \in E <=> Piece(b, -1) \in D
  <2>1. j # -1
    OBVIOUS
  <2> QED
    BY <2>1, Pieces
<1>7. Piece(b, -1) \notin P \cup D
  BY <1>2 DEF Owned
<1> HIDE DEF E
<1>8. Owned(b, q, n, c, P, E)
  BY <1>2, <1>5, <1>6, <1>7 DEF Owned
<1> QED
  BY <1>8 DEF E

\* Of the pieces of batch b only piece j is in S: every other job was called, and
\* the completion function was not.
OnlyLeft(b, n, c, j, S) ==
  /\ \A i \in (1 .. n) \cup {-1} : Piece(b, i) \in S => i = j
  /\ 1 .. n \subseteq Range(c) /\ -1 \notin Range(c)

\* The last job: nothing else is left of the batch, and all of its jobs were run.
LEMMA OwnedLast ==
  ASSUME NEW b, NEW o, NEW n \in Nat, NEW c, NEW P, NEW D, NEW j \in 1 .. n,
         Owned(b, o, n, c, P, D), Piece(b, j) \in D, Piece(b, j) \notin P,
         ~(o.outstanding > 1)
  PROVE  OnlyLeft(b, n, c, j, P \cup D)
<1> DEFINE L == Left(P \cup D, b, n)
           M == Left((P \cup D) \ {Piece(b, j)}, b, n)
<1>1. M = L \ {j} /\ j \in L /\ Cardinality(M) = Cardinality(L) - 1
  BY LeftLess
<1>2. Cardinality(L) \in Nat /\ Cardinality(M) \in Nat /\ (Cardinality(M) = 0 <=> M = {})
  BY LeftProperties
<1>3. o.outstanding = Cardinality(L)
  BY DEF Owned
<1> HIDE DEF L, M
<1>4. M = {}
  BY <1>1, <1>2, <1>3
<1>5. L = {j}
  BY <1>1, <1>4
<1>6. \A i \in 1 .. n : Piece(b, i) \in P \cup D => i = j
  BY <1>5 DEF L, Left
<1>7. Piece(b, -1) \notin P \cup D
  BY <1>5 DEF L, Owned
<1>8. 1 .. n \subseteq Range(c) /\ -1 \notin Range(c)
  BY <1>6, <1>7 DEF Owned
<1> QED
  BY <1>6, <1>7, <1>8 DEF OnlyLeft

\* The completion function is to run when the last job was counted.
LEMMA OwnedClosing ==
  ASSUME NEW b, NEW o, NEW q, NEW n \in Nat, NEW c, NEW P, NEW D, NEW j \in 1 .. n,
         Owned(b, o, n, c, P, D), Piece(b, j) \in D, Piece(b, j) \notin P,
         ~(o.outstanding > 1), q.outstanding = 0, q.complete \in Place
  PROVE  Owned(b, q, n, c, P \cup {Piece(b, -1)}, D \ {Piece(b, j)})
<1> DEFINE Q == P \cup {Piece(b, -1)}
           E == D \ {Piece(b, j)}
<1>1. /\ \A i \in (1 .. n) \cup {-1} : Piece(b, i) \in P \cup D => i = j
      /\ 1 .. n \subseteq Range(c) /\ -1 \notin Range(c)
  BY OwnedLast DEF OnlyLeft
<1>2. j # -1 /\ \A i \in 1 .. n : i # -1
  OBVIOUS
<1>3. \A i \in 1 .. n : Piece(b, i) \notin Q
  BY <1>1, <1>2, Pieces
<1>4. \A i \in 1 .. n : Piece(b, i) \notin E
  BY <1>1, Pieces
<1>5. Piece(b, -1) \in Q /\ Piece(b, -1) \notin E
  BY <1>1, <1>2
<1> HIDE DEF Q, E
<1>6. Left(Q \cup E, b, n) = {}
  BY <1>3, <1>4 DEF Left
<1>7. Cardinality(Left(Q \cup E, b, n)) = 0
  BY <1>6, FS_EmptySet
<1>8. Owned(b, q, n, c, Q, E)
  BY <1>1, <1>3, <1>5, <1>6, <1>7 DEF Owned
<1> QED
  BY <1>8 DEF Q, E

\* The completion function was run: nothing is left of the batch.
LEMMA OwnedClosed ==
  ASSUME NEW b, NEW o, NEW n \in Nat, NEW c, NEW P, NEW D,
         Owned(b, o, n, c, P, D), Piece(b, -1) \in D
  PROVE  /\ \A i \in 1 .. n : Piece(b, i) \notin P \cup D
         /\ 1 .. n \subseteq Range(c) /\ -1 \in Range(c) /\ o.complete \in Place
BY DEF Owned, Left

\* The jobs of a batch that has just been queued are all left.
LEMMA OwnedQueued ==
  ASSUME NEW b, NEW o, NEW n \in Nat \ {0}, NEW P, NEW D, NEW Q,
         o.outstanding = n, \A i : Piece(b, i) \notin P \cup D,
         \A i : Piece(b, i) \in Q <=> i \in 1 .. n
  PROVE  Owned(b, o, n, <<>>, Q, D)
<1>1. Left(Q \cup D, b, n) = 1 .. n
  BY DEF Left
<1>2. Cardinality(1 .. n) = n /\ 1 .. n # {}
  <2>1. Cardinality(1 .. n) = n - 1 + 1
    BY FS_Interval
  <2>2. 1 \in 1 .. n
    OBVIOUS
  <2> QED
    BY <2>1, <2>2
<1>3. Piece(b, -1) \notin Q \cup D
  OBVIOUS
<1>4. Range(<<>>) = {}
  <2>1. DOMAIN <<>> = {}
    OBVIOUS
  <2> QED
    BY <2>1 DEF Range
<1> QED
  BY <1>1, <1>2, <1>3, <1>4 DEF Owned

-----------------------------------------------------------------------------
(* Steps that leave a part of the invariant alone.                         *)

\* The step is about batch b: the others, and their items, stay as they are.
OnlyBatch(b) ==
  /\ \A a \in DOMAIN plan \ {b} : plan'[a] = plan[a]
  /\ \A a \in DOMAIN heap \ {b} : heap'[a] = heap[a] /\ calls'[a] = calls[a]
  /\ \A a : a # b =>
       /\ a \in DOMAIN heap' <=> a \in DOMAIN heap
       /\ a \in batches' <=> a \in batches
       /\ \A i : Piece(a, i) \in Pending' <=> Piece(a, i) \in Pending
       /\ \A i : Piece(a, i) \in Done' <=> Piece(a, i) \in Done

\* The batch b itself keeps to CountInv.
BatchCounted(b) ==
  /\ b \in DOMAIN heap => Planned(heap[b], plan[b])
  /\ b \in DOMAIN heap \ batches => Posted(heap[b], plan[b], calls[b])
  /\ b \in batches => Owned(b, heap[b], plan[b].jobs, calls[b], Pending, Done)
  /\ \A i : Piece(b, i) \in Pending \cup Done =>
       b \in batches /\ i \in (1 .. plan[b].jobs) \cup {-1}

\* The batch that a client is filling.
ObjectCounted(o) ==
  o.outstanding = Len(o.threads) /\ Len(o.threads) <= MaxJobs /\ o.timer = NoTimer

\* Items are of the type Item.
LEMMA ItemTypes == TypeInv => Pending \cup Done \subseteq Item
<1> SUFFICES ASSUME TypeInv PROVE Pending \cup Done \subseteq Item
  OBVIOUS
<1>1. \A r \in Run : Piece(r.b, r.job) \in Item
  BY DEF Run, Item, Piece
<1>2. running \subseteq Run /\ ran \subseteq Run
  BY DEF TypeInv, TypeOK
<1>3. Working \subseteq Item
  BY <1>1, <1>2 DEF Working, ItemOf
<1>4. Done \subseteq Item
  BY <1>1, <1>2 DEF Done, ItemOf
<1> QED
  BY <1>3, <1>4 DEF Pending, Waiting

\* What a step about batch b does to the counts of the others.
LEMMA CountStep ==
  ASSUME TypeInv, CountInv, TypeInv', NEW b, OnlyBatch(b), BatchCounted(b)', ObjectCounted(object)',
         \A a \in Address \ DOMAIN plan' : calls'[a] = <<>>
  PROVE  CountInv'
<1>0. batches \subseteq DOMAIN heap /\ DOMAIN heap \subseteq DOMAIN plan /\ batches' \subseteq DOMAIN heap'
  BY DEF TypeInv
<1>1. ASSUME NEW a \in DOMAIN heap', a # b
      PROVE  /\ a \in DOMAIN heap /\ heap'[a] = heap[a] /\ plan'[a] = plan[a] /\ calls'[a] = calls[a]
             /\ a \in batches' <=> a \in batches
  BY <1>0, <1>1 DEF OnlyBatch
<1>2. \A a \in DOMAIN heap' : Planned(heap'[a], plan'[a])
  BY <1>1 DEF CountInv, BatchCounted
<1>3. \A a \in DOMAIN heap' \ batches' : Posted(heap'[a], plan'[a], calls'[a])
  BY <1>1 DEF CountInv, BatchCounted
<1>4. ASSUME NEW a \in batches'
      PROVE  Owned(a, heap'[a], plan'[a].jobs, calls'[a], Pending', Done')
  <2>1. CASE a = b
    BY <2>1 DEF BatchCounted
  <2>2. CASE a # b
    <3>1. /\ a \in batches /\ heap'[a] = heap[a] /\ plan'[a] = plan[a] /\ calls'[a] = calls[a]
      BY <1>0, <1>1, <2>2
    <3>2. Owned(a, heap[a], plan[a].jobs, calls[a], Pending, Done)
      BY <3>1 DEF CountInv
    <3>3. /\ \A i : Piece(a, i) \in Pending <=> Piece(a, i) \in Pending'
          /\ \A i : Piece(a, i) \in Done <=> Piece(a, i) \in Done'
      BY <2>2 DEF OnlyBatch
    <3>4. Owned(a, heap[a], plan[a].jobs, calls[a], Pending', Done')
      BY <3>2, <3>3, OwnedFrame
    <3> QED
      BY <3>1, <3>4
  <2> QED
    BY <2>1, <2>2
<1>5. ASSUME NEW x \in Pending' \cup Done'
      PROVE  x.b \in batches' /\ x.job \in (1 .. plan'[x.b].jobs) \cup {-1}
  <2>0. (Pending \cup Done \subseteq Item)'
    BY ItemTypes, PTL
  <2>1. x = Piece(x.b, x.job)
    BY <1>5, <2>0, Pieces
  <2>2. CASE x.b = b
    BY <1>5, <2>1, <2>2 DEF BatchCounted
  <2>3. CASE x.b # b
    <3>1. x \in Pending \cup Done
      BY <1>5, <2>1, <2>3 DEF OnlyBatch
    <3>2. x.b \in batches /\ x.job \in (1 .. plan[x.b].jobs) \cup {-1}
      BY <3>1 DEF CountInv
    <3>3. x.b \in batches' /\ plan'[x.b] = plan[x.b]
      BY <1>0, <2>3, <3>2 DEF OnlyBatch
    <3> QED
      BY <3>2, <3>3
  <2> QED
    BY <2>2, <2>3
<1> QED
  BY <1>2, <1>3, <1>4, <1>5 DEF CountInv, ObjectCounted

\* The counts only depend on what is pending and done, and on the objects.
LEMMA CountSame ==
  ASSUME CountInv, Pending' = Pending, Done' = Done, UNCHANGED <<heap, batches, plan, calls>>,
         ObjectCounted(object)'
  PROVE  CountInv'
BY DEF CountInv, ObjectCounted

\* Nothing moves.
LEMMA PlacesSame ==
  ASSUME UNCHANGED <<queue, running, ran>>
  PROVE  Pending' = Pending /\ Done' = Done /\ (PlacesInv => PlacesInv')
BY DEF Pending, Waiting, Working, Done, PlacesInv

\* No message is sent or taken, and no batch that is in one is dealt with.
LEMMA PostSame ==
  ASSUME PostInv, UNCHANGED control, DOMAIN heap \ batches \subseteq DOMAIN heap' \ batches'
  PROVE  PostInv'
BY DEF PostInv

\* The proxy's batches and its timers stay.
LEMMA TimerSame ==
  ASSUME TimerInv, UNCHANGED <<batches, timer_jobs>>,
         \A b \in batches : heap'[b].timer = heap[b].timer /\ heap'[b].complete = heap[b].complete
  PROVE  TimerInv'
BY DEF TimerInv, TimerBatch

\* No timer is added or cancelled.
LEMMA CancelSame ==
  ASSUME CancelInv, UNCHANGED <<control, owner, disowned, timer_zmq_id, armed>>
  PROVE  CancelInv'
BY DEF CancelInv, CancelledStaysQuiet

\* A batch is sent.
LEMMA BatchSent ==
  ASSUME CancelInv, UNCHANGED <<owner, disowned, timer_zmq_id, armed>>,
         NEW c, NEW m, m.cmd = "BATCH",
         \A d \in Client : \A k \in DOMAIN control'[d] :
           \/ k \in DOMAIN control[d] /\ control'[d][k] = control[d][k]
           \/ d = c /\ k = Len(control[c]) + 1 /\ control'[d][k] = m
  PROVE  CancelInv'
<1>1. \A d \in Client : \A k \in DOMAIN control'[d] : control'[d][k].cmd # "BATCH" =>
        k \in DOMAIN control[d] /\ control'[d][k] = control[d][k]
  OBVIOUS
<1> QED
  BY ONLY <1>1, CancelInv, UNCHANGED <<owner, disowned, timer_zmq_id, armed>>
     DEF CancelInv, CancelledStaysQuiet

\* At first there is nothing.
LEMMA InitBatch == Init => BatchInv
<1> SUFFICES ASSUME Init PROVE BatchInv
  OBVIOUS
<1>1. DOMAIN <<>> = {} /\ Len(<<>>) = 0 /\ \A S : <<>> \in Seq(S)
  OBVIOUS
<1>2. Fresh \in Object
  BY <1>1 DEF Fresh, Object, Function, NoTimer
<1>3. TypeOK
  <2>1. queue \in [Place -> Seq(Item)]
    BY <1>1 DEF Init
  <2>2. /\ timer_jobs \in Seq([squelch : BOOLEAN, running : BOOLEAN, thread : Place \cup {InProxy}])
        /\ owner \in Seq(Client) /\ plan \in Seq([jobs : Nat, complete : Function])
        /\ Len(owner) = 0 /\ Len(plan) = 0 /\ DOMAIN heap = {} /\ DOMAIN timer_zmq_id = {}
    BY <1>1 DEF Init
  <2>3. at \in {"control", "workers", "timers", "queue"} /\ quitting \in BOOLEAN
    BY DEF Init
  <2>4. DOMAIN heap \subseteq Address /\ \A b \in DOMAIN heap : heap[b] \in Object
    BY <2>2
  <2>5. /\ armed \subseteq DOMAIN timer_jobs /\ disowned \subseteq DOMAIN owner
        /\ DOMAIN timer_zmq_id \subseteq DOMAIN owner
        /\ batches \subseteq Address /\ running \subseteq Run /\ ran \subseteq Run
    BY <2>2 DEF Init
  <2>6. next_timer_id = Len(owner) + 1 /\ Len(plan) <= MaxBatches /\ sent \in 0 .. MaxMessages
    BY <2>2, BatchesAssumption DEF Init
  <2>7. object \in Object
    BY <1>2 DEF Init
  <2> QED
    BY <2>1, <2>2, <2>3, <2>4, <2>5, <2>6, <2>7 DEF TypeOK
<1>4. TypeInv
  <2>1. <<>> \in [{} -> Object] /\ <<>> \in [{} -> {}]
    BY <1>1
  <2>2. control \in [Client -> Seq(Message)] /\ calls \in [Address -> Seq(Int)]
    BY <1>1 DEF Init
  <2> QED
    BY <1>1, <1>3, <2>1, <2>2 DEF Init, TypeInv
<1>5. \A p \in Place : DOMAIN queue[p] = {}
  BY <1>1 DEF Init
<1>6. \A c \in Client : DOMAIN control[c] = {}
  BY <1>1 DEF Init
<1>7. PlacesInv
  BY <1>5 DEF Init, PlacesInv
<1>8. Pending = {} /\ Done = {}
  BY <1>5 DEF Init, Pending, Waiting, Working, Done
<1>9. CountInv
  BY <1>1, <1>8, BatchesAssumption DEF Init, CountInv, Fresh
<1>10. PostInv
  BY <1>6 DEF PostInv
<1>11. TimerInv
  BY <1>1 DEF Init, TimerInv
<1>12. CancelInv
  BY <1>1, <1>6 DEF Init, CancelInv, CancelledStaysQuiet
<1> QED
  BY <1>4, <1>7, <1>9, <1>10, <1>11, <1>12 DEF BatchInv

-----------------------------------------------------------------------------
(* A client fills its batch; the proxy goes on to its next part, or quits. *)

\* add_job and completion change only the object their caller still owns.
LEMMA FillStep ==
  ASSUME BatchInv, NEW p,
         \/ p \in Place /\ add_job(p)
         \/ p \in Place \cup {InProxy} /\ completion(p)
  PROVE  BatchInv'
<1>0. TypeInv /\ PlacesInv /\ CountInv /\ PostInv /\ TimerInv /\ CancelInv
  BY DEF BatchInv
<1>1. UNCHANGED <<at, batchVars, workVars, timerVars, idVars, control, quitting, sent>>
  BY DEF add_job, completion
<1>2. object \in Object /\ ObjectCounted(object)
  BY <1>0 DEF TypeInv, TypeOK, CountInv, ObjectCounted
<1>3. object' \in Object /\ ObjectCounted(object)'
  <2>1. CASE p \in Place /\ add_job(p)
    <3> DEFINE s == Append(object.threads, p)
    <3>1. s \in Seq(Place) /\ Len(s) = Len(object.threads) + 1 /\ Len(object.threads) \in Nat
      BY <1>2, <2>1 DEF Object
    <3> HIDE DEF s
    <3>2. /\ object' = [object EXCEPT !.threads = s, !.outstanding = object.outstanding + 1]
          /\ Len(object.threads) < MaxJobs
      BY <2>1 DEF add_job, s
    <3>3. object' \in Object
      <4>1. object.outstanding + 1 \in Nat
        BY <1>2 DEF Object
      <4> QED
        BY <1>2, <3>1, <3>2, <4>1 DEF Object
    <3>4. /\ object'.threads = s /\ object'.outstanding = object.outstanding + 1
          /\ object'.timer = object.timer
      BY <1>2, <3>2 DEF Object
    <3> QED
      BY <1>2, <3>1, <3>2, <3>3, <3>4, BatchesAssumption DEF ObjectCounted
  <2>2. CASE p \in Place \cup {InProxy} /\ completion(p)
    <3>1. object' = [object EXCEPT !.complete = p] /\ p \in Function
      BY <2>2 DEF completion, Function
    <3>2. object' \in Object
      BY <1>2, <3>1 DEF Object
    <3>3. /\ object'.threads = object.threads /\ object'.outstanding = object.outstanding
          /\ object'.timer = object.timer
      BY <1>2, <3>1 DEF Object
    <3> QED
      BY <1>2, <3>2, <3>3 DEF ObjectCounted
  <2> QED
    BY <2>1, <2>2
<1>4. TypeInv'
  BY <1>0, <1>1, <1>3 DEF TypeInv, TypeOK
<1>5. PlacesInv' /\ CountInv'
  BY <1>0, <1>1, <1>3, PlacesSame, CountSame
<1>6. PostInv' /\ TimerInv' /\ CancelInv'
  BY <1>0, <1>1, PostSame, TimerSame, CancelSame
<1> QED
  BY <1>4, <1>5, <1>6 DEF BatchInv

\* Going on to the next part of the loop, or quitting, touches no batch.
LEMMA LoopStep ==
  ASSUME BatchInv, proxy_loop \/ QUIT
  PROVE  BatchInv'
<1>0. TypeInv /\ PlacesInv /\ CountInv /\ PostInv /\ TimerInv /\ CancelInv
  BY DEF BatchInv
<1>1. /\ UNCHANGED <<object, batchVars, workVars, timerVars, idVars, control, sent>>
      /\ at' \in {"control", "workers", "timers", "queue"} /\ quitting' \in BOOLEAN
  BY <1>0 DEF proxy_loop, QUIT, TypeInv, TypeOK
<1>2. ObjectCounted(object)'
  BY <1>0, <1>1 DEF CountInv, ObjectCounted
<1>4. TypeInv'
  BY <1>0, <1>1 DEF TypeInv, TypeOK
<1>5. PlacesInv' /\ CountInv'
  BY <1>0, <1>1, <1>2, PlacesSame, CountSame
<1>6. PostInv' /\ TimerInv' /\ CancelInv'
  BY <1>0, <1>1, PostSame, TimerSame, CancelSame
<1> QED
  BY <1>4, <1>5, <1>6 DEF BatchInv

-----------------------------------------------------------------------------
(* A new batch.                                                            *)

Plan == [jobs : Nat, complete : Function]

\* The object that New puts at the next address.
LEMMA NewObject ==
  ASSUME TypeInv, NEW o \in Object, New(o)
  PROVE  /\ Next_b \in Address /\ Next_b \notin DOMAIN plan /\ Next_b \notin DOMAIN heap
         /\ DOMAIN heap' = DOMAIN heap \cup {Next_b} /\ heap' \in [DOMAIN heap' -> Object]
         /\ heap'[Next_b] = o /\ \A a \in DOMAIN heap : heap'[a] = heap[a]
         /\ plan' \in Seq(Plan) /\ Len(plan') <= MaxBatches
         /\ DOMAIN plan' = DOMAIN plan \cup {Next_b}
         /\ plan'[Next_b] = [jobs |-> Len(o.threads), complete |-> o.complete]
         /\ \A a \in DOMAIN plan : plan'[a] = plan[a]
         /\ DOMAIN heap' \subseteq DOMAIN plan' /\ DOMAIN heap' \subseteq Address
<1> DEFINE n == Next_b
           d == [jobs |-> Len(o.threads), complete |-> o.complete]
<1>0. /\ heap \in [DOMAIN heap -> Object] /\ DOMAIN heap \subseteq DOMAIN plan
      /\ plan \in Seq(Plan) /\ DOMAIN heap \subseteq Address
  BY DEF TypeInv, TypeOK, Plan
<1>1. d \in Plan
  BY DEF Plan, Object
<1>2. n \in Address /\ n = Len(plan) + 1 /\ plan' = Append(plan, d) /\ heap' = Put(heap, n, o)
  BY DEF New, Next_b
<1> HIDE DEF n, d
<1>3. /\ n \notin DOMAIN plan /\ plan' \in Seq(Plan) /\ Len(plan') = n
      /\ DOMAIN plan' = DOMAIN plan \cup {n} /\ plan'[n] = d
      /\ \A a \in DOMAIN plan : plan'[a] = plan[a]
  <2>1. /\ Len(plan) \in Nat /\ DOMAIN plan = 1 .. Len(plan) /\ plan' \in Seq(Plan)
        /\ Len(plan') = Len(plan) + 1 /\ DOMAIN plan' = 1 .. Len(plan) + 1
        /\ plan'[Len(plan) + 1] = d /\ \A a \in 1 .. Len(plan) : plan'[a] = plan[a]
    BY <1>0, <1>1, <1>2
  <2>2. \A k : k \in 1 .. Len(plan) + 1 <=> k \in 1 .. Len(plan) \/ k = Len(plan) + 1
    BY <2>1
  <2>3. Len(plan) + 1 \notin 1 .. Len(plan)
    BY <2>1
  <2> QED
    BY <1>2, <2>1, <2>2, <2>3
<1>4. n <= MaxBatches
  BY <1>2, BatchesAssumption DEF Address
<1>5. /\ DOMAIN heap' = DOMAIN heap \cup {n} /\ heap'[n] = o
      /\ \A a \in DOMAIN heap : a # n => heap'[a] = heap[a]
  BY <1>2 DEF Put
<1>6. n \notin DOMAIN heap
  BY <1>0, <1>3
<1>7. heap' \in [DOMAIN heap' -> Object]
  BY <1>0, <1>2, <1>5, <1>6 DEF Put
<1>8. DOMAIN heap' \subseteq DOMAIN plan' /\ DOMAIN heap' \subseteq Address
  BY <1>0, <1>2, <1>3, <1>5
<1>9. \A a \in DOMAIN heap : heap'[a] = heap[a]
  BY <1>5, <1>6
<1> QED
  BY <1>2, <1>3, <1>4, <1>5, <1>6, <1>7, <1>8, <1>9 DEF n, d

\* A batch that the proxy does not own has no items.
LEMMA NoItems ==
  ASSUME CountInv, NEW b, b \notin batches
  PROVE  \A i : Piece(b, i) \notin Pending \cup Done
BY Pieces DEF CountInv

\* A batch with one job.
LEMMA OneObject ==
  ASSUME NEW p \in Place, NEW f \in Function, NEW z \in Nat
  PROVE  /\ One(p, f, z) \in Object /\ One(p, f, z).outstanding = 1 /\ Len(One(p, f, z).threads) = 1
         /\ One(p, f, z).complete = f /\ One(p, f, z).timer = z
<1>1. <<p>> \in Seq(Place) /\ Len(<<p>>) = 1
  OBVIOUS
<1> QED
  BY <1>1 DEF One, Fresh, Object

\* The application hands over a batch, or a job that becomes one: its message names
\* an object that nobody has yet.
LEMMA PostStep ==
  ASSUME BatchInv, NEW c \in Client, batch(c) \/ \E p \in Place : job(c, p)
  PROVE  BatchInv'
<1>0. TypeInv /\ PlacesInv /\ CountInv /\ PostInv /\ TimerInv /\ CancelInv
  BY DEF BatchInv
<1> DEFINE m == [cmd |-> "BATCH", b |-> Next_b]
<1>1. PICK o \in Object :
        /\ New(o) /\ o.outstanding = Len(o.threads) /\ o.timer = NoTimer
        /\ Len(o.threads) \in (1 .. MaxJobs) \cup {1}
  <2>1. CASE batch(c)
    <3>1. object \in Object /\ ObjectCounted(object)
      BY <1>0 DEF TypeInv, TypeOK, CountInv, ObjectCounted
    <3>2. object.threads # <<>> /\ New(object)
      BY <2>1 DEF batch
    <3>3. Len(object.threads) \in Nat \ {0}
      BY <3>1, <3>2 DEF Object
    <3>4. Len(object.threads) \in 1 .. MaxJobs
      BY <3>1, <3>3, BatchesAssumption DEF ObjectCounted
    <3> QED
      BY <3>1, <3>2, <3>4 DEF ObjectCounted
  <2>2. ASSUME NEW p \in Place, job(c, p)
        PROVE  New(One(p, NoFunction, NoTimer))
    BY <2>2 DEF job
  <2>3. NoFunction \in Function /\ NoTimer \in Nat
    BY DEF Function, NoTimer
  <2>4. ASSUME NEW p \in Place
        PROVE  LET o == One(p, NoFunction, NoTimer) IN
               /\ o \in Object /\ o.outstanding = Len(o.threads) /\ o.timer = NoTimer
               /\ Len(o.threads) \in (1 .. MaxJobs) \cup {1}
    <3>1. /\ One(p, NoFunction, NoTimer) \in Object /\ One(p, NoFunction, NoTimer).outstanding = 1
          /\ One(p, NoFunction, NoTimer).timer = NoTimer
          /\ Len(One(p, NoFunction, NoTimer).threads) = 1
      BY <2>3, OneObject
    <3> QED
      BY <3>1
  <2> QED
    BY <2>1, <2>2, <2>4
<1>2. /\ sent < MaxMessages /\ sent' = sent + 1
      /\ control' = [control EXCEPT ![c] = Append(@, m)]
      /\ UNCHANGED <<at, batches, queue, workVars, timerVars, next_timer_id, owner, quitting>>
      /\ object' \in {object, Fresh}
  BY DEF batch, job, send_control
<1>n. PICK n : n = Next_b
  OBVIOUS
<1>3. /\ n \in Address /\ n \notin DOMAIN plan /\ n \notin DOMAIN heap
      /\ DOMAIN heap' = DOMAIN heap \cup {n} /\ heap' \in [DOMAIN heap' -> Object]
      /\ heap'[n] = o /\ \A a \in DOMAIN heap : heap'[a] = heap[a]
      /\ plan' \in Seq(Plan) /\ Len(plan') <= MaxBatches
      /\ DOMAIN plan' = DOMAIN plan \cup {n}
      /\ plan'[n] = [jobs |-> Len(o.threads), complete |-> o.complete]
      /\ \A a \in DOMAIN plan : plan'[a] = plan[a]
      /\ DOMAIN heap' \subseteq DOMAIN plan' /\ DOMAIN heap' \subseteq Address
  BY <1>0, <1>1, <1>n, NewObject
<1>4. m \in Message /\ m.cmd = "BATCH" /\ m.b = n
  BY <1>3, <1>n DEF Message
<1> HIDE DEF m
<1>5. object' \in Object /\ ObjectCounted(object)'
  <2>1. Fresh \in Object /\ ObjectCounted(Fresh)
    <3>1. Len(<<>>) = 0 /\ <<>> \in Seq(Place)
      OBVIOUS
    <3> QED
      BY <3>1, BatchesAssumption DEF Fresh, Object, Function, NoTimer, ObjectCounted
  <2>2. object \in Object /\ ObjectCounted(object)
    BY <1>0 DEF TypeInv, TypeOK, CountInv, ObjectCounted
  <2> QED
    BY <1>2, <2>1, <2>2
<1>6. control \in [Client -> Seq(Message)]
  BY <1>0 DEF TypeInv
<1>7. /\ control' \in [Client -> Seq(Message)]
      /\ \A d \in Client : \A k \in DOMAIN control[d] :
           k \in DOMAIN control'[d] /\ control'[d][k] = control[d][k]
      /\ \A d \in Client : \A k \in DOMAIN control'[d] :
           \/ k \in DOMAIN control[d] /\ control'[d][k] = control[d][k]
           \/ d = c /\ k = Len(control[c]) + 1 /\ control'[d][k] = m
  BY <1>2, <1>4, <1>6, Sent
<1>8. TypeInv'
  <2>1. sent' \in 0 .. MaxMessages
    BY <1>0, <1>2, BatchesAssumption DEF TypeInv, TypeOK
  <2>2. batches \subseteq DOMAIN heap' /\ \A a \in DOMAIN heap' : heap'[a] \in Object
    BY <1>0, <1>3 DEF TypeInv
  <2> QED
    BY <1>0, <1>2, <1>3, <1>5, <1>7, <2>1, <2>2 DEF TypeInv, TypeOK, Plan
<1>9. PlacesInv' /\ Pending' = Pending /\ Done' = Done
  BY <1>0, <1>2, PlacesSame
<1>10. n \notin batches
  BY <1>0, <1>3 DEF TypeInv
<1>11. CountInv'
  <2>1. OnlyBatch(n)
    BY <1>2, <1>3, <1>9 DEF OnlyBatch
  <2>2. calls[n] = <<>> /\ \A i : Piece(n, i) \notin Pending \cup Done
    BY <1>0, <1>3, <1>10, NoItems DEF CountInv
  <2>3. Planned(heap'[n], plan'[n]) /\ Posted(heap'[n], plan'[n], calls'[n])
    BY <1>1, <1>2, <1>3, <2>2 DEF Planned, Posted
  <2>4. BatchCounted(n)'
    BY <1>2, <1>9, <1>10, <2>2, <2>3 DEF BatchCounted
  <2>5. \A a \in Address \ DOMAIN plan' : calls'[a] = <<>>
    BY <1>0, <1>2, <1>3 DEF CountInv
  <2> QED
    BY <1>0, <1>5, <1>8, <2>1, <2>4, <2>5, CountStep
<1>12. PostInv'
  <2>1. ASSUME NEW d \in Client, NEW k \in DOMAIN control'[d], control'[d][k].cmd = "BATCH"
        PROVE  /\ control'[d][k].b \in DOMAIN heap' \ batches'
               /\ control'[d][k].b = n <=> d = c /\ k = Len(control[c]) + 1
               /\ d # c \/ k # Len(control[c]) + 1 =>
                    k \in DOMAIN control[d] /\ control'[d][k] = control[d][k]
    <3>1. CASE k \in DOMAIN control[d] /\ control'[d][k] = control[d][k]
      <4>1. control[d][k].b \in DOMAIN heap \ batches
        BY <1>0, <2>1, <3>1 DEF PostInv
      <4>2. d = c => k # Len(control[c]) + 1
        BY <1>6, <3>1
      <4> QED
        BY <1>2, <1>3, <3>1, <4>1, <4>2
    <3>2. CASE d = c /\ k = Len(control[c]) + 1 /\ control'[d][k] = m
      BY <1>2, <1>3, <1>4, <1>10, <3>2
    <3> QED
      BY <1>7, <2>1, <3>1, <3>2
  <2>2. ASSUME NEW d \in Client, NEW e \in Client,
               NEW j \in DOMAIN control'[d], NEW k \in DOMAIN control'[e],
               control'[d][j].cmd = "BATCH", control'[e][k].cmd = "BATCH",
               control'[d][j].b = control'[e][k].b
        PROVE  d = e /\ j = k
    <3>1. CASE control'[d][j].b = n
      BY <2>1, <2>2, <3>1
    <3>2. CASE control'[d][j].b # n
      <4>1. /\ j \in DOMAIN control[d] /\ control'[d][j] = control[d][j]
            /\ k \in DOMAIN control[e] /\ control'[e][k] = control[e][k]
        BY <2>1, <2>2, <3>2
      <4> QED
        BY <1>0, <2>2, <4>1 DEF PostInv
    <3> QED
      BY <3>1, <3>2
  <2> QED
    BY <2>1, <2>2 DEF PostInv
<1>13. TimerInv'
  <2>1. \A b \in batches : heap'[b] = heap[b]
    BY <1>0, <1>3 DEF TypeInv
  <2> QED
    BY <1>0, <1>2, <2>1, TimerSame
<1>14. CancelInv'
  BY <1>0, <1>2, <1>4, <1>7, BatchSent
<1> QED
  BY <1>8, <1>9, <1>11, <1>12, <1>13, <1>14 DEF BatchInv

-----------------------------------------------------------------------------
(* The proxy takes a batch.                                                *)

\* A message is taken: what is left keeps its order.
LEMMA TakenCancel ==
  ASSUME CancelInv, control \in [Client -> Seq(Message)], NEW c \in Client, control[c] # <<>>,
         control' = [control EXCEPT ![c] = Tail(@)], UNCHANGED owner,
         CancelledStaysQuiet',
         \A x, y \in DOMAIN timer_zmq_id' : timer_zmq_id'[x] = timer_zmq_id'[y] => x = y,
         \A d \in Client : \A k \in DOMAIN control'[d] : control'[d][k].cmd = "TIMER" =>
           control'[d][k].id \notin disowned' /\ control'[d][k].id \notin DOMAIN timer_zmq_id'
  PROVE  CancelInv'
<1> DEFINE Old(d, k) == IF d = c THEN k + 1 ELSE k
<1>1. \A d \in Client : \A k \in DOMAIN control'[d] :
        Old(d, k) \in DOMAIN control[d] /\ control'[d][k] = control[d][Old(d, k)] /\ k \in Nat \ {0}
  BY Taken
<1>2. \A d : \A j, k \in Nat : (Old(d, j) = Old(d, k) <=> j = k) /\ (Old(d, j) > Old(d, k) <=> j > k)
  OBVIOUS
<1> HIDE DEF Old
<1>3. \A d \in Client : \A k \in DOMAIN control'[d] :
        control'[d][k].cmd # "BATCH" => control'[d][k].id \in DOMAIN owner
  BY <1>1 DEF CancelInv
<1>4. ASSUME NEW d \in Client, NEW k \in DOMAIN control'[d], control'[d][k].cmd = "TIMER"
      PROVE  /\ owner[control'[d][k].id] = d
             /\ \A j \in DOMAIN control'[d] :
                  control'[d][j].cmd # "BATCH" /\ control'[d][j].id = control'[d][k].id /\ j # k
                  => j > k /\ control'[d][j].cmd = "TIMER_DEL"
  <2>1. /\ owner[control[d][Old(d, k)].id] = d
        /\ \A j \in DOMAIN control[d] :
             control[d][j].cmd # "BATCH" /\ control[d][j].id = control[d][Old(d, k)].id /\ j # Old(d, k)
             => j > Old(d, k) /\ control[d][j].cmd = "TIMER_DEL"
    BY <1>1, <1>4 DEF CancelInv
  <2>2. ASSUME NEW j \in DOMAIN control'[d],
               control'[d][j].cmd # "BATCH", control'[d][j].id = control'[d][k].id, j # k
        PROVE  j > k /\ control'[d][j].cmd = "TIMER_DEL"
    <3>1. /\ Old(d, j) \in DOMAIN control[d] /\ control'[d][j] = control[d][Old(d, j)] /\ j \in Nat
          /\ control'[d][k] = control[d][Old(d, k)] /\ k \in Nat
      BY <1>1
    <3>2. Old(d, j) # Old(d, k)
      BY <1>2, <2>2, <3>1
    <3>3. Old(d, j) > Old(d, k) /\ control[d][Old(d, j)].cmd = "TIMER_DEL"
      BY <2>1, <2>2, <3>1, <3>2
    <3> QED
      BY <1>2, <3>1, <3>3
  <2> QED
    BY <1>1, <2>1, <2>2
<1> QED
  BY <1>3, <1>4 DEF CancelInv

\* What is left of the control messages was there before, behind the one taken.
LEMMA TakenPost ==
  ASSUME PostInv, control \in [Client -> Seq(Message)], NEW c \in Client, control[c] # <<>>,
         control' = [control EXCEPT ![c] = Tail(@)],
         UNCHANGED heap,
         \/ Head(control[c]).cmd = "BATCH" /\ batches' = batches \cup {Head(control[c]).b}
         \/ batches' = batches
  PROVE  PostInv'
<1> DEFINE Old(d, k) == IF d = c THEN k + 1 ELSE k
<1>1. /\ 1 \in DOMAIN control[c] /\ Head(control[c]) = control[c][1]
      /\ \A d \in Client : \A k \in DOMAIN control'[d] :
           Old(d, k) \in DOMAIN control[d] /\ control'[d][k] = control[d][Old(d, k)] /\ k \in Nat \ {0}
  BY Taken
<1>2. /\ \A d : \A j, k \in Nat \ {0} : Old(d, j) = Old(d, k) <=> j = k
      /\ \A k \in Nat \ {0} : Old(c, k) # 1
  OBVIOUS
<1> HIDE DEF Old
<1>3. ASSUME NEW d \in Client, NEW k \in DOMAIN control'[d], control'[d][k].cmd = "BATCH"
      PROVE  control'[d][k].b \in DOMAIN heap' \ batches'
  <2>1. control[d][Old(d, k)].b \in DOMAIN heap \ batches
    BY <1>1, <1>3 DEF PostInv
  <2>2. ASSUME control[c][1].cmd = "BATCH", control[d][Old(d, k)].b = control[c][1].b
        PROVE  FALSE
    <3>1. d = c /\ Old(d, k) = 1
      BY <1>1, <1>3, <2>2 DEF PostInv
    <3> QED
      BY <1>1, <1>2, <3>1
  <2> QED
    BY <1>1, <2>1, <2>2
<1>4. ASSUME NEW d \in Client, NEW e \in Client,
             NEW j \in DOMAIN control'[d], NEW k \in DOMAIN control'[e],
             control'[d][j].cmd = "BATCH", control'[e][k].cmd = "BATCH",
             control'[d][j].b = control'[e][k].b
      PROVE  d = e /\ j = k
  <2>1. d = e /\ Old(d, j) = Old(e, k)
    BY <1>1, <1>4 DEF PostInv
  <2> QED
    BY <1>1, <1>2, <2>1
<1> QED
  BY <1>3, <1>4 DEF PostInv

\* The items of a batch, for each queue.
JobsFor(threads, p) == InOrder({i \in DOMAIN threads : threads[i] = p})
JobItems(b, threads) ==
  [p \in Place |-> [k \in DOMAIN JobsFor(threads, p) |-> Piece(b, JobsFor(threads, p)[k])]]

\* Each job has one place, in the queue of its thread.
LEMMA JobPlaces ==
  ASSUME NEW threads \in Seq(Place), NEW p \in Place
  PROVE  LET s == JobsFor(threads, p) IN
         /\ s \in Seq(DOMAIN threads) /\ \A k \in DOMAIN s : threads[s[k]] = p
         /\ \A i \in DOMAIN threads : threads[i] = p => \E k \in DOMAIN s : s[k] = i
         /\ \A j, k \in DOMAIN s : s[j] = s[k] => j = k
<1> DEFINE n == Len(threads)
           J == {i \in DOMAIN threads : threads[i] = p}
           s == InOrder(J)
<1>1. n \in Nat /\ J \in SUBSET (1 .. n) /\ \A i \in J : i \in DOMAIN threads /\ threads[i] = p
  OBVIOUS
<1>2. \A i \in DOMAIN threads : threads[i] = p => i \in J
  OBVIOUS
<1> HIDE DEF n, J
<1>3. /\ s \in Seq(J) /\ \A i \in J : \E k \in DOMAIN s : s[k] = i
      /\ \A j, k \in DOMAIN s : s[j] = s[k] => j = k
  BY <1>1, InOrderProperties
<1>4. s = JobsFor(threads, p)
  BY DEF JobsFor, J
<1> HIDE DEF s
<1>5. \A k \in DOMAIN s : s[k] \in J
  BY <1>3
<1>6. s \in Seq(DOMAIN threads)
  <2>1. Len(s) \in Nat /\ DOMAIN s = 1 .. Len(s) /\ s = [k \in 1 .. Len(s) |-> s[k]]
    BY <1>3
  <2>2. \A k \in 1 .. Len(s) : s[k] \in DOMAIN threads
    BY <1>1, <1>5, <2>1
  <2>3. s \in [1 .. Len(s) -> DOMAIN threads]
    BY ONLY <2>1, <2>2
  <2> QED
    BY ONLY <2>1, <2>3
<1> QED
  BY <1>1, <1>2, <1>3, <1>4, <1>5, <1>6

\* The items of a batch that has none are new, and one for each job.
LEMMA JobItemsNew ==
  ASSUME NEW b \in Address, NEW threads \in Seq(Place),
         Len(threads) \in (1 .. MaxJobs) \cup {1},
         \A i : Piece(b, i) \notin Pending \cup Done
  PROVE  /\ NewItems(JobItems(b, threads))
         /\ \A x \in Item : (\E p \in Place : \E k \in DOMAIN JobItems(b, threads)[p] :
                                JobItems(b, threads)[p][k] = x)
                            <=> x.b = b /\ x.job \in 1 .. Len(threads)
<1> DEFINE n == Len(threads)
           F == JobItems(b, threads)
           s(p) == JobsFor(threads, p)
<1>1. /\ n \in Nat /\ DOMAIN threads = 1 .. n /\ \A i \in 1 .. n : threads[i] \in Place
  OBVIOUS
<1>2. \A i \in 1 .. n : Piece(b, i) \in Item
  <2>1. \A i \in 1 .. n : i \in (1 .. MaxJobs) \cup {1, -1}
    BY <1>1, BatchesAssumption
  <2> QED
    BY <2>1 DEF Piece, Item
<1>3. ASSUME NEW p \in Place
      PROVE  /\ s(p) \in Seq(1 .. n) /\ \A k \in DOMAIN s(p) : s(p)[k] \in 1 .. n /\ threads[s(p)[k]] = p
             /\ \A i \in 1 .. n : threads[i] = p => \E k \in DOMAIN s(p) : s(p)[k] = i
             /\ \A j, k \in DOMAIN s(p) : s(p)[j] = s(p)[k] => j = k
  <2>1. /\ s(p) \in Seq(DOMAIN threads) /\ \A k \in DOMAIN s(p) : threads[s(p)[k]] = p
        /\ \A i \in DOMAIN threads : threads[i] = p => \E k \in DOMAIN s(p) : s(p)[k] = i
        /\ \A j, k \in DOMAIN s(p) : s(p)[j] = s(p)[k] => j = k
    BY JobPlaces
  <2> HIDE DEF s
  <2>2. s(p) \in Seq(1 .. n) /\ \A k \in DOMAIN s(p) : s(p)[k] \in 1 .. n
    BY <1>1, <2>1
  <2> QED
    BY <1>1, <2>1, <2>2
<1>4. DOMAIN F = Place /\ F = [p \in Place |-> F[p]]
  BY DEF JobItems
<1>5. \A p \in Place : F[p] = [k \in DOMAIN s(p) |-> Piece(b, s(p)[k])]
  BY DEF JobItems
<1> HIDE DEF F, s, n
<1>6. ASSUME NEW p \in Place
      PROVE  /\ F[p] \in Seq(Item) /\ DOMAIN F[p] = DOMAIN s(p)
             /\ \A k \in DOMAIN F[p] : F[p][k] = Piece(b, s(p)[k])
  <2>1. \A k \in DOMAIN s(p) : Piece(b, s(p)[k]) \in Item
    BY <1>2, <1>3
  <2>2. Len(s(p)) \in Nat /\ DOMAIN s(p) = 1 .. Len(s(p))
    BY <1>3
  <2>3. DOMAIN F[p] = 1 .. Len(s(p)) /\ \A k \in 1 .. Len(s(p)) : F[p][k] = Piece(b, s(p)[k])
    <3>1. F[p] = [k \in DOMAIN s(p) |-> Piece(b, s(p)[k])]
      BY <1>5, Zenon
    <3>2. F[p] = [k \in 1 .. Len(s(p)) |-> Piece(b, s(p)[k])]
      BY <2>2, <3>1, Zenon
    <3> QED
      BY <3>2, Zenon
  <2>4. F[p] \in [1 .. Len(s(p)) -> Item]
    BY ONLY <1>5, <2>1, <2>2, p \in Place
  <2>5. F[p] \in Seq(Item)
    BY ONLY <2>2, <2>4
  <2> QED
    BY <2>2, <2>3, <2>5
<1>7. F \in [Place -> Seq(Item)]
  BY <1>4, <1>6
<1>8. ASSUME NEW p \in Place, NEW q \in Place, NEW j \in DOMAIN F[p], NEW k \in DOMAIN F[q],
             F[p][j] = F[q][k]
      PROVE  p = q /\ j = k
  <2>1. s(p)[j] = s(q)[k] /\ j \in DOMAIN s(p) /\ k \in DOMAIN s(q)
    BY <1>6, <1>8, Pieces
  <2>2. p = q
    BY <1>3, <2>1
  <2> QED
    BY <1>3, <2>1, <2>2
<1>9. \A p \in Place : \A j \in DOMAIN F[p] : F[p][j] \notin Waiting \cup Working \cup Done
  BY <1>6 DEF Pending
<1>10. NewItems(F)
  BY <1>7, <1>8, <1>9 DEF NewItems
<1>11. ASSUME NEW x \in Item
       PROVE  (\E p \in Place : \E k \in DOMAIN F[p] : F[p][k] = x) <=> x.b = b /\ x.job \in 1 .. n
  <2>1. ASSUME NEW p \in Place, NEW k \in DOMAIN F[p], F[p][k] = x
        PROVE  x.b = b /\ x.job \in 1 .. n
    BY <1>3, <1>6, <2>1, Pieces
  <2>2. ASSUME x.b = b, x.job \in 1 .. n
        PROVE  \E p \in Place : \E k \in DOMAIN F[p] : F[p][k] = x
    <3>1. PICK p \in Place : threads[x.job] = p
      BY <1>1, <2>2
    <3>2. PICK k \in DOMAIN s(p) : s(p)[k] = x.job
      BY <1>3, <2>2, <3>1
    <3>3. F[p][k] = Piece(b, x.job) /\ k \in DOMAIN F[p]
      BY <1>6, <3>2
    <3>4. x = Piece(b, x.job)
      BY <2>2, Pieces
    <3> QED
      BY <3>3, <3>4
  <2> QED
    BY <2>1, <2>2
<1> QED
  BY <1>10, <1>11 DEF F, n

\* The proxy takes a batch: all of its jobs are left, each in its queue.
LEMMA TakeStep ==
  ASSUME BatchInv, NEW c \in Client, proxy_batch(c)
  PROVE  BatchInv'
<1>0. TypeInv /\ PlacesInv /\ CountInv /\ PostInv /\ TimerInv /\ CancelInv
  BY DEF BatchInv
<1>b. PICK b : b = Head(control[c]).b
  OBVIOUS
<1> DEFINE threads == heap[b].threads
           F == JobItems(b, threads)
<1>1. /\ control[c] # <<>> /\ Head(control[c]).cmd = "BATCH"
      /\ control' = [control EXCEPT ![c] = Tail(@)]
      /\ batches' = batches \cup {b}
      /\ UNCHANGED <<at, object, workVars, idVars, quitting, sent, heap, timerVars>>
  BY <1>b DEF proxy_batch, Receive
<1>2. Enqueue(F)
  <2>1. queue' = [p \in Place |-> queue[p] \o
                    [k \in DOMAIN JobsFor(threads, p) |-> Piece(b, JobsFor(threads, p)[k])]]
    BY <1>b DEF proxy_batch, JobsFor, Piece
  <2>2. \A p \in Place :
          F[p] = [k \in DOMAIN JobsFor(threads, p) |-> Piece(b, JobsFor(threads, p)[k])]
    BY DEF JobItems
  <2> QED
    BY ONLY <2>1, <2>2 DEF Enqueue
<1>3. control \in [Client -> Seq(Message)] /\ QueueType
  BY <1>0 DEF TypeInv, TypeOK, QueueType
<1>4. /\ control' \in [Client -> Seq(Message)]
      /\ 1 \in DOMAIN control[c] /\ Head(control[c]) = control[c][1]
  BY <1>1, <1>3, Taken
<1>5. b \in DOMAIN heap /\ b \notin batches
  BY <1>0, <1>b, <1>1, <1>4 DEF PostInv
<1>6. /\ heap[b] \in Object /\ b \in Address /\ b \in DOMAIN plan /\ plan[b] \in Plan
      /\ Planned(heap[b], plan[b]) /\ Posted(heap[b], plan[b], calls[b])
  <2>1. heap[b] \in Object /\ b \in Address /\ b \in DOMAIN plan
    BY <1>0, <1>5 DEF TypeInv, TypeOK
  <2>2. plan \in Seq(Plan)
    BY <1>0 DEF TypeInv, TypeOK, Plan
  <2>3. plan[b] \in Plan
    BY <2>1, <2>2
  <2>4. Planned(heap[b], plan[b]) /\ Posted(heap[b], plan[b], calls[b])
    BY <1>0, <1>5 DEF CountInv
  <2> QED
    BY <2>1, <2>3, <2>4
<1>7. /\ threads \in Seq(Place) /\ Len(threads) = plan[b].jobs
      /\ Len(threads) \in (1 .. MaxJobs) \cup {1} /\ Len(threads) \in Nat \ {0}
      /\ heap[b].outstanding = Len(threads) /\ heap[b].timer = NoTimer /\ calls[b] = <<>>
  BY <1>6, BatchesAssumption DEF Object, Planned, Posted
<1>8. \A i : Piece(b, i) \notin Pending \cup Done
  BY <1>0, <1>5, NoItems
<1> HIDE DEF threads
<1>9. /\ NewItems(F)
      /\ \A x \in Item : (\E p \in Place : \E k \in DOMAIN F[p] : F[p][k] = x)
                         <=> x.b = b /\ x.job \in 1 .. Len(threads)
  BY <1>6, <1>7, <1>8, JobItemsNew
<1> HIDE DEF F
<1>10. /\ QueueType' /\ PlacesInv'
       /\ Waiting' = Waiting \cup {x \in Item : \E p \in Place : \E k \in DOMAIN F[p] : F[p][k] = x}
       /\ Working' = Working /\ Done' = Done
  <2>1. running' = running /\ ran' = ran
    BY <1>1
  <2>2. Working' = Working /\ Done' = Done
    BY <2>1 DEF Working, Done
  <2> QED
    BY <1>0, <1>2, <1>3, <1>9, <2>1, <2>2, Enqueued
<1>11. Pending' = Pending \cup {x \in Item : x.b = b /\ x.job \in 1 .. Len(threads)}
  BY <1>9, <1>10 DEF Pending
<1>12. /\ \A a, i : a # b => (Piece(a, i) \in Pending' <=> Piece(a, i) \in Pending)
       /\ \A i : Piece(b, i) \in Pending' <=> i \in 1 .. Len(threads)
  <2>1. \A i \in 1 .. Len(threads) : Piece(b, i) \in Item
    <3>1. \A i \in 1 .. Len(threads) : i \in (1 .. MaxJobs) \cup {1, -1}
      BY <1>7, BatchesAssumption
    <3> QED
      BY <1>6, <3>1 DEF Piece, Item
  <2> QED
    BY <1>8, <1>11, <2>1, Pieces
<1>13. TypeInv'
  <2>1. queue' \in [Place -> Seq(Item)]
    BY <1>10 DEF QueueType
  <2>2. batches' \subseteq DOMAIN heap /\ batches' \subseteq Address
    BY <1>0, <1>1, <1>5, <1>6 DEF TypeInv, TypeOK
  <2> QED
    BY <1>0, <1>1, <1>4, <2>1, <2>2 DEF TypeInv, TypeOK
<1>14. CountInv'
  <2>1. OnlyBatch(b)
    BY <1>1, <1>10, <1>12 DEF OnlyBatch
  <2>2. Owned(b, heap[b], Len(threads), <<>>, Pending', Done)
    BY <1>7, <1>8, <1>12, OwnedQueued
  <2>3. BatchCounted(b)'
    BY <1>1, <1>5, <1>6, <1>7, <1>8, <1>10, <1>12, <2>2 DEF BatchCounted
  <2>4. ObjectCounted(object)' /\ \A a \in Address \ DOMAIN plan' : calls'[a] = <<>>
    BY <1>0, <1>1 DEF CountInv, ObjectCounted
  <2> QED
    BY <1>0, <1>13, <2>1, <2>3, <2>4, CountStep
<1>15. PostInv'
  BY <1>0, <1>1, <1>3, <1>b, TakenPost
<1>16. TimerInv'
  <2>1. \A z \in DOMAIN timer_jobs : z # NoTimer
    BY <1>0 DEF TypeInv, TypeOK, NoTimer
  <2>2. \A a \in batches' : a \in batches \/ a = b
    BY <1>1
  <2>3. \A a \in batches : heap'[a] = heap[a]
    BY <1>1
  <2> QED
    BY <1>0, <1>1, <1>7, <2>1, <2>2 DEF TimerInv, TimerBatch
<1>17. CancelInv'
  <2>1. /\ CancelledStaysQuiet'
        /\ \A x, y \in DOMAIN timer_zmq_id' : timer_zmq_id'[x] = timer_zmq_id'[y] => x = y
    BY <1>0, <1>1 DEF CancelInv, CancelledStaysQuiet
  <2>2. \A d \in Client : \A k \in DOMAIN control'[d] : \E j \in DOMAIN control[d] :
          control'[d][k] = control[d][j]
    BY <1>1, <1>3, Taken
  <2>3. \A d \in Client : \A k \in DOMAIN control'[d] : control'[d][k].cmd = "TIMER" =>
          control'[d][k].id \notin disowned' /\ control'[d][k].id \notin DOMAIN timer_zmq_id'
    BY <1>0, <1>1, <2>2 DEF CancelInv
  <2> QED
    BY <1>0, <1>1, <1>3, <2>1, <2>3, TakenCancel
<1> QED
  BY <1>10, <1>13, <1>14, <1>15, <1>16, <1>17 DEF BatchInv
=============================================================================
