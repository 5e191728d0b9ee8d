------------------------ MODULE ControlChannelProofs ------------------------
(***************************************************************************)
(* Proofs about ControlChannel, for any number of threads, objects and     *)
(* messages: the thread-local pointer of get_control_socket is alive, and  *)
(* the proxy takes every message that was sent before QUIT.                *)
(***************************************************************************)
EXTENDS ControlChannel, TLAPS

\* The order in which the provers are tried.
USE ZenonT(2), SMTT(20)

Message == {"START", "QUIT", "EARLY", "LATE"}

\* A client is inside start() of an object that is being started: StartSend uses
\* its socket.  An object that has a proxy thread is there.
StarterKnown ==
  \A o \in Address :
    /\ life[o] \in {"bound", "assigned", "waiting"} => user[o] \in Client
    /\ joinable[o] => life[o] # "none"

\* object_id is the number of the object, the ids given out are below next_id, no
\* two objects that live have the same, and no thread remembers one of the future.
IdsFresh ==
  /\ next_id = made + 1
  /\ \A o \in Address : object_id[o] = which[o] /\ which[o] <= made
  /\ \A o, p \in Address :
       life[o] # "none" /\ life[p] # "none" /\ which[o] = which[p] => o = p
  /\ \A t \in Thread : last_id[t] <= made

\* The inductive invariant of the control sockets.
SocketInv == TypeOK /\ StarterKnown /\ IdsFresh /\ CachedSocketAlive

Holds(o, msg) == \E t \in Thread : \E k \in DOMAIN inbox[o][t] : inbox[o][t][k] = msg

AllLate(o) == \A t \in Thread : \A k \in DOMAIN inbox[o][t] : inbox[o][t][k] = "LATE"

\* The inductive invariant of the shutdown.  A QUIT on its way, or taken, means
\* that the destructor has begun, after which only LATE messages are sent; once
\* the proxy has gone past the control messages with QUIT taken, LATE ones are all
\* there can be.
QuitInv ==
  \A o \in Address :
    /\ Holds(o, "QUIT") \/ quitting[o] => life[o] = "quitting"
    /\ proxy[o] \in {"closing", "closed", "over"} => quitting[o]
    /\ quitting[o] /\ proxy[o] # "control" => AllLate(o)

-----------------------------------------------------------------------------
(* The control sockets *)

\* What get_control_socket does to the sockets keeps the thread-local pointers
\* alive, whoever calls it.
LEMMA SocketStep ==
  ASSUME SocketInv, NEW t \in Thread, NEW o \in Address, get_control_socket(t, o),
         UNCHANGED objectVars,
         \A p \in Address : life'[p] # "none" => life[p] # "none"
  PROVE  /\ control_sockets' \in [Address -> SUBSET Thread]
         /\ last_id' \in [Thread -> 0 .. MaxObjects \cup {Free}]
         /\ last_socket' \in [Thread -> {<<>>} \cup ((0 .. MaxObjects) \X Thread)]
         /\ IdsFresh'
         /\ CachedSocketAlive'
<1> USE ChannelAssumption DEF SocketInv, TypeOK, Thread
<1>0. life[o] # "none"
  BY DEF get_control_socket, StarterKnown
<1>1. CASE Cached(t, o)
  <2>1. UNCHANGED socketVars
    BY <1>1 DEF get_control_socket
  <2> QED
    BY <2>1 DEF socketVars, objectVars, IdsFresh, CachedSocketAlive, Cached
<1>2. CASE ~Cached(t, o)
  <2>1. /\ control_sockets' = [control_sockets EXCEPT ![o] = @ \cup {t}]
        /\ last_id' = [last_id EXCEPT ![t] = object_id[o]]
        /\ last_socket' = [last_socket EXCEPT ![t] = <<which[o], t>>]
    BY <1>2 DEF get_control_socket
  <2>2. /\ control_sockets' \in [Address -> SUBSET Thread]
        /\ last_id' \in [Thread -> 0 .. MaxObjects \cup {Free}]
        /\ last_socket' \in [Thread -> {<<>>} \cup ((0 .. MaxObjects) \X Thread)]
    BY <2>1
  <2>3. IdsFresh'
    BY <2>1 DEF objectVars, IdsFresh
  <2>4. CachedSocketAlive'
    <3> SUFFICES ASSUME NEW u \in Thread, NEW p \in Address, life'[p] # "none", Cached(u, p)'
                 PROVE  u \in control_sockets'[p] /\ last_socket'[u] = <<which'[p], u>>
      BY DEF CachedSocketAlive
    <3>1. CASE u = t
      <4>1. object_id[p] = object_id[o]
        BY <2>1, <3>1 DEF Cached, objectVars
      <4>2. p = o
        BY <1>0, <4>1 DEF IdsFresh
      <4> QED
        BY <2>1, <3>1, <4>2 DEF objectVars
    <3>2. CASE u # t
      <4>1. Cached(u, p)
        BY <2>1, <3>2 DEF Cached, objectVars
      <4> QED
        BY <2>1, <3>2, <4>1 DEF CachedSocketAlive, objectVars
    <3> QED
      BY <3>1, <3>2
  <2> QED
    BY <2>2, <2>3, <2>4
<1> QED
  BY <1>1, <1>2

\* A message is appended to what its sender has sent.
LEMMA SendType ==
  ASSUME TypeOK, NEW t \in Thread, NEW o \in Address, NEW msg \in Message,
         send_control(t, o, msg)
  PROVE  inbox' \in [Address -> [Thread -> Seq(Message)]]
<1>1. Append(inbox[o][t], msg) \in Seq(Message)
  BY DEF TypeOK, Message
<1> QED
  BY <1>1 DEF TypeOK, send_control, Message

\* No object is there and no thread has a socket.
LEMMA InitSocket == Init => SocketInv
BY ChannelAssumption DEF Init, SocketInv, TypeOK, StarterKnown, IdsFresh, CachedSocketAlive,
   Silent, Thread, Free, NoThread, Cached

\* Every step keeps the type of every variable and the thread-local pointers alive.
LEMMA SocketInductive == SocketInv /\ [Next]_vars => SocketInv'
<1> SUFFICES ASSUME SocketInv, [Next]_vars
             PROVE  SocketInv'
  OBVIOUS
<1>0. TypeOK /\ StarterKnown /\ IdsFresh /\ CachedSocketAlive
  BY DEF SocketInv
<1>1. ASSUME NEW t \in Thread, NEW o \in Address, Use(t, o)
      PROVE  SocketInv'
  <2>1. /\ control_sockets' \in [Address -> SUBSET Thread]
        /\ last_id' \in [Thread -> 0 .. MaxObjects \cup {Free}]
        /\ last_socket' \in [Thread -> {<<>>} \cup ((0 .. MaxObjects) \X Thread)]
        /\ IdsFresh'
        /\ CachedSocketAlive'
    BY <1>1, SocketStep DEF Use
  <2>2. inbox' \in [Address -> [Thread -> Seq(Message)]]
    BY <1>0, <1>1, SendType DEF Use, Message
  <2>3. sent' \in [Address -> 0 .. MaxMessages]
    BY <1>0, <1>1, ChannelAssumption DEF TypeOK, Use
  <2> QED
    BY <1>0, <1>1, <2>1, <2>2, <2>3
    DEF SocketInv, TypeOK, StarterKnown, Use, Message, objectVars, proxyVars
<1>2. ASSUME NEW o \in Address, ArqmaMQ(o)
      PROVE  SocketInv'
  <2>1. /\ made \in Int /\ made' \in Int /\ made < made'
        /\ made' \in 0 .. MaxObjects
        /\ next_id' = made' + 1 /\ next_id' \in 1 .. MaxObjects + 1
        /\ which' = [which EXCEPT ![o] = made']
        /\ object_id' = [object_id EXCEPT ![o] = made']
    BY <1>0, <1>2, ChannelAssumption DEF TypeOK, IdsFresh, ArqmaMQ, NewId
  <2>2. \A t \in Thread : last_id[t] \in Int /\ last_id[t] <= made /\ last_id'[t] = last_id[t]
    BY <1>0, <1>2 DEF TypeOK, IdsFresh, ArqmaMQ, Free, socketVars
  <2>3. \A p \in Address : which[p] \in Int /\ which[p] <= made /\ object_id[p] = which[p]
    BY <1>0 DEF TypeOK, IdsFresh
  <2>4. \A p \in Address : p # o => life'[p] = life[p]
    BY <1>0, <1>2 DEF TypeOK, ArqmaMQ
  <2>5. TypeOK'
    BY <1>0, <1>2, <2>1 DEF TypeOK, ArqmaMQ, proxyVars, socketVars
  <2>6. StarterKnown'
    BY <1>0, <1>2 DEF TypeOK, StarterKnown, ArqmaMQ
  <2>7. IdsFresh'
    BY <1>0, <2>1, <2>2, <2>3, <2>4 DEF TypeOK, IdsFresh
  <2>8. CachedSocketAlive'
    <3> SUFFICES ASSUME NEW t \in Thread, NEW p \in Address, life'[p] # "none", Cached(t, p)'
                 PROVE  t \in control_sockets'[p] /\ last_socket'[t] = <<which'[p], t>>
      BY DEF CachedSocketAlive
    <3>1. p # o
      BY <1>0, <2>1, <2>2 DEF TypeOK, Cached
    <3>2. Cached(t, p) /\ which'[p] = which[p] /\ life[p] # "none"
      BY <1>0, <2>1, <2>2, <2>4, <3>1 DEF TypeOK, Cached
    <3> QED
      BY <1>0, <1>2, <3>2 DEF CachedSocketAlive, ArqmaMQ, socketVars
  <2> QED
    BY <2>5, <2>6, <2>7, <2>8 DEF SocketInv
<1>3. ASSUME NEW o \in Address, add_tagged_thread(o)
      PROVE  SocketInv'
  BY <1>0, <1>3
  DEF SocketInv, TypeOK, StarterKnown, IdsFresh, CachedSocketAlive, Cached,
      add_tagged_thread, objectVars, proxyVars, socketVars
<1>4. ASSUME NEW o \in Address, StartAssign(o)
      PROVE  SocketInv'
  BY <1>0, <1>4
  DEF SocketInv, TypeOK, StarterKnown, IdsFresh, CachedSocketAlive, Cached,
      StartAssign, objectVars, proxyVars, socketVars
<1>5. ASSUME NEW o \in Address, StartSend(o)
      PROVE  SocketInv'
  <2>1. user[o] \in Thread
    BY <1>0, <1>5 DEF StarterKnown, StartSend, Thread
  <2>2. \A p \in Address : life'[p] # "none" => life[p] # "none"
    BY <1>0, <1>5 DEF TypeOK, StartSend
  <2>3. /\ control_sockets' \in [Address -> SUBSET Thread]
        /\ last_id' \in [Thread -> 0 .. MaxObjects \cup {Free}]
        /\ last_socket' \in [Thread -> {<<>>} \cup ((0 .. MaxObjects) \X Thread)]
        /\ IdsFresh'
        /\ CachedSocketAlive'
    BY <1>5, <2>1, <2>2, SocketStep DEF StartSend
  <2>4. inbox' \in [Address -> [Thread -> Seq(Message)]]
    BY <1>0, <1>5, <2>1, SendType DEF StartSend, Message
  <2> QED
    BY <1>0, <1>5, <2>3, <2>4
    DEF SocketInv, TypeOK, StarterKnown, StartSend, Message, objectVars, proxyVars
<1>6. ASSUME NEW o \in Address, StartReady(o)
      PROVE  SocketInv'
  BY <1>0, <1>6
  DEF SocketInv, TypeOK, StarterKnown, IdsFresh, CachedSocketAlive, Cached,
      StartReady, objectVars, proxyVars, socketVars
<1>7. ASSUME NEW o \in Address, QuitTagged(o)
      PROVE  SocketInv'
  BY <1>0, <1>7
  DEF SocketInv, TypeOK, StarterKnown, IdsFresh, CachedSocketAlive, Cached,
      QuitTagged, objectVars, proxyVars, socketVars
<1>8. ASSUME NEW o \in Address, DestroyJoin(o)
      PROVE  SocketInv'
  <2>0. /\ Silent \in [Thread -> Seq({"START", "QUIT", "EARLY", "LATE"})]
        /\ 0 \in 0 .. MaxMessages
    BY ChannelAssumption DEF Silent
  <2>1. TypeOK'
    BY <1>0, <1>8, <2>0 DEF TypeOK, DestroyJoin, objectVars
  <2>2. StarterKnown'
    BY <1>0, <1>8 DEF TypeOK, StarterKnown, DestroyJoin
  <2>3. IdsFresh'
    BY <1>0, <1>8 DEF TypeOK, IdsFresh, DestroyJoin, objectVars, Free
  <2>4. CachedSocketAlive'
    BY <1>0, <1>8 DEF TypeOK, CachedSocketAlive, Cached, DestroyJoin, objectVars, Free, Thread
  <2> QED
    BY <2>1, <2>2, <2>3, <2>4 DEF SocketInv
<1>9. ASSUME NEW o \in Address, TaggedThread(o)
      PROVE  SocketInv'
  BY Zenon, <1>0, <1>9
  DEF SocketInv, TypeOK, StarterKnown, IdsFresh, CachedSocketAlive, Cached,
      TaggedThread, TaggedStarting, TaggedStarted, TaggedQuit, objectVars, proxyVars, socketVars
<1>10. ASSUME NEW o \in Address, NEW t \in Thread, proxy_control_message(o, t)
       PROVE  SocketInv'
  <2>1. Tail(inbox[o][t]) \in Seq(Message)
    BY <1>0, <1>10 DEF TypeOK, proxy_control_message, Message
  <2>2. TypeOK'
    BY <1>0, <1>10, <2>1
    DEF TypeOK, proxy_control_message, Answer, proxySteps, objectVars, socketVars, Message
  <2> QED
    BY <1>0, <1>10, <2>2
    DEF SocketInv, StarterKnown, IdsFresh, CachedSocketAlive, Cached,
        proxy_control_message, proxySteps, objectVars, socketVars
<1>11. ASSUME NEW o \in Address,
              \/ ProxyStartup(o) \/ LoopTop(o)
              \/ ControlDone(o) \/ WorkerMessages(o) \/ proxy_quit(o)
       PROVE  SocketInv'
  <2>1. TypeOK'
    <3>1. CASE ProxyStartup(o)
      BY <1>0, <3>1 DEF TypeOK, ProxyStartup, proxySteps, objectVars, socketVars
    <3>2. CASE LoopTop(o)
      BY <1>0, <3>2 DEF TypeOK, LoopTop, proxySteps, objectVars, socketVars
    <3>3. CASE ControlDone(o)
      BY <1>0, <3>3 DEF TypeOK, ControlDone, proxySteps, objectVars, socketVars
    <3>4. CASE WorkerMessages(o)
      BY <1>0, <3>4 DEF TypeOK, WorkerMessages, proxySteps, objectVars, socketVars
    <3>5. CASE proxy_quit(o)
      <4>1. CASE proxy[o] = "closing"
        <5>1. proxy' = [proxy EXCEPT ![o] = "closed"]
          BY <3>5, <4>1 DEF proxy_quit
        <5>2. UNCHANGED <<proxy_shutting_down, quitting, tagged, ready, inbox, proxySteps>>
          BY <3>5, <4>1 DEF proxy_quit
        <5> QED
          BY <1>0, <5>1, <5>2 DEF TypeOK, proxySteps, objectVars, socketVars
      <4>2. CASE proxy[o] # "closing"
        BY <1>0, <3>5, <4>2 DEF TypeOK, proxy_quit, proxySteps, objectVars, socketVars
      <4> QED
        BY <4>1, <4>2
    <3> QED
      BY <1>11, <3>1, <3>2, <3>3, <3>4, <3>5
  <2>2. UNCHANGED proxySteps
    BY <1>11 DEF ProxyStartup, LoopTop, ControlDone, WorkerMessages, proxy_quit
  <2> QED
    BY <1>0, <2>1, <2>2
    DEF SocketInv, StarterKnown, IdsFresh, CachedSocketAlive, Cached,
        proxySteps, objectVars, socketVars
<1>12. ASSUME NEW o \in Address, NEW t \in Client, StartThread(t, o) \/ DestroyMade(t, o)
       PROVE  SocketInv'
  <2>1. TypeOK'
    <3>1. CASE StartThread(t, o)
      BY <1>0, <3>1 DEF TypeOK, StartThread, objectVars, socketVars
    <3>2. CASE DestroyMade(t, o)
      BY <1>0, <3>2 DEF TypeOK, DestroyMade, objectVars, proxyVars, socketVars
    <3> QED
      BY <1>12, <3>1, <3>2
  <2>2. StarterKnown'
    BY <1>0, <1>12 DEF TypeOK, StarterKnown, StartThread, DestroyMade
  <2>3. \A p \in Address : life'[p] # "none" => life[p] # "none"
    BY <1>0, <1>12 DEF TypeOK, StartThread, DestroyMade
  <2>4. IdsFresh' /\ CachedSocketAlive'
    BY <1>0, <1>12, <2>3
    DEF IdsFresh, CachedSocketAlive, Cached, StartThread, DestroyMade, objectVars, socketVars
  <2> QED
    BY <2>1, <2>2, <2>4 DEF SocketInv
<1>13. ASSUME NEW o \in Address, NEW t \in Client, DestroyStarted(t, o)
       PROVE  SocketInv'
  <2>1. t \in Thread
    BY DEF Thread
  <2>2. \A p \in Address : life'[p] # "none" => life[p] # "none"
    BY <1>0, <1>13 DEF TypeOK, DestroyStarted
  <2>3. /\ control_sockets' \in [Address -> SUBSET Thread]
        /\ last_id' \in [Thread -> 0 .. MaxObjects \cup {Free}]
        /\ last_socket' \in [Thread -> {<<>>} \cup ((0 .. MaxObjects) \X Thread)]
        /\ IdsFresh'
        /\ CachedSocketAlive'
    BY <1>13, <2>1, <2>2, SocketStep DEF DestroyStarted
  <2>4. inbox' \in [Address -> [Thread -> Seq(Message)]]
    BY <1>0, <1>13, <2>1, SendType DEF DestroyStarted, Message
  <2> QED
    BY <1>0, <1>13, <2>3, <2>4
    DEF SocketInv, TypeOK, StarterKnown, DestroyStarted, Message, objectVars, proxyVars
<1>14. ASSUME NEW t \in Client, Respawn(t)
       PROVE  SocketInv'
  <2>1. TypeOK' /\ StarterKnown'
    BY <1>0, <1>14 DEF TypeOK, StarterKnown, Respawn, objectVars, proxyVars
  <2>2. IdsFresh' /\ CachedSocketAlive'
    BY <1>0, <1>14, ChannelAssumption
    DEF TypeOK, IdsFresh, CachedSocketAlive, Cached, Respawn, objectVars, Free, Thread
  <2> QED
    BY <2>1, <2>2 DEF SocketInv
<1>15. CASE UNCHANGED vars
  BY <1>0, <1>15
  DEF SocketInv, TypeOK, StarterKnown, IdsFresh, CachedSocketAlive, Cached, vars,
      objectVars, proxyVars, socketVars
<1> QED
  BY <1>1, <1>2, <1>3, <1>4, <1>5, <1>6, <1>7, <1>8, <1>9, <1>10, <1>11, <1>12, <1>13,
     <1>14, <1>15
  DEF Next, Owner, proxy_loop, TaggedUses, ClientUses, Thread

\* Every variable has its type, whatever the threads do.
THEOREM TypeCorrect == Spec => []TypeOK
<1>1. SocketInv => TypeOK
  BY DEF SocketInv
<1> QED
  BY <1>1, InitSocket, SocketInductive, PTL DEF Spec

\* get_control_socket returns the socket that this thread has in this very object,
\* though it looks at thread-local variables only: ids are given out once, so what
\* a thread remembers of an object that is gone never matches one that is there.
THEOREM CachedSocketsAlive == Spec => []CachedSocketAlive
<1>1. SocketInv => CachedSocketAlive
  BY DEF SocketInv
<1> QED
  BY <1>1, InitSocket, SocketInductive, PTL DEF Spec

-----------------------------------------------------------------------------
(* Shutting down *)

\* A message that is sent is added, and nothing else is.
LEMMA SendHolds ==
  ASSUME TypeOK, NEW t \in Thread, NEW o \in Address, NEW msg \in Message,
         send_control(t, o, msg)
  PROVE  \A p \in Address :
           /\ Holds(p, "QUIT")' => Holds(p, "QUIT") \/ (p = o /\ msg = "QUIT")
           /\ AllLate(p) /\ (p = o => msg = "LATE") => AllLate(p)'
<1>1. \A p \in Address, u \in Thread :
        /\ inbox[p][u] \in Seq(Message)
        /\ inbox'[p][u] = IF p = o /\ u = t THEN Append(inbox[o][t], msg) ELSE inbox[p][u]
  BY DEF TypeOK, send_control, Message
<1>2. \A p \in Address, u \in Thread : \A k \in DOMAIN inbox'[p][u] :
        \/ k \in DOMAIN inbox[p][u] /\ inbox'[p][u][k] = inbox[p][u][k]
        \/ p = o /\ inbox'[p][u][k] = msg
  <2> TAKE p \in Address, u \in Thread
  <2>1. CASE p = o /\ u = t
    <3> TAKE k \in DOMAIN inbox'[p][u]
    <3>1. /\ Append(inbox[o][t], msg) \in Seq(Message)
          /\ Len(Append(inbox[o][t], msg)) = Len(inbox[o][t]) + 1
          /\ \A i \in 1 .. Len(inbox[o][t]) : Append(inbox[o][t], msg)[i] = inbox[o][t][i]
          /\ Append(inbox[o][t], msg)[Len(inbox[o][t]) + 1] = msg
          /\ Len(inbox[o][t]) \in Nat
      BY <1>1
    <3>2. /\ inbox'[p][u] = Append(inbox[o][t], msg) /\ inbox[p][u] = inbox[o][t]
          /\ DOMAIN inbox[o][t] = 1 .. Len(inbox[o][t])
          /\ DOMAIN Append(inbox[o][t], msg) = 1 .. Len(inbox[o][t]) + 1
      <4>1. inbox[o][t] \in Seq(Message)
        BY <1>1
      <4>2. inbox'[p][u] = Append(inbox[o][t], msg) /\ inbox[p][u] = inbox[o][t]
        BY <1>1, <2>1
      <4> QED
        BY ONLY <3>1, <4>1, <4>2
    <3>3. k \in 1 .. Len(inbox[o][t]) \/ k = Len(inbox[o][t]) + 1
      BY <3>1, <3>2
    <3> QED
      BY <2>1, <3>1, <3>2, <3>3
  <2>2. CASE ~(p = o /\ u = t)
    BY <1>1, <2>2
  <2> QED
    BY <2>1, <2>2
<1> QED
  BY <1>2 DEF Holds, AllLate

\* A message that is taken was there, and what is left was there as well.
LEMMA TakeHolds ==
  ASSUME TypeOK, NEW t \in Thread, NEW o \in Address, inbox[o][t] # <<>>,
         inbox' = [inbox EXCEPT ![o][t] = Tail(@)]
  PROVE  /\ Head(inbox[o][t]) = "QUIT" => Holds(o, "QUIT")
         /\ \A p \in Address :
              /\ Holds(p, "QUIT")' => Holds(p, "QUIT")
              /\ AllLate(p) => AllLate(p)'
<1>1. inbox[o][t] \in Seq(Message)
  BY DEF TypeOK, Message
<1>2. /\ Tail(inbox[o][t]) \in Seq(Message)
      /\ Len(Tail(inbox[o][t])) = Len(inbox[o][t]) - 1
      /\ \A i \in 1 .. Len(Tail(inbox[o][t])) : Tail(inbox[o][t])[i] = inbox[o][t][i + 1]
      /\ Len(inbox[o][t]) \in Nat \ {0}
      /\ Head(inbox[o][t]) = inbox[o][t][1]
  BY <1>1
<1>3. \A p \in Address, u \in Thread :
        inbox'[p][u] = IF p = o /\ u = t THEN Tail(inbox[o][t]) ELSE inbox[p][u]
  BY DEF TypeOK
<1>4. \A p \in Address, u \in Thread : \A k \in DOMAIN inbox'[p][u] :
        \E i \in DOMAIN inbox[p][u] : inbox'[p][u][k] = inbox[p][u][i]
  <2> TAKE p \in Address, u \in Thread
  <2>1. CASE p = o /\ u = t
    <3> SUFFICES ASSUME NEW k \in 1 .. Len(Tail(inbox[o][t]))
                 PROVE  \E i \in 1 .. Len(inbox[o][t]) : Tail(inbox[o][t])[k] = inbox[o][t][i]
      <4>1. /\ DOMAIN inbox[o][t] = 1 .. Len(inbox[o][t])
            /\ DOMAIN Tail(inbox[o][t]) = 1 .. Len(Tail(inbox[o][t]))
        BY <1>1, <1>2
      <4>2. inbox'[p][u] = Tail(inbox[o][t]) /\ inbox[p][u] = inbox[o][t]
        BY <1>3, <2>1
      <4> QED
        BY <4>1, <4>2
    <3> WITNESS k + 1 \in 1 .. Len(inbox[o][t])
    <3> QED
      BY <1>2
  <2>2. CASE ~(p = o /\ u = t)
    BY <1>3, <2>2
  <2> QED
    BY <2>1, <2>2
<1>5. 1 \in DOMAIN inbox[o][t]
  BY <1>1, <1>2
<1> QED
  BY <1>2, <1>4, <1>5 DEF Holds, AllLate

\* Nothing has been sent.
LEMMA InitQuit == Init => QuitInv
BY DEF Init, QuitInv, Holds, Silent

\* Every step keeps the order of QUIT, of the messages before it and of the end of
\* the proxy's loop.
LEMMA QuitInductive == SocketInv /\ QuitInv /\ [Next]_vars => QuitInv'
<1> SUFFICES ASSUME SocketInv, QuitInv, [Next]_vars
             PROVE  QuitInv'
  OBVIOUS
<1>0. TypeOK /\ StarterKnown
  BY DEF SocketInv
<1>1. ASSUME NEW t \in Thread, NEW o \in Address, Use(t, o)
      PROVE  QuitInv'
  <2> DEFINE msg == IF life[o] = "quitting" THEN "LATE" ELSE "EARLY"
  <2>1. \A p \in Address :
           /\ Holds(p, "QUIT")' => Holds(p, "QUIT") \/ (p = o /\ msg = "QUIT")
           /\ AllLate(p) /\ (p = o => msg = "LATE") => AllLate(p)'
    BY <1>0, <1>1, SendHolds DEF Use, Message
  <2> QED
    BY <1>1, <2>1 DEF QuitInv, Use, proxyVars
<1>2. ASSUME NEW o \in Address,
             \/ ArqmaMQ(o) \/ StartAssign(o) \/ StartReady(o)
             \/ \E t \in Client : StartThread(t, o) \/ DestroyMade(t, o)
      PROVE  QuitInv'
  <2>1. /\ life[o] # "quitting"
        /\ \A p \in Address : p # o => life'[p] = life[p] /\ proxy'[p] = proxy[p]
        /\ proxy'[o] \in {proxy[o], "startup"}
        /\ UNCHANGED <<quitting, inbox>>
    BY <1>0, <1>2
    DEF TypeOK, ArqmaMQ, StartAssign, StartReady, StartThread, DestroyMade, proxyVars
  <2>2. \A p \in Address : /\ Holds(p, "QUIT")' <=> Holds(p, "QUIT")
                           /\ AllLate(p)' <=> AllLate(p)
    BY <2>1 DEF Holds, AllLate
  <2> QED
    BY <2>1, <2>2 DEF QuitInv
<1>3. ASSUME NEW o \in Address,
             add_tagged_thread(o) \/ QuitTagged(o) \/ TaggedThread(o)
      PROVE  QuitInv'
  BY <1>3 DEF QuitInv, Holds, AllLate, add_tagged_thread, QuitTagged, TaggedThread, proxyVars
<1>4. ASSUME NEW o \in Address, StartSend(o)
      PROVE  QuitInv'
  <2>1. user[o] \in Thread
    BY <1>0, <1>4 DEF StarterKnown, StartSend, Thread
  <2>2. \A p \in Address :
           /\ Holds(p, "QUIT")' => Holds(p, "QUIT")
           /\ p # o /\ AllLate(p) => AllLate(p)'
    BY <1>0, <1>4, <2>1, SendHolds DEF StartSend, Message
  <2> QED
    BY <1>0, <1>4, <2>2 DEF TypeOK, QuitInv, StartSend, proxyVars
<1>5. ASSUME NEW o \in Address, NEW t \in Client, DestroyStarted(t, o)
      PROVE  QuitInv'
  <2>1. \A p \in Address : p # o => (Holds(p, "QUIT")' => Holds(p, "QUIT"))
                                    /\ (AllLate(p) => AllLate(p)')
    BY <1>0, <1>5, SendHolds DEF DestroyStarted, Message, Thread
  <2> QED
    BY <1>0, <1>5, <2>1 DEF TypeOK, QuitInv, DestroyStarted, proxyVars
<1>6. ASSUME NEW o \in Address, DestroyJoin(o)
      PROVE  QuitInv'
  <2>1. /\ inbox'[o] = Silent
        /\ \A p \in Address : p # o => /\ inbox'[p] = inbox[p] /\ life'[p] = life[p]
                                       /\ proxy'[p] = proxy[p] /\ quitting'[p] = quitting[p]
        /\ ~quitting'[o] /\ proxy'[o] = "none"
    BY <1>0, <1>6 DEF TypeOK, DestroyJoin
  <2>2. ~Holds(o, "QUIT")'
    BY <2>1 DEF Holds, Silent
  <2>3. \A p \in Address : p # o => (Holds(p, "QUIT")' => Holds(p, "QUIT"))
                                    /\ (AllLate(p) => AllLate(p)')
    BY <2>1 DEF Holds, AllLate
  <2> QED
    BY <2>1, <2>2, <2>3 DEF QuitInv
<1>7. ASSUME NEW o \in Address, NEW t \in Thread, proxy_control_message(o, t)
      PROVE  QuitInv'
  <2>1. /\ Head(inbox[o][t]) = "QUIT" => Holds(o, "QUIT")
        /\ \A p \in Address :
             /\ Holds(p, "QUIT")' => Holds(p, "QUIT")
             /\ AllLate(p) => AllLate(p)'
    BY <1>0, <1>7, TakeHolds DEF proxy_control_message
  <2>2. /\ quitting'[o] => quitting[o] \/ Head(inbox[o][t]) = "QUIT"
        /\ quitting[o] => quitting'[o]
        /\ \A p \in Address : p # o => quitting'[p] = quitting[p]
        /\ proxy[o] = "control"
        /\ UNCHANGED <<proxy, life>>
    BY <1>0, <1>7 DEF TypeOK, proxy_control_message, Answer, proxySteps
  <2> QED
    BY <2>1, <2>2 DEF QuitInv
<1>8. ASSUME NEW o \in Address, ControlDone(o)
      PROVE  QuitInv'
  <2>1. /\ inbox[o] = Silent /\ UNCHANGED <<inbox, quitting, life>>
        /\ proxy'[o] = "workers"
        /\ \A p \in Address : p # o => proxy'[p] = proxy[p]
    BY <1>0, <1>8 DEF TypeOK, ControlDone, proxySteps
  <2>2. AllLate(o)
    BY <2>1 DEF AllLate, Silent
  <2> QED
    BY <2>1, <2>2 DEF QuitInv, Holds, AllLate
<1>9. ASSUME NEW o \in Address,
             ProxyStartup(o) \/ LoopTop(o) \/ WorkerMessages(o) \/ proxy_quit(o)
      PROVE  QuitInv'
  <2>1. /\ UNCHANGED <<inbox, quitting, life>>
        /\ proxy[o] # "control"
        /\ proxy'[o] \in {"closing", "closed", "over"} =>
             quitting[o] \/ proxy[o] \in {"closing", "closed", "over"}
        /\ \A p \in Address : p # o => proxy'[p] = proxy[p]
    BY <1>0, <1>9 DEF TypeOK, ProxyStartup, LoopTop, WorkerMessages, proxy_quit, proxySteps
  <2>2. \A p \in Address : /\ Holds(p, "QUIT")' <=> Holds(p, "QUIT")
                           /\ AllLate(p)' <=> AllLate(p)
    BY <2>1 DEF Holds, AllLate
  <2> QED
    BY <2>1, <2>2 DEF QuitInv
<1>10. CASE (\E t \in Client : Respawn(t)) \/ UNCHANGED vars
  BY <1>10 DEF QuitInv, Holds, AllLate, Respawn, vars, proxyVars
<1> QED
  BY <1>1, <1>2, <1>3, <1>4, <1>5, <1>6, <1>7, <1>8, <1>9, <1>10
  DEF Next, Owner, proxy_loop, TaggedUses, ClientUses, Thread

\* Whatever a thread sent before the destructor's QUIT has been taken when the
\* proxy closes `command`, even if it was sent on another thread's socket.
THEOREM MessagesBeforeQuitTaken == Spec => []SentBeforeQuitTaken
<1>1. QuitInv => SentBeforeQuitTaken
  BY DEF QuitInv, AllLate, SentBeforeQuitTaken
<1> QED
  BY <1>1, InitSocket, SocketInductive, InitQuit, QuitInductive, PTL DEF Spec
=============================================================================
