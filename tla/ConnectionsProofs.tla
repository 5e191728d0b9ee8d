------------------------- MODULE ConnectionsProofs -------------------------
(***************************************************************************)
(* Theorems about Connections, for any service nodes, listeners, remotes,  *)
(* requests and options.                                                   *)
(*                                                                         *)
(* A step leaves the vector of connections alone, opens a connection,      *)
(* closes one, or ends the loop (ConnEffect); what the invariants say      *)
(* about the indices is shown for these four cases.                        *)
(***************************************************************************)
EXTENDS Connections, FiniteSetTheorems, TLAPS

\* The order in which the provers are tried.
USE ZenonT(2), SMTT(20)

USE DEF connVars, snVars, loopVars, callVars

-----------------------------------------------------------------------------
(* The invariants.                                                         *)

\* A service node or remote has one outgoing entry at most, each outgoing socket
\* has one, and only a remote that was asked for has entries.
Owners ==
  at # "stopped" =>
    /\ \A p, r \in peers : outgoing(p) /\ outgoing(r) /\ p.id = r.id => p = r
    /\ \A i \in DOMAIN connections :
         connections[i].type = "dealer" => \E p \in peers : outgoing(p) /\ p.conn_index = i
    /\ \A p \in peers : p.id \in RemoteId => p.id \in asked

\* An update that is under way ends in what was asked for.
ActiveInv ==
  at # "stopped" =>
    /\ \A p \in peers : ~outgoing(p) => p.id \in active_service_nodes
    /\ IF at = "remove" THEN target = (active_service_nodes \ removing) \cup adding
       ELSE target = active_service_nodes

\* Nothing is waited for twice, and only what was asked for.
AwaitInv ==
  /\ Awaited \subseteq asked
  /\ \A r, s \in pending_requests : r.tag = s.tag => r = s
  /\ \A c, d \in pending_connects : c.id = d.id => c = d
  /\ at \in {"send", "hung"} => /\ out.tag \in Tag \cup {NoTag}
                                /\ \A r \in pending_requests : r.tag # out.tag

ConnInv == TypeOK /\ IndicesAgree /\ Owners /\ RoundRobinValid /\ ActiveInv /\ AwaitInv

-----------------------------------------------------------------------------
(* Facts about the helpers.                                                *)

\* A sequence is a function on the numbers up to its length.
LEMMA SeqLen ==
  ASSUME NEW S, NEW s \in Seq(S)
  PROVE  Len(s) \in Nat /\ DOMAIN s = 1 .. Len(s) /\ \A i \in 1 .. Len(s) : s[i] \in S
OBVIOUS

\* Appending keeps what is there.
LEMMA SeqAppend ==
  ASSUME NEW S, NEW s \in Seq(S), NEW e \in S
  PROVE  /\ Append(s, e) \in Seq(S) /\ Len(Append(s, e)) = Len(s) + 1
         /\ \A i \in 1 .. Len(s) : Append(s, e)[i] = s[i]
         /\ Append(s, e)[Len(s) + 1] = e
OBVIOUS

\* The first element, and the rest.
LEMMA SeqHeadTail ==
  ASSUME NEW S, NEW s \in Seq(S), s # <<>>
  PROVE  Head(s) \in S /\ Tail(s) \in Seq(S)
OBVIOUS

\* vector::erase moves what is behind the erased element.
LEMMA ErasedAt ==
  ASSUME NEW S, NEW s \in Seq(S), NEW i \in 1 .. Len(s)
  PROVE  /\ Erased(s, i) \in Seq(S) /\ Len(Erased(s, i)) = Len(s) - 1
         /\ \A k \in 1 .. Len(s) - 1 : Erased(s, i)[k] = s[IF k < i THEN k ELSE k + 1]
<1>1. Len(s) \in Nat /\ i \in Nat \ {0} /\ i <= Len(s)
  OBVIOUS
<1>2. PICK a \in Seq(S) : /\ a = SubSeq(s, 1, i - 1) /\ Len(a) = i - 1
                          /\ \A k \in 1 .. i - 1 : a[k] = s[k]
  <2> DEFINE n == i - 1
  <2>1. n \in Nat /\ n <= Len(s)
    BY <1>1
  <2> HIDE DEF n
  <2>2. SubSeq(s, 1, n) \in Seq(S) /\ Len(SubSeq(s, 1, n)) = n
    BY <2>1
  <2>3. \A k \in 1 .. n : SubSeq(s, 1, n)[k] = s[k]
    BY <2>1
  <2> QED
    BY <2>2, <2>3, Zenon DEF n
<1>3. PICK b \in Seq(S) : /\ b = SubSeq(s, i + 1, Len(s)) /\ Len(b) = Len(s) - i
                          /\ \A k \in 1 .. Len(s) - i : b[k] = s[i + k]
  <2>1. SubSeq(s, i + 1, Len(s)) \in Seq(S)
    BY <1>1
  <2>2. Len(SubSeq(s, i + 1, Len(s))) = Len(s) - i
    BY <1>1
  <2>3. \A k \in 1 .. Len(s) - i : SubSeq(s, i + 1, Len(s))[k] = s[i + k]
    BY <1>1
  <2> QED
    BY <2>1, <2>2, <2>3, Zenon
<1>4. /\ a \o b \in Seq(S) /\ Len(a \o b) = Len(a) + Len(b)
      /\ \A k \in 1 .. Len(a) + Len(b) : (a \o b)[k] = IF k <= Len(a) THEN a[k] ELSE b[k - Len(a)]
  BY ONLY a \in Seq(S), b \in Seq(S)
<1>5. PICK t : t = a \o b
  OBVIOUS
<1>6. Len(a) = i - 1 /\ Len(b) = Len(s) - i
  BY <1>2, <1>3, Zenon
<1>7. t \in Seq(S) /\ Len(t) = Len(a) + Len(b)
  BY <1>4, <1>5, Zenon
<1>8. t \in Seq(S) /\ Len(t) = Len(s) - 1
  BY ONLY <1>1, <1>6, <1>7
<1>9. ASSUME NEW k \in 1 .. Len(s) - 1
      PROVE  t[k] = s[IF k < i THEN k ELSE k + 1]
  <2>0. k \in 1 .. Len(a) + Len(b) /\ k \in Int
    BY ONLY <1>1, <1>6, k \in 1 .. Len(s) - 1
  <2>1. t[k] = IF k <= Len(a) THEN a[k] ELSE b[k - Len(a)]
    BY <2>0, <1>4, <1>5, Zenon
  <2>2. CASE k < i
    <3>1. k <= Len(a) /\ k \in 1 .. i - 1
      BY ONLY <1>1, <1>6, <2>0, <2>2
    <3> QED
      BY <1>2, <2>1, <2>2, <3>1
  <2>3. CASE ~(k < i)
    <3>1. ~(k <= Len(a)) /\ k - Len(a) \in 1 .. Len(s) - i /\ i + (k - Len(a)) = k + 1
      BY ONLY <1>1, <1>6, <2>0, <2>3
    <3>2. b[k - Len(a)] = s[i + (k - Len(a))]
      BY <1>3, <3>1, Zenon
    <3> QED
      BY <2>1, <2>3, <3>1, <3>2
  <2> QED
    BY <2>2, <2>3
<1>10. Erased(s, i) = t
  BY <1>2, <1>3, <1>5, Zenon DEF Erased
<1> QED
  BY <1>8, <1>9, <1>10, Zenon

\* Indices of places stay natural numbers.
LEMMA ShiftedType ==
  ASSUME NEW i \in Nat, NEW k \in Nat
  PROVE  Shifted(i, k) \in Nat
BY DEF Shifted

PendingConnect == [id : RemoteId, conn_index : Nat, due : BOOLEAN]
Listening == [id : ListenerId, conn_index : Nat]

\* The vectors, and what names places in them.
ConnTypes ==
  /\ connections \in Seq(Socket) /\ conn_index_to_id \in Seq(ConnectionID)
  /\ peers \subseteq Peer
  /\ incoming_conn_index \subseteq Listening
  /\ pending_connects \subseteq PendingConnect
  /\ stale \in BOOLEAN

\* A new connection.
LEMMA OpenType ==
  ASSUME TypeOK, NEW id \in SN \cup RemoteId, NEW pcs \in SUBSET PendingConnect, Open(id, pcs)
  PROVE  ConnTypes'
<1>1. id \in ConnectionID /\ Len(connections) + 1 \in Nat
  BY DEF ConnectionID, TypeOK
<1>2. [type |-> "dealer", id |-> id] \in Socket
  BY <1>1 DEF Socket
<1>3. connections' \in Seq(Socket) /\ conn_index_to_id' \in Seq(ConnectionID)
  BY <1>1, <1>2, SeqAppend DEF Open, TypeOK
<1>4. [id |-> id, conn_index |-> Len(connections) + 1, route |-> NoRoute, idle |-> FALSE] \in Peer
  BY <1>1 DEF Peer
<1>5. peers' \subseteq Peer
  BY <1>4 DEF Open, TypeOK
<1>6. incoming_conn_index' \subseteq Listening /\ pending_connects' \subseteq PendingConnect
  BY DEF Open, TypeOK, Listening
<1>7. stale' \in BOOLEAN
  BY DEF Open
<1> QED
  BY <1>3, <1>5, <1>6, <1>7 DEF ConnTypes

\* A connection that is closed.
LEMMA CloseType ==
  ASSUME TypeOK, NEW k \in DOMAIN connections, Len(conn_index_to_id) = Len(connections),
         NEW ps \in SUBSET peers, NEW pcs \in SUBSET pending_connects,
         proxy_close_connection(k, ps, pcs)
  PROVE  ConnTypes'
<1>1. k \in 1 .. Len(connections) /\ k \in 1 .. Len(conn_index_to_id) /\ k \in Nat
  BY DEF TypeOK
<1>2. connections' \in Seq(Socket) /\ conn_index_to_id' \in Seq(ConnectionID)
  BY <1>1, ErasedAt DEF proxy_close_connection, TypeOK
<1>3. ASSUME NEW p \in Peer PROVE [p EXCEPT !.conn_index = Shifted(@, k)] \in Peer
  <2>1. Shifted(p.conn_index, k) \in Nat
    BY <1>1, ShiftedType DEF Peer
  <2> QED
    BY <2>1 DEF Peer
<1>4. ASSUME NEW l \in Listening PROVE [l EXCEPT !.conn_index = Shifted(@, k)] \in Listening
  <2>1. Shifted(l.conn_index, k) \in Nat
    BY <1>1, ShiftedType DEF Listening
  <2> QED
    BY <2>1 DEF Listening
<1>5. ASSUME NEW c \in PendingConnect
      PROVE  [c EXCEPT !.conn_index = Shifted(@, k)] \in PendingConnect
  <2>1. Shifted(c.conn_index, k) \in Nat
    BY <1>1, ShiftedType DEF PendingConnect
  <2> QED
    BY <2>1 DEF PendingConnect
<1>6. peers' \subseteq Peer
  BY <1>3 DEF proxy_close_connection, UpdateIndices, TypeOK
<1>7. incoming_conn_index' \subseteq Listening
  <2>1. incoming_conn_index \subseteq Listening
    BY DEF TypeOK, Listening
  <2> QED
    BY <1>4, <2>1 DEF proxy_close_connection, UpdateIndices
<1>8. pending_connects' \subseteq PendingConnect
  <2>1. pcs \subseteq PendingConnect
    BY DEF TypeOK, PendingConnect
  <2> QED
    BY <1>5, <2>1 DEF proxy_close_connection, UpdateIndices
<1>9. stale' \in BOOLEAN
  BY DEF proxy_close_connection
<1> QED
  BY <1>2, <1>6, <1>7, <1>8, <1>9 DEF ConnTypes

\* The outcomes of callbacks.
CallOutcome == {"success", "mixed_up", "failure", "reply", "error", "TIMEOUT"}

\* A callback is called.
LEMMA CallType ==
  ASSUME TypeOK, NEW x \in Tag \cup RemoteId, NEW r \in CallOutcome, Call(x, r)
  PROVE  called' \in [Tag \cup RemoteId -> Seq(CallOutcome)]
<1>1. called \in [Tag \cup RemoteId -> Seq(CallOutcome)]
  BY DEF TypeOK, CallOutcome
<1>2. Append(called[x], r) \in Seq(CallOutcome)
  BY <1>1, SeqAppend
<1> QED
  BY <1>1, <1>2 DEF Call

\* The proxy's own messages fit its socket.
LEMMA JobType ==
  ASSUME TypeOK, NEW n \in Nat, job(n)
  PROVE  own' \in 0 .. CommandHWM
BY ConnectionsAssumption DEF TypeOK, job

\* The end of proxy_send.
LEMMA SendDoneType ==
  ASSUME TypeOK, at = "send", NEW result, SendDone(result)
  PROVE  /\ at' = "control" /\ out' = <<>> /\ own' \in 0 .. CommandHWM
         /\ pending_requests' \subseteq [tag : Tag, due : BOOLEAN]
         /\ called' \in [Tag \cup RemoteId -> Seq(CallOutcome)]
<1>1. out \in Message /\ out.tag \in Tag \cup {NoTag}
  BY DEF TypeOK, Message
<1>2. Notices(result) \in Nat /\ 1 + Notices(result) \in Nat
  <2>1. Notices(result) \in Nat
    BY DEF Notices
  <2> QED
    BY <2>1
<1>3. at' = "control" /\ out' = <<>>
  BY DEF SendDone
<1>4. called \in [Tag \cup RemoteId -> Seq(CallOutcome)]
  BY DEF TypeOK, CallOutcome
<1>5. CASE out.tag = NoTag
  <2>1. job(Notices(result)) /\ UNCHANGED <<pending_requests, called>>
    BY <1>5 DEF SendDone
  <2> QED
    BY <1>2, <1>3, <1>4, <2>1, JobType DEF TypeOK
<1>6. CASE out.tag # NoTag /\ result = "sent"
  <2>1. /\ pending_requests' = pending_requests \cup {[tag |-> out.tag, due |-> FALSE]}
        /\ UNCHANGED <<called, own>> /\ out.tag \in Tag
    BY <1>1, <1>6 DEF SendDone
  <2>2. [tag |-> out.tag, due |-> FALSE] \in [tag : Tag, due : BOOLEAN]
    BY <2>1
  <2>3. own' \in 0 .. CommandHWM /\ pending_requests \subseteq [tag : Tag, due : BOOLEAN]
    BY <2>1 DEF TypeOK
  <2> QED
    BY <1>3, <1>4, <2>1, <2>2, <2>3
<1>7. CASE out.tag # NoTag /\ result # "sent"
  <2>1. /\ Call(out.tag, "TIMEOUT") /\ job(1 + Notices(result))
        /\ UNCHANGED pending_requests /\ out.tag \in Tag
    BY <1>1, <1>7 DEF SendDone
  <2>2. called' \in [Tag \cup RemoteId -> Seq(CallOutcome)]
    BY <2>1, CallType DEF CallOutcome
  <2>3. own' \in 0 .. CommandHWM
    BY <1>2, <2>1, JobType
  <2> QED
    BY <1>3, <2>1, <2>2, <2>3 DEF TypeOK
<1> QED
  BY <1>5, <1>6, <1>7

Places == {"control", "send", "remove", "expire", "connects", "requests", "incoming", "top",
           "stopped", "hung"}

SnTypes ==
  /\ active_service_nodes \subseteq SN /\ target \subseteq SN
  /\ removing \subseteq SN /\ adding \subseteq SN

LoopTypes ==
  queue_index \in Seq(Nat) /\ skip \in BOOLEAN /\ tick \in BOOLEAN /\ quitting \in BOOLEAN

CallTypes ==
  /\ pending_requests \subseteq [tag : Tag, due : BOOLEAN]
  /\ own \in 0 .. CommandHWM
  /\ called \in [Tag \cup RemoteId -> Seq(CallOutcome)]

OutType == IF at = "send" THEN out \in Message ELSE at # "hung" => out = <<>>

\* The types in groups, as the actions leave them unchanged.
LEMMA TypeGroups ==
  /\ TypeOK => /\ at \in Places /\ ConnTypes /\ SnTypes /\ LoopTypes /\ CallTypes /\ OutType
               /\ asked \subseteq Tag \cup RemoteId /\ inputs \in 0 .. MaxInputs
  /\ /\ at' \in Places /\ ConnTypes' /\ SnTypes' /\ LoopTypes' /\ CallTypes' /\ OutType'
     /\ asked' \subseteq Tag \cup RemoteId /\ inputs' \in 0 .. MaxInputs
     => TypeOK'
BY DEF TypeOK, Places, ConnTypes, SnTypes, LoopTypes, CallTypes, OutType, PendingConnect, Listening,
       CallOutcome

\* What is unchanged keeps its type.
LEMMA TypeFrame ==
  ASSUME TypeOK
  PROVE  /\ UNCHANGED connVars => ConnTypes'
         /\ UNCHANGED snVars => SnTypes'
         /\ UNCHANGED loopVars => LoopTypes'
         /\ UNCHANGED callVars => CallTypes'
         /\ UNCHANGED asked => asked' \subseteq Tag \cup RemoteId
         /\ UNCHANGED inputs => inputs' \in 0 .. MaxInputs
         /\ UNCHANGED at => at' \in Places
         /\ UNCHANGED <<at, out>> => OutType'
         /\ UNCHANGED out /\ at \notin {"send", "hung"} /\ at' # "send" => OutType'
         /\ Control => inputs' \in 0 .. MaxInputs
<1>0. /\ at \in Places /\ ConnTypes /\ SnTypes /\ LoopTypes /\ CallTypes /\ OutType
      /\ asked \subseteq Tag \cup RemoteId /\ inputs \in 0 .. MaxInputs
  BY TypeGroups
<1>1. UNCHANGED connVars => ConnTypes'
  BY <1>0 DEF ConnTypes
<1>2. UNCHANGED snVars => SnTypes'
  BY <1>0 DEF SnTypes
<1>3. UNCHANGED loopVars => LoopTypes'
  BY <1>0 DEF LoopTypes
<1>4. UNCHANGED callVars => CallTypes'
  BY <1>0 DEF CallTypes
<1>5. /\ UNCHANGED asked => asked' \subseteq Tag \cup RemoteId
      /\ UNCHANGED inputs => inputs' \in 0 .. MaxInputs
      /\ UNCHANGED at => at' \in Places
  BY <1>0
<1>6. /\ UNCHANGED <<at, out>> => OutType'
      /\ UNCHANGED out /\ at \notin {"send", "hung"} /\ at' # "send" => OutType'
  BY <1>0 DEF OutType
<1>7. Control => inputs' \in 0 .. MaxInputs
  BY <1>0, ConnectionsAssumption DEF Control
<1> QED
  BY <1>1, <1>2, <1>3, <1>4, <1>5, <1>6, <1>7

\* An entry whose idle flag changes.
LEMMA TouchedType ==
  ASSUME TypeOK, NEW p \in peers, NEW b \in BOOLEAN,
         \/ peers' = peers \/ peers' = (peers \ {p}) \cup {[p EXCEPT !.idle = b]},
         UNCHANGED <<connections, conn_index_to_id, incoming_conn_index, pending_connects, stale>>
  PROVE  ConnTypes'
<1>1. [p EXCEPT !.idle = b] \in Peer
  BY DEF TypeOK, Peer
<1> QED
  BY <1>1 DEF TypeOK, ConnTypes, PendingConnect, Listening

\* What callers ask for.
LEMMA CallersType ==
  ASSUME TypeOK, IndicesAgree, Callers
  PROVE  TypeOK'
<1>0. /\ at \in Places /\ ConnTypes /\ SnTypes /\ LoopTypes /\ CallTypes /\ OutType
      /\ asked \subseteq Tag \cup RemoteId /\ inputs \in 0 .. MaxInputs
  BY TypeGroups
<1>1. ASSUME NEW id \in RemoteId, proxy_connect_remote(id) PROVE TypeOK'
  <2>1. Control /\ asked' = asked \cup {id}
        /\ UNCHANGED <<at, snVars, queue_index, tick, quitting, pending_requests, own, out>>
    BY <1>1 DEF proxy_connect_remote
  <2>2. CASE Call(id, "failure") /\ skip' = TRUE /\ UNCHANGED connVars
    <3>1. called' \in [Tag \cup RemoteId -> Seq(CallOutcome)]
      BY <2>2, CallType DEF CallOutcome
    <3>2. CallTypes' /\ LoopTypes'
      BY <1>0, <2>1, <2>2, <3>1 DEF CallTypes, LoopTypes
    <3> QED
      BY <1>0, <2>1, <2>2, <3>2, TypeFrame, TypeGroups
  <2>3. CASE /\ Open(id, pending_connects \cup
                      {[id |-> id, conn_index |-> Len(connections) + 1, due |-> FALSE]})
             /\ UNCHANGED <<called, skip>>
    <3>1. Len(connections) + 1 \in Nat
      BY DEF TypeOK
    <3>2. [id |-> id, conn_index |-> Len(connections) + 1, due |-> FALSE] \in PendingConnect
      BY <3>1 DEF PendingConnect
    <3>3. ConnTypes'
      BY <1>0, <2>3, <3>2, OpenType DEF ConnTypes
    <3>4. CallTypes' /\ LoopTypes'
      BY <1>0, <2>1, <2>3 DEF CallTypes, LoopTypes
    <3> QED
      BY <1>0, <2>1, <3>3, <3>4, TypeFrame, TypeGroups
  <2> QED
    BY <1>1, <2>2, <2>3 DEF proxy_connect_remote
<1>2. ASSUME NEW pk \in SN, proxy_connect_sn(pk) PROVE TypeOK'
  <2>1. Control /\ UNCHANGED <<at, snVars, loopVars, callVars, out, asked>>
    BY <1>2 DEF proxy_connect_sn
  <2>2. ConnTypes'
    <3>1. CASE UNCHANGED connVars
      BY <3>1, TypeFrame
    <3>2. CASE Open(pk, pending_connects)
      BY <1>0, <3>2, OpenType DEF ConnTypes
    <3>3. CASE /\ \E p \in peers : activity(p)
               /\ UNCHANGED <<connections, conn_index_to_id, incoming_conn_index, pending_connects, stale>>
      BY <3>3, TouchedType DEF activity
    <3> QED
      BY <1>2, <3>1, <3>2, <3>3 DEF proxy_connect_sn, ConnectNew, Usable, PeersOf
  <2> QED
    BY <2>1, <2>2, TypeFrame, TypeGroups
<1>3. ASSUME NEW id \in ConnectionID, proxy_disconnect(id) PROVE TypeOK'
  <2>1. Control /\ UNCHANGED <<at, snVars, loopVars, callVars, out, asked>> /\ at # "stopped"
    BY <1>3 DEF proxy_disconnect, Control
  <2>2. ConnTypes'
    <3>1. CASE UNCHANGED connVars
      BY <3>1, TypeFrame
    <3>2. CASE \E p \in peers : proxy_close_connection(p.conn_index, peers, pending_connects)
      BY <2>1, <3>2, CloseType DEF IndicesAgree
    <3> QED
      BY <1>3, <3>1, <3>2 DEF proxy_disconnect, PeersOf
  <2> QED
    BY <2>1, <2>2, TypeFrame, TypeGroups
<1>4. ASSUME NEW id \in ConnectionID, proxy_reply(id) PROVE TypeOK'
  <2>1. /\ Control /\ UNCHANGED <<at, snVars, loopVars, callVars, out, asked>>
        /\ UNCHANGED <<connections, conn_index_to_id, incoming_conn_index, pending_connects, stale>>
        /\ peers' \subseteq peers
    BY <1>4 DEF proxy_reply
  <2>2. ConnTypes'
    BY <1>0, <2>1 DEF ConnTypes
  <2> QED
    BY <2>1, <2>2, TypeFrame, TypeGroups
<1>5. ASSUME NEW added, NEW removed, added \subseteq SN, removed \subseteq SN, target' \subseteq SN,
             Control, proxy_update_active_sns_clean(added, removed)
      PROVE  TypeOK'
  <2>1. /\ at' = "remove" /\ at = "control"
        /\ UNCHANGED <<connVars, loopVars, callVars, out, asked>>
    BY <1>5 DEF proxy_update_active_sns_clean, Control
  <2>2. SnTypes'
    BY <1>0, <1>5 DEF proxy_update_active_sns_clean, SnTypes
  <2>3. OutType' /\ at' \in Places
    BY <1>0, <2>1 DEF OutType, Places
  <2> QED
    BY <1>5, <2>1, <2>2, <2>3, TypeFrame, TypeGroups
<1>6. ASSUME NEW keys \in SUBSET (SN \cup Junk), proxy_set_active_sns(keys) PROVE TypeOK'
  <2>1. Control /\ target' = keys \cap SN
    BY <1>6 DEF proxy_set_active_sns
  <2>2. CASE UNCHANGED <<at, connVars, active_service_nodes, removing, adding, loopVars, callVars,
                         out, asked>>
    <3>1. SnTypes'
      BY <1>0, <2>1, <2>2 DEF SnTypes
    <3> QED
      BY <2>1, <2>2, <3>1, TypeFrame, TypeGroups
  <2>3. CASE \E seen \in SUBSET active_service_nodes :
               proxy_update_active_sns_clean((keys \cap SN) \ active_service_nodes, seen \ (keys \cap SN))
    <3>1. PICK seen \in SUBSET active_service_nodes :
               proxy_update_active_sns_clean((keys \cap SN) \ active_service_nodes, seen \ (keys \cap SN))
      BY <2>3
    <3>2. /\ (keys \cap SN) \ active_service_nodes \subseteq SN /\ target' \subseteq SN
          /\ seen \ (keys \cap SN) \subseteq SN
      BY <1>0, <2>1 DEF SnTypes
    <3> QED
      BY <1>5, <2>1, <3>1, <3>2
  <2> QED
    BY <1>6, <2>2, <2>3 DEF proxy_set_active_sns
<1>7. ASSUME NEW added \in SUBSET (SN \cup Junk), NEW removed \in SUBSET (SN \cup Junk),
             proxy_update_active_sns(added, removed)
      PROVE  TypeOK'
  <2>1. /\ Added(added, removed) \subseteq SN /\ Removed(added, removed) \subseteq SN
    BY DEF Added, Removed
  <2>2. target' \subseteq SN
    BY <1>0, <1>7 DEF proxy_update_active_sns, SnTypes
  <2> QED
    BY <1>5, <1>7, <2>1, <2>2 DEF proxy_update_active_sns
<1>8. ASSUME NEW to \in ConnectionID, NEW route \in Route \cup {NoRoute}, NEW o \in SendOptions,
             NEW tag \in Tag \cup {NoTag}, SEND(to, route, o, tag)
      PROVE  TypeOK'
  <2>1. /\ Control /\ at' = "send" /\ UNCHANGED <<connVars, snVars, loopVars, callVars>>
        /\ asked' = asked \cup ({tag} \ {NoTag})
        /\ out' = [to |-> to, route |-> route, o |-> o, tag |-> tag]
    BY <1>8 DEF SEND, build_send
  <2>2. OutType' /\ at' \in Places
    BY <2>1 DEF OutType, Message, Places
  <2>3. asked' \subseteq Tag \cup RemoteId
    BY <1>0, <2>1
  <2> QED
    BY <2>1, <2>2, <2>3, TypeFrame, TypeGroups
<1>9. CASE QUIT
  <2>1. LoopTypes'
    BY <1>0, <1>9 DEF QUIT, LoopTypes
  <2> QED
    BY <1>9, <2>1, TypeFrame, TypeGroups DEF QUIT
<1> QED
  BY <1>1, <1>2, <1>3, <1>4, <1>6, <1>7, <1>8, <1>9 DEF Callers

\* A message on a socket: what every case of it has in common.
LEMMA ReceiveType ==
  ASSUME TypeOK, NEW i, Receive(i), Served(i), skip' \in BOOLEAN
  PROVE  /\ at' \in Places /\ SnTypes' /\ LoopTypes' /\ OutType' /\ own' \in 0 .. CommandHWM
         /\ asked' \subseteq Tag \cup RemoteId /\ inputs' \in 0 .. MaxInputs
<1>0. /\ at \in Places /\ SnTypes /\ LoopTypes /\ CallTypes /\ OutType
      /\ asked \subseteq Tag \cup RemoteId /\ inputs \in 0 .. MaxInputs
  BY TypeGroups
<1>1. /\ at = "incoming" /\ queue_index # <<>> /\ i = Head(queue_index)
      /\ UNCHANGED <<snVars, tick, quitting, own, out, asked>>
  BY DEF Receive
<1>2. inputs' \in 0 .. MaxInputs
  BY <1>0, ConnectionsAssumption DEF Receive
<1>3. at' \in {"incoming", "top"}
  BY <1>1 DEF Served
<1>4. queue_index' \in Seq(Nat)
  <2>1. i \in Nat /\ Tail(queue_index) \in Seq(Nat)
    BY <1>0, <1>1, SeqHeadTail DEF LoopTypes
  <2>2. Append(Tail(queue_index), i) \in Seq(Nat) /\ <<>> \in Seq(Nat)
    BY <2>1, SeqAppend
  <2> QED
    BY <2>2 DEF Served
<1>5. LoopTypes'
  BY <1>0, <1>1, <1>4 DEF LoopTypes
<1>6. OutType' /\ at' \in Places
  BY <1>0, <1>1, <1>3 DEF OutType, Places
<1>7. own' \in 0 .. CommandHWM
  BY <1>0, <1>1 DEF CallTypes
<1> QED
  BY <1>0, <1>1, <1>2, <1>5, <1>6, <1>7, TypeFrame

\* Messages of remotes.
LEMMA IncomingType ==
  ASSUME TypeOK, IndicesAgree, Incoming
  PROVE  TypeOK'
<1>0. ConnTypes /\ LoopTypes /\ CallTypes /\ SnTypes
  BY TypeGroups
<1>1. PICK i \in DOMAIN connections :
        \/ \E tag \in Tag, result \in {"reply", "error"} : REPLY(i, tag, result)
        \/ HELLO(i) \/ BYE(i) \/ CommandOnOutgoing(i) \/ OtherMessage(i)
        \/ \E pk \in SN, route \in Route : CommandFromSN(i, pk, route)
  BY DEF Incoming
<1>2. ASSUME ConnTypes', skip' \in BOOLEAN, Receive(i), Served(i),
             pending_requests' \subseteq [tag : Tag, due : BOOLEAN],
             called' \in [Tag \cup RemoteId -> Seq(CallOutcome)]
      PROVE  TypeOK'
  <2>1. /\ at' \in Places /\ SnTypes' /\ LoopTypes' /\ OutType' /\ own' \in 0 .. CommandHWM
        /\ asked' \subseteq Tag \cup RemoteId /\ inputs' \in 0 .. MaxInputs
    BY <1>2, ReceiveType
  <2>2. CallTypes'
    BY <1>2, <2>1 DEF CallTypes
  <2> QED
    BY <1>2, <2>1, <2>2, TypeGroups
<1>3. ASSUME UNCHANGED <<skip, pending_requests, called>>
      PROVE  /\ skip' \in BOOLEAN /\ pending_requests' \subseteq [tag : Tag, due : BOOLEAN]
             /\ called' \in [Tag \cup RemoteId -> Seq(CallOutcome)]
  BY <1>0, <1>3 DEF LoopTypes, CallTypes
<1>4. ASSUME NEW tag \in Tag, NEW result \in {"reply", "error"}, REPLY(i, tag, result)
      PROVE  TypeOK'
  <2>1. Receive(i) /\ UNCHANGED connVars /\ Served(i)
    BY <1>4 DEF REPLY
  <2>2. CASE UNCHANGED <<called, skip, pending_requests>>
    BY <1>2, <1>3, <2>1, <2>2, TypeFrame
  <2>3. CASE /\ Call(tag, result) /\ skip' = TRUE
             /\ pending_requests' = {r \in pending_requests : r.tag # tag}
    <3>1. called' \in [Tag \cup RemoteId -> Seq(CallOutcome)]
      BY <2>3, CallType DEF CallOutcome
    <3>2. pending_requests' \subseteq [tag : Tag, due : BOOLEAN] /\ skip' \in BOOLEAN
      BY <1>0, <2>3 DEF CallTypes
    <3> QED
      BY <1>2, <2>1, <3>1, <3>2, TypeFrame
  <2> QED
    BY <1>4, <2>2, <2>3 DEF REPLY
<1>5. CASE HELLO(i)
  <2>1. /\ Receive(i) /\ Served(i)
        /\ UNCHANGED <<connections, conn_index_to_id, peers, incoming_conn_index, stale, pending_requests>>
    BY <1>5 DEF HELLO
  <2>2. CASE UNCHANGED <<called, skip, pending_connects>>
    BY <1>2, <1>3, <2>1, <2>2, TypeFrame
  <2>3. ASSUME NEW c \in pending_connects, Established(c) PROVE TypeOK'
    <3>1. c.id \in Tag \cup RemoteId
      BY DEF TypeOK
    <3>2. PICK r \in CallOutcome : Call(c.id, r)
      BY <2>3 DEF Established, CallOutcome
    <3>3. called' \in [Tag \cup RemoteId -> Seq(CallOutcome)]
      BY <3>1, <3>2, CallType
    <3>4. skip' = TRUE /\ pending_connects' = pending_connects \ {c}
      BY <2>3 DEF Established
    <3>5. ConnTypes'
      BY <1>0, <2>1, <3>4 DEF ConnTypes
    <3>6. skip' \in BOOLEAN /\ pending_requests' \subseteq [tag : Tag, due : BOOLEAN]
      BY <1>0, <2>1, <3>4 DEF CallTypes
    <3> QED
      BY <1>2, <2>1, <3>3, <3>5, <3>6
  <2> QED
    BY <1>5, <2>2, <2>3 DEF HELLO
<1>6. CASE BYE(i)
  <2>1. /\ Receive(i) /\ Served(i) /\ UNCHANGED <<skip, pending_requests, called>>
        /\ proxy_close_connection(i, peers, pending_connects)
    BY <1>6 DEF BYE
  <2>2. ConnTypes'
    BY <2>1, CloseType DEF IndicesAgree, Receive
  <2> QED
    BY <1>2, <1>3, <2>1, <2>2
<1>7. CASE CommandOnOutgoing(i)
  <2>1. /\ Receive(i) /\ Served(i) /\ UNCHANGED <<skip, pending_requests, called>>
        /\ UNCHANGED <<connections, conn_index_to_id, incoming_conn_index, pending_connects, stale>>
        /\ (\E p \in peers : activity(p)) \/ UNCHANGED peers
    BY <1>7 DEF CommandOnOutgoing, PeersOf
  <2>2. ConnTypes'
    <3>1. CASE \E p \in peers : activity(p)
      BY <2>1, <3>1, TouchedType DEF activity
    <3>2. CASE UNCHANGED peers
      BY <2>1, <3>2, TypeFrame
    <3> QED
      BY <2>1, <3>1, <3>2
  <2> QED
    BY <1>2, <1>3, <2>1, <2>2
<1>8. CASE OtherMessage(i)
  BY <1>2, <1>3, <1>8, TypeFrame DEF OtherMessage
<1>9. ASSUME NEW pk \in SN, NEW route \in Route, CommandFromSN(i, pk, route) PROVE TypeOK'
  <2>1. /\ Receive(i) /\ Served(i) /\ UNCHANGED <<skip, pending_requests, called>>
        /\ UNCHANGED <<connections, conn_index_to_id, incoming_conn_index, pending_connects, stale>>
        /\ peers' = peers \cup {[id |-> pk, conn_index |-> i, route |-> route, idle |-> FALSE]}
    BY <1>9 DEF CommandFromSN
  <2>2. i \in Nat /\ pk \in ConnectionID
    BY DEF TypeOK, ConnectionID
  <2>3. [id |-> pk, conn_index |-> i, route |-> route, idle |-> FALSE] \in Peer
    BY <2>2 DEF Peer
  <2>4. ConnTypes'
    BY <1>0, <2>1, <2>3 DEF ConnTypes
  <2> QED
    BY <1>2, <1>3, <2>1, <2>4
<1> QED
  BY <1>1, <1>4, <1>5, <1>6, <1>7, <1>8, <1>9

\* What the proxy sends.
LEMMA SendType ==
  ASSUME TypeOK,
         \/ \E p \in peers : SendToSN(p) \/ \E first \in peers : SendUnreachable(p, first)
         \/ SendConnecting \/ SendNowhere \/ SendToRemote
  PROVE  TypeOK'
<1>0. /\ ConnTypes /\ at = "send" /\ UNCHANGED <<snVars, loopVars, asked, inputs>>
  BY TypeGroups DEF SendToSN, SendUnreachable, SendConnecting, SendNowhere, SendToRemote, Sending
<1>1. ASSUME NEW result, SendDone(result), ConnTypes' PROVE TypeOK'
  <2>1. /\ at' = "control" /\ out' = <<>> /\ own' \in 0 .. CommandHWM
        /\ pending_requests' \subseteq [tag : Tag, due : BOOLEAN]
        /\ called' \in [Tag \cup RemoteId -> Seq(CallOutcome)]
    BY <1>0, <1>1, SendDoneType
  <2>2. at' \in Places /\ OutType' /\ CallTypes'
    BY <2>1 DEF Places, OutType, CallTypes
  <2> QED
    BY <1>0, <1>1, <2>2, TypeFrame, TypeGroups
<1>2. ASSUME NEW p \in peers, SendToSN(p) PROVE TypeOK'
  <2>1. /\ \E result \in Result : SendDone(result)
        /\ activity(p)
        /\ UNCHANGED <<connections, conn_index_to_id, incoming_conn_index, pending_connects, stale>>
    BY <1>2 DEF SendToSN
  <2>2. ConnTypes'
    BY <2>1, TouchedType DEF activity
  <2> QED
    BY <1>1, <2>1, <2>2
<1>3. ASSUME NEW p \in peers, NEW first \in peers, SendUnreachable(p, first) PROVE TypeOK'
  <2>1. /\ peers' \subseteq peers /\ UNCHANGED <<callVars, out>>
        /\ UNCHANGED <<connections, conn_index_to_id, incoming_conn_index, pending_connects, stale>>
        /\ at' = at \/ at' = "hung"
    BY <1>3 DEF SendUnreachable
  <2>2. ConnTypes'
    BY <1>0, <2>1 DEF ConnTypes
  <2>3. OutType' /\ at' \in Places
    BY <1>0, <2>1, TypeFrame DEF OutType, Places
  <2> QED
    BY <1>0, <2>1, <2>2, <2>3, TypeFrame, TypeGroups
<1>4. CASE SendConnecting
  <2>1. /\ \E result \in Result : SendDone(result)
        /\ Open(out.to, pending_connects) /\ out.to \in SN
    BY <1>4 DEF SendConnecting, ConnectNew
  <2>2. ConnTypes'
    BY <1>0, <2>1, OpenType DEF ConnTypes
  <2> QED
    BY <1>1, <2>1, <2>2
<1>5. CASE SendNowhere \/ SendToRemote
  <2>1. UNCHANGED connVars /\ \E result : SendDone(result)
    BY <1>5 DEF SendNowhere, SendToRemote
  <2> QED
    BY <1>1, <2>1, TypeFrame
<1> QED
  BY <1>2, <1>3, <1>4, <1>5

\* The round robin looks at every socket.
LEMMA AllSockets ==
  ASSUME TypeOK
  PROVE  [i \in DOMAIN connections |-> i] \in Seq(Nat)
<1>1. DOMAIN connections = 1 .. Len(connections) /\ Len(connections) \in Nat
  BY SeqLen DEF TypeOK
<1> QED
  BY <1>1

\* The rest of what the proxy thread does.
LEMMA ProxyType ==
  ASSUME TypeOK, IndicesAgree, Proxy
  PROVE  TypeOK'
<1>0. /\ at \in Places /\ ConnTypes /\ SnTypes /\ LoopTypes /\ CallTypes /\ OutType
  BY TypeGroups
<1>1. CASE \/ \E p \in peers : SendToSN(p) \/ \E first \in peers : SendUnreachable(p, first)
           \/ SendConnecting \/ SendNowhere \/ SendToRemote
  BY <1>1, SendType
<1>2. ASSUME NEW p \in peers, RemovePeer(p) PROVE TypeOK'
  <2>1. at = "remove" /\ UNCHANGED <<at, snVars, loopVars, callVars, out, asked, inputs>>
    BY <1>2 DEF RemovePeer
  <2>2. ConnTypes'
    <3>1. CASE proxy_close_connection(p.conn_index, peers \ {p}, pending_connects)
      <4>1. p.conn_index \in DOMAIN connections /\ Len(conn_index_to_id) = Len(connections)
        BY <2>1 DEF IndicesAgree
      <4>2. peers \ {p} \in SUBSET peers /\ pending_connects \in SUBSET pending_connects
        OBVIOUS
      <4> QED
        BY <3>1, <4>1, <4>2, CloseType
    <3>2. CASE /\ peers' = peers \ {p}
               /\ UNCHANGED <<connections, conn_index_to_id, incoming_conn_index, pending_connects, stale>>
      BY <1>0, <3>2 DEF ConnTypes
    <3> QED
      BY <1>2, <3>1, <3>2 DEF RemovePeer
  <2> QED
    BY <2>1, <2>2, TypeFrame, TypeGroups
<1>3. CASE RemoveDone
  <2>1. /\ at = "remove" /\ at' = "control"
        /\ UNCHANGED <<connVars, target, loopVars, callVars, out, asked, inputs>>
    BY <1>3 DEF RemoveDone
  <2>2. SnTypes'
    BY <1>0, <1>3 DEF RemoveDone, SnTypes
  <2>3. OutType' /\ at' \in Places
    BY <1>0, <2>1 DEF OutType, Places
  <2> QED
    BY <2>1, <2>2, <2>3, TypeFrame, TypeGroups
<1>4. CASE OwnBatch
  <2>1. UNCHANGED <<at, connVars, snVars, queue_index, tick, quitting, pending_requests, called,
                    out, asked, inputs>> /\ own > 0 /\ own' = own - 1 /\ skip' = TRUE
    BY <1>4 DEF OwnBatch
  <2>2. own' \in 0 .. CommandHWM
    BY <1>0, <2>1, ConnectionsAssumption DEF CallTypes
  <2>3. CallTypes' /\ LoopTypes'
    BY <1>0, <2>1, <2>2 DEF CallTypes, LoopTypes
  <2> QED
    BY <2>1, <2>3, TypeFrame, TypeGroups
<1>5. CASE ControlDone
  <2>1. /\ at = "control" /\ at' \in {"expire", "incoming"}
        /\ UNCHANGED <<connVars, snVars, skip, quitting, callVars, out, asked, inputs>>
        /\ tick' = FALSE /\ queue_index' = [i \in DOMAIN connections |-> i]
    BY <1>5 DEF ControlDone
  <2>2. LoopTypes'
    BY <1>0, <2>1, AllSockets DEF LoopTypes
  <2>3. OutType' /\ at' \in Places
    BY <1>0, <2>1 DEF OutType, Places
  <2> QED
    BY <2>1, <2>2, <2>3, TypeFrame, TypeGroups
<1>6. CASE proxy_expire_idle_peers
  <2>1. /\ at = "expire" /\ at' \in {"expire", "connects"}
        /\ UNCHANGED <<snVars, loopVars, callVars, out, asked, inputs>>
    BY <1>6 DEF proxy_expire_idle_peers
  <2>2. ConnTypes'
    <3>1. CASE \E p \in peers : proxy_close_connection(p.conn_index, peers, pending_connects)
      BY <2>1, <3>1, CloseType DEF IndicesAgree
    <3>2. CASE UNCHANGED connVars
      BY <3>2, TypeFrame
    <3> QED
      BY <1>6, <3>1, <3>2 DEF proxy_expire_idle_peers
  <2>3. OutType' /\ at' \in Places
    BY <1>0, <2>1 DEF OutType, Places
  <2> QED
    BY <2>1, <2>2, <2>3, TypeFrame, TypeGroups
<1>7. CASE ExpireConnects
  <2>1. /\ at = "connects" /\ at' \in {"connects", "requests"}
        /\ UNCHANGED <<snVars, loopVars, pending_requests, out, asked, inputs>>
    BY <1>7 DEF ExpireConnects
  <2>2. OutType' /\ at' \in Places
    BY <1>0, <2>1 DEF OutType, Places
  <2>3. ConnTypes' /\ CallTypes'
    <3>1. ASSUME NEW c \in pending_connects, Call(c.id, "failure"), job(1),
                 proxy_close_connection(c.conn_index, peers, pending_connects \ {c})
          PROVE  ConnTypes' /\ CallTypes'
      <4>1. c.conn_index \in DOMAIN connections /\ Len(conn_index_to_id) = Len(connections)
        BY <2>1 DEF IndicesAgree
      <4>2. peers \in SUBSET peers /\ pending_connects \ {c} \in SUBSET pending_connects
        OBVIOUS
      <4>3. ConnTypes'
        BY <3>1, <4>1, <4>2, CloseType
      <4>4. c.id \in Tag \cup RemoteId
        BY DEF TypeOK
      <4>5. called' \in [Tag \cup RemoteId -> Seq(CallOutcome)]
        BY <3>1, <4>4, CallType DEF CallOutcome
      <4>6. own' \in 0 .. CommandHWM
        BY <3>1, JobType
      <4> QED
        BY <1>0, <2>1, <4>3, <4>5, <4>6 DEF CallTypes
    <3>2. CASE UNCHANGED <<connVars, own, called>>
      BY <2>1, <3>2, TypeFrame
    <3> QED
      BY <1>7, <3>1, <3>2 DEF ExpireConnects
  <2> QED
    BY <2>1, <2>2, <2>3, TypeFrame, TypeGroups
<1>8. CASE ExpireRequests
  <2>1. /\ at = "requests" /\ at' \in {"requests", "incoming"}
        /\ UNCHANGED <<connVars, snVars, skip, tick, quitting, out, asked, inputs>>
    BY <1>8 DEF ExpireRequests
  <2>2. OutType' /\ at' \in Places
    BY <1>0, <2>1 DEF OutType, Places
  <2>3. LoopTypes'
    BY <1>0, <1>8, <2>1, AllSockets DEF LoopTypes, ExpireRequests
  <2>4. CallTypes'
    <3>1. ASSUME NEW r \in pending_requests, Call(r.tag, "TIMEOUT"), job(1),
                 pending_requests' = pending_requests \ {r}
          PROVE  CallTypes'
      <4>1. r.tag \in Tag \cup RemoteId
        BY DEF TypeOK
      <4>2. called' \in [Tag \cup RemoteId -> Seq(CallOutcome)]
        BY <3>1, <4>1, CallType DEF CallOutcome
      <4>3. own' \in 0 .. CommandHWM
        BY <3>1, JobType
      <4> QED
        BY <1>0, <3>1, <4>2, <4>3 DEF CallTypes
    <3>2. CASE UNCHANGED callVars
      BY <3>2, TypeFrame
    <3> QED
      BY <1>8, <3>1, <3>2 DEF ExpireRequests
  <2> QED
    BY <2>1, <2>2, <2>3, <2>4, TypeFrame, TypeGroups
<1>9. CASE ReceiveNone
  <2>1. /\ at = "incoming" /\ at' \in {"incoming", "top"}
        /\ UNCHANGED <<connVars, snVars, skip, tick, quitting, callVars, out, asked, inputs>>
    BY <1>9 DEF ReceiveNone
  <2>2. OutType' /\ at' \in Places
    BY <1>0, <2>1 DEF OutType, Places
  <2>3. queue_index' \in Seq(Nat)
    BY <1>0, <1>9, SeqHeadTail DEF ReceiveNone, LoopTypes
  <2>4. LoopTypes'
    BY <1>0, <2>1, <2>3 DEF LoopTypes
  <2> QED
    BY <2>1, <2>2, <2>4, TypeFrame, TypeGroups
<1>10. CASE LoopTop
  <2>1. /\ at = "top" /\ at' \in {"control", "stopped"} /\ skip' = FALSE /\ stale' = (stale /\ skip)
        /\ UNCHANGED <<connections, peers>> \/ (connections' = <<>> /\ peers' = {})
        /\ UNCHANGED <<conn_index_to_id, incoming_conn_index, pending_connects, snVars, queue_index,
                       tick, quitting, callVars, out, asked, inputs>>
    BY <1>10 DEF LoopTop
  <2>2. OutType' /\ at' \in Places
    BY <1>0, <2>1 DEF OutType, Places
  <2>3. stale' \in BOOLEAN /\ skip' \in BOOLEAN
    BY <2>1
  <2>4. connections' \in Seq(Socket) /\ peers' \subseteq Peer
    <3>1. <<>> \in Seq(Socket)
      OBVIOUS
    <3> QED
      BY <1>0, <2>1, <3>1 DEF ConnTypes
  <2>5. ConnTypes' /\ LoopTypes'
    BY <1>0, <2>1, <2>3, <2>4 DEF ConnTypes, LoopTypes
  <2> QED
    BY <2>1, <2>2, <2>5, TypeFrame, TypeGroups
<1> QED
  BY <1>1, <1>2, <1>3, <1>4, <1>5, <1>6, <1>7, <1>8, <1>9, <1>10 DEF Proxy

\* Every step keeps the types.
LEMMA TypeStep ==
  ASSUME TypeOK, IndicesAgree, [Next]_vars
  PROVE  TypeOK'
<1>0. /\ ConnTypes /\ LoopTypes /\ CallTypes
  BY TypeGroups
<1>1. CASE UNCHANGED vars \/ Halted
  BY <1>1, TypeFrame, TypeGroups DEF vars, Halted
<1>2. CASE Tick
  <2>1. LoopTypes'
    BY <1>0, <1>2 DEF LoopTypes, Tick
  <2> QED
    BY <1>2, <2>1, TypeFrame, TypeGroups DEF Tick
<1>3. ASSUME NEW p \in peers, PeerIdle(p) PROVE TypeOK'
  <2>1. ConnTypes'
    BY <1>3, TouchedType DEF PeerIdle
  <2> QED
    BY <1>3, <2>1, TypeFrame, TypeGroups DEF PeerIdle
<1>4. ASSUME NEW id \in RemoteId, ConnectDue(id) PROVE TypeOK'
  <2>1. PICK c \in pending_connects :
          pending_connects' = (pending_connects \ {c}) \cup {[c EXCEPT !.due = TRUE]}
    BY <1>4 DEF ConnectDue
  <2>2. c \in PendingConnect
    BY <1>0 DEF ConnTypes
  <2>3. [c EXCEPT !.due = TRUE] \in PendingConnect
    BY <2>2 DEF PendingConnect
  <2>4. ConnTypes'
    BY <1>0, <1>4, <2>1, <2>3 DEF ConnTypes, ConnectDue
  <2> QED
    BY <1>4, <2>4, TypeFrame, TypeGroups DEF ConnectDue
<1>5. ASSUME NEW tag \in Tag, RequestDue(tag) PROVE TypeOK'
  <2>1. PICK r \in pending_requests :
          pending_requests' = (pending_requests \ {r}) \cup {[r EXCEPT !.due = TRUE]}
    BY <1>5 DEF RequestDue
  <2>2. [r EXCEPT !.due = TRUE] \in [tag : Tag, due : BOOLEAN]
    BY <1>0 DEF CallTypes
  <2>3. CallTypes'
    BY <1>0, <1>5, <2>1, <2>2 DEF CallTypes, RequestDue
  <2> QED
    BY <1>5, <2>3, TypeFrame, TypeGroups DEF RequestDue
<1> QED
  BY <1>1, <1>2, <1>3, <1>4, <1>5, CallersType, IncomingType, ProxyType DEF Next, Elapse

-----------------------------------------------------------------------------
(* The four things a step can do to the connections.                       *)

\* One entry's idle flag changes, entries of clients go, or a client comes.
PeersKept ==
  \/ UNCHANGED peers
  \/ \E p \in peers, b \in BOOLEAN :
       outgoing(p) /\ peers' = (peers \ {p}) \cup {[p EXCEPT !.idle = b]}
  \/ \E gone \in SUBSET {p \in peers : ~outgoing(p)} : peers' = peers \ gone
  \/ \E i \in DOMAIN connections, pk \in active_service_nodes, route \in Route :
       /\ connections[i].type = "router" /\ pk \in SN
       /\ peers' = peers \cup {[id |-> pk, conn_index |-> i, route |-> route, idle |-> FALSE]}

ConnectsKept ==
  \/ UNCHANGED pending_connects
  \/ \E c \in pending_connects :
       \/ pending_connects' = pending_connects \ {c}
       \/ pending_connects' = (pending_connects \ {c}) \cup {[c EXCEPT !.due = TRUE]}

Keeps ==
  /\ UNCHANGED <<connections, conn_index_to_id, incoming_conn_index>>
  /\ PeersKept /\ ConnectsKept
  /\ at' = "stopped" <=> at = "stopped"

Opens(id) ==
  /\ at # "stopped"
  /\ \A p \in peers : outgoing(p) => p.id # id
  /\ \/ id \in SN /\ Open(id, pending_connects)
     \/ /\ id \in RemoteId \ asked /\ id \in asked'
        /\ Open(id, pending_connects \cup
                      {[id |-> id, conn_index |-> Len(connections) + 1, due |-> FALSE]})

Closes(k) == at # "stopped" /\ proxy_close_connection(k, peers, pending_connects)

ConnStep ==
  /\ asked \subseteq asked'
  /\ Keeps \/ (\E id \in SN \cup RemoteId : Opens(id)) \/ (\E k \in DOMAIN connections : Closes(k))
           \/ (at' = "stopped" /\ UNCHANGED pending_connects)

\* What is left behind has the index of the connection that is closed, and goes
\* with it anyway.
LEMMA UpdateWithout ==
  ASSUME NEW S, NEW r
  PROVE  UpdateIndices(S \ {r}, r.conn_index) = UpdateIndices(S, r.conn_index)
BY DEF UpdateIndices

\* A usable entry that is used.
LEMMA ActivityKeeps ==
  ASSUME NEW p \in peers, activity(p)
  PROVE  PeersKept
BY DEF activity, PeersKept

\* A service node without a usable entry has no outgoing one, unless the options
\* ask for an incoming one.
LEMMA NoneOutgoing ==
  ASSUME NEW pk \in SN, NEW o, ConnectNew(pk, o), at # "stopped"
  PROVE  Opens(pk)
<1>1. ASSUME NEW p \in peers, outgoing(p), p.id = pk PROVE FALSE
  <2>1. p \in Usable(pk, o)
    BY <1>1 DEF Usable, PeersOf, ConnectNew
  <2> QED
    BY <2>1 DEF ConnectNew
<1> QED
  BY <1>1 DEF Opens, ConnectNew

\* What callers ask for.
LEMMA CallersEffect ==
  ASSUME TypeOK, IndicesAgree, Owners, Callers
  PROVE  ConnStep
<1>0. at = "control"
  BY DEF Callers, Control, proxy_connect_remote, proxy_connect_sn, proxy_disconnect, proxy_reply,
    proxy_set_active_sns, proxy_update_active_sns, SEND, QUIT
<1>1. ASSUME NEW id \in RemoteId, proxy_connect_remote(id) PROVE ConnStep
  <2>1. id \notin asked /\ asked' = asked \cup {id} /\ at' = at
    BY <1>1 DEF proxy_connect_remote
  <2>2. \A p \in peers : p.id # id
    BY <1>0, <2>1 DEF Owners
  <2>3. CASE UNCHANGED connVars
    BY <1>0, <2>1, <2>3 DEF ConnStep, Keeps, PeersKept, ConnectsKept
  <2>4. CASE Open(id, pending_connects \cup
                      {[id |-> id, conn_index |-> Len(connections) + 1, due |-> FALSE]})
    <3>1. Opens(id)
      BY <1>0, <2>1, <2>2, <2>4 DEF Opens
    <3> QED
      BY <2>1, <3>1 DEF ConnStep
  <2> QED
    BY <1>1, <2>3, <2>4 DEF proxy_connect_remote
<1>2. ASSUME NEW pk \in SN, proxy_connect_sn(pk) PROVE ConnStep
  <2>1. UNCHANGED <<at, asked>>
    BY <1>2 DEF proxy_connect_sn
  <2>2. CASE UNCHANGED connVars
    BY <1>0, <2>1, <2>2 DEF ConnStep, Keeps, PeersKept, ConnectsKept
  <2>3. ASSUME NEW o, ConnectNew(pk, o) PROVE ConnStep
    <3>1. Opens(pk)
      BY <1>0, <2>3, NoneOutgoing
    <3> QED
      BY <2>1, <3>1 DEF ConnStep
  <2>4. CASE /\ \E p \in peers : activity(p)
             /\ UNCHANGED <<connections, conn_index_to_id, incoming_conn_index, pending_connects, stale>>
    BY <1>0, <2>1, <2>4, ActivityKeeps DEF ConnStep, Keeps, ConnectsKept
  <2> QED
    BY <1>2, <2>2, <2>3, <2>4 DEF proxy_connect_sn, Usable, PeersOf
<1>3. ASSUME NEW id \in ConnectionID, proxy_disconnect(id) PROVE ConnStep
  <2>1. UNCHANGED <<at, asked>>
    BY <1>3 DEF proxy_disconnect
  <2>2. CASE UNCHANGED connVars
    BY <1>0, <2>1, <2>2 DEF ConnStep, Keeps, PeersKept, ConnectsKept
  <2>3. ASSUME NEW p \in peers, proxy_close_connection(p.conn_index, peers, pending_connects)
        PROVE  ConnStep
    <3>1. p.conn_index \in DOMAIN connections
      BY <1>0 DEF IndicesAgree
    <3> QED
      BY <1>0, <2>1, <2>3, <3>1 DEF ConnStep, Closes
  <2> QED
    BY <1>3, <2>2, <2>3 DEF proxy_disconnect, PeersOf
<1>4. ASSUME NEW id \in ConnectionID, proxy_reply(id) PROVE ConnStep
  <2>1. PICK gone \in SUBSET {p \in peers : ~outgoing(p)} : peers' = peers \ gone
    BY <1>4 DEF proxy_reply, PeersOf
  <2>2. PeersKept
    BY <2>1 DEF PeersKept
  <2> QED
    BY <1>0, <1>4, <2>2 DEF proxy_reply, ConnStep, Keeps, ConnectsKept
<1>5. CASE \/ \E keys \in SUBSET (SN \cup Junk) : proxy_set_active_sns(keys)
           \/ \E added, removed \in SUBSET (SN \cup Junk) : proxy_update_active_sns(added, removed)
           \/ QUIT
  <2>1. UNCHANGED connVars /\ asked' = asked /\ at' \in {"control", "remove"}
    BY <1>0, <1>5 DEF proxy_set_active_sns, proxy_update_active_sns, proxy_update_active_sns_clean, QUIT
  <2> QED
    BY <1>0, <2>1 DEF ConnStep, Keeps, PeersKept, ConnectsKept
<1>6. CASE \E to \in ConnectionID, route \in Route \cup {NoRoute}, o \in SendOptions,
              tag \in Tag \cup {NoTag} : SEND(to, route, o, tag)
  <2>1. UNCHANGED connVars /\ asked \subseteq asked' /\ at' = "send"
    BY <1>6 DEF SEND
  <2> QED
    BY <1>0, <2>1 DEF ConnStep, Keeps, PeersKept, ConnectsKept
<1> QED
  BY <1>1, <1>2, <1>3, <1>4, <1>5, <1>6 DEF Callers

\* Messages of remotes.
LEMMA IncomingEffect ==
  ASSUME TypeOK, Incoming
  PROVE  ConnStep
<1>1. PICK i \in DOMAIN connections :
        \/ \E tag \in Tag, result \in {"reply", "error"} : REPLY(i, tag, result)
        \/ HELLO(i) \/ BYE(i) \/ CommandOnOutgoing(i) \/ OtherMessage(i)
        \/ \E pk \in SN, route \in Route : CommandFromSN(i, pk, route)
  BY DEF Incoming
<1>2. Receive(i) /\ Served(i)
  BY <1>1 DEF REPLY, HELLO, BYE, CommandOnOutgoing, OtherMessage, CommandFromSN
<1>3. at = "incoming" /\ at' \in {"incoming", "top"} /\ asked' = asked
  BY <1>2 DEF Receive, Served
<1>4. CASE UNCHANGED connVars
  BY <1>3, <1>4 DEF ConnStep, Keeps, PeersKept, ConnectsKept
<1>5. CASE HELLO(i)
  <2>1. ConnectsKept
    BY <1>5 DEF HELLO, Established, ConnectsKept
  <2> QED
    BY <1>3, <1>5, <2>1 DEF HELLO, ConnStep, Keeps, PeersKept
<1>6. CASE BYE(i)
  BY <1>3, <1>6 DEF BYE, ConnStep, Closes
<1>7. CASE CommandOnOutgoing(i)
  <2>1. PeersKept
    BY <1>7, ActivityKeeps DEF CommandOnOutgoing, PeersOf, PeersKept
  <2> QED
    BY <1>3, <1>7, <2>1 DEF CommandOnOutgoing, ConnStep, Keeps, ConnectsKept
<1>8. CASE \E pk \in SN, route \in Route : CommandFromSN(i, pk, route)
  <2>1. PeersKept
    BY <1>8 DEF CommandFromSN, PeersKept
  <2> QED
    BY <1>3, <1>8, <2>1 DEF CommandFromSN, ConnStep, Keeps, ConnectsKept
<1> QED
  BY <1>1, <1>4, <1>5, <1>6, <1>7, <1>8 DEF REPLY, OtherMessage

\* What the proxy thread does by itself, and time.
LEMMA ProxyEffect ==
  ASSUME TypeOK, IndicesAgree, Proxy \/ Elapse
  PROVE  ConnStep
<1>0. asked' = asked
  BY DEF Proxy, Elapse, RemovePeer, SendToSN, SendUnreachable, RemoveDone, SendConnecting, SendNowhere,
    SendToRemote, Sending, OwnBatch, ControlDone, proxy_expire_idle_peers, ExpireConnects,
    ExpireRequests, ReceiveNone, LoopTop, Tick, PeerIdle, ConnectDue, RequestDue
<1>1. ASSUME UNCHANGED connVars, at' = "stopped" <=> at = "stopped" PROVE ConnStep
  BY <1>0, <1>1 DEF ConnStep, Keeps, PeersKept, ConnectsKept
<1>2. ASSUME NEW p \in peers, RemovePeer(p) PROVE ConnStep
  <2>1. at = "remove" /\ at' = at
    BY <1>2 DEF RemovePeer
  <2>2. CASE outgoing(p)
    <3>1. proxy_close_connection(p.conn_index, peers \ {p}, pending_connects)
      BY <1>2, <2>2 DEF RemovePeer
    <3>2. proxy_close_connection(p.conn_index, peers, pending_connects)
      BY <3>1, UpdateWithout DEF proxy_close_connection
    <3>3. p.conn_index \in DOMAIN connections
      BY <2>1 DEF IndicesAgree
    <3> QED
      BY <1>0, <2>1, <3>2, <3>3 DEF ConnStep, Closes
  <2>3. CASE ~outgoing(p)
    <3>1. {p} \in SUBSET {r \in peers : ~outgoing(r)} /\ peers' = peers \ {p}
      BY <1>2, <2>3 DEF RemovePeer
    <3>2. PeersKept
      BY <3>1 DEF PeersKept
    <3> QED
      BY <1>0, <1>2, <2>1, <2>3, <3>2 DEF RemovePeer, ConnStep, Keeps, ConnectsKept
  <2> QED
    BY <2>2, <2>3
<1>3. ASSUME NEW p \in peers, SendToSN(p) PROVE ConnStep
  <2>1. at = "send" /\ at' = "control"
    BY <1>3 DEF SendToSN, Sending, SendDone
  <2>2. PeersKept
    BY <1>3, ActivityKeeps DEF SendToSN
  <2> QED
    BY <1>0, <1>3, <2>1, <2>2 DEF SendToSN, ConnStep, Keeps, ConnectsKept
<1>4. ASSUME NEW p \in peers, NEW first \in peers, SendUnreachable(p, first) PROVE ConnStep
  <2>1. at = "send" /\ at' \in {"send", "hung"} /\ ~outgoing(p)
    BY <1>4 DEF SendUnreachable, Sending
  <2>2. CASE first.route = p.route
    <3>1. {first} \in SUBSET {r \in peers : ~outgoing(r)} /\ peers' = peers \ {first}
      BY <1>4, <2>1, <2>2 DEF SendUnreachable, outgoing
    <3>2. PeersKept
      BY <3>1 DEF PeersKept
    <3> QED
      BY <1>0, <1>4, <2>1, <3>2 DEF SendUnreachable, ConnStep, Keeps, ConnectsKept
  <2>3. CASE first.route # p.route
    BY <1>1, <1>4, <2>1, <2>3 DEF SendUnreachable
  <2> QED
    BY <2>2, <2>3
<1>5. CASE SendConnecting
  <2>1. at = "send" /\ out.to \in SN /\ ConnectNew(out.to, out.o)
    BY <1>5 DEF SendConnecting, Sending
  <2>2. Opens(out.to)
    BY <2>1, NoneOutgoing
  <2> QED
    BY <1>0, <2>1, <2>2 DEF ConnStep
<1>6. CASE \/ SendNowhere \/ SendToRemote \/ RemoveDone \/ OwnBatch \/ ControlDone \/ ExpireRequests
           \/ ReceiveNone \/ Tick \/ \E tag \in Tag : RequestDue(tag)
  <2>1. UNCHANGED connVars /\ (at' = "stopped" <=> at = "stopped")
    BY <1>6 DEF SendNowhere, SendToRemote, Sending, SendDone, RemoveDone, OwnBatch, ControlDone,
      ExpireRequests, ReceiveNone, Tick, RequestDue
  <2> QED
    BY <1>1, <2>1
<1>7. CASE proxy_expire_idle_peers
  <2>1. at = "expire" /\ at' \in {"expire", "connects"}
    BY <1>7 DEF proxy_expire_idle_peers
  <2>2. CASE UNCHANGED connVars
    BY <1>1, <2>1, <2>2
  <2>3. CASE \E p \in peers : proxy_close_connection(p.conn_index, peers, pending_connects)
    BY <1>0, <2>1, <2>3 DEF IndicesAgree, ConnStep, Closes
  <2> QED
    BY <1>7, <2>2, <2>3 DEF proxy_expire_idle_peers
<1>8. CASE ExpireConnects
  <2>1. at = "connects" /\ at' \in {"connects", "requests"}
    BY <1>8 DEF ExpireConnects
  <2>2. CASE UNCHANGED connVars
    BY <1>1, <2>1, <2>2
  <2>3. ASSUME NEW c \in pending_connects,
               proxy_close_connection(c.conn_index, peers, pending_connects \ {c})
        PROVE  ConnStep
    <3>1. proxy_close_connection(c.conn_index, peers, pending_connects)
      BY <2>3, UpdateWithout DEF proxy_close_connection
    <3>2. c.conn_index \in DOMAIN connections
      BY <2>1 DEF IndicesAgree
    <3> QED
      BY <1>0, <2>1, <3>1, <3>2 DEF ConnStep, Closes
  <2> QED
    BY <1>8, <2>2, <2>3 DEF ExpireConnects
<1>9. CASE LoopTop
  <2>1. CASE at' = "stopped"
    BY <1>0, <1>9, <2>1 DEF ConnStep, LoopTop
  <2>2. CASE at' # "stopped"
    <3>1. /\ at = "top"
          /\ UNCHANGED <<connections, peers, conn_index_to_id, incoming_conn_index, pending_connects>>
      BY <1>9, <2>2 DEF LoopTop
    <3> QED
      BY <1>0, <2>2, <3>1 DEF ConnStep, Keeps, PeersKept, ConnectsKept
  <2> QED
    BY <2>1, <2>2
<1>10. ASSUME NEW p \in peers, PeerIdle(p) PROVE ConnStep
  <2>1. PeersKept
    BY <1>10 DEF PeerIdle, PeersKept
  <2> QED
    BY <1>0, <1>10, <2>1 DEF PeerIdle, ConnStep, Keeps, ConnectsKept
<1>11. ASSUME NEW id \in RemoteId, ConnectDue(id) PROVE ConnStep
  <2>1. ConnectsKept
    BY <1>11 DEF ConnectDue, ConnectsKept
  <2> QED
    BY <1>0, <1>11, <2>1 DEF ConnectDue, ConnStep, Keeps, PeersKept
<1> QED
  BY <1>2, <1>3, <1>4, <1>5, <1>6, <1>7, <1>8, <1>9, <1>10, <1>11 DEF Proxy, Elapse

\* Every step does one of the four.
LEMMA ConnEffect ==
  ASSUME TypeOK, IndicesAgree, Owners, [Next]_vars
  PROVE  ConnStep
<1>1. CASE UNCHANGED vars \/ Halted
  BY <1>1 DEF vars, Halted, ConnStep, Keeps, PeersKept, ConnectsKept
<1> QED
  BY <1>1, CallersEffect, IncomingEffect, ProxyEffect DEF Next

-----------------------------------------------------------------------------
(* Every index leads to its socket.                                        *)

\* Where the sockets are after a close.
LEMMA ClosedSockets ==
  ASSUME TypeOK, NEW k \in DOMAIN connections, connections' = Erased(connections, k)
  PROVE  /\ Len(connections') = Len(connections) - 1
         /\ \A i \in DOMAIN connections \ {k} : /\ Shifted(i, k) \in DOMAIN connections'
                                                /\ connections'[Shifted(i, k)] = connections[i]
         /\ \A j \in DOMAIN connections' : \E i \in DOMAIN connections \ {k} : j = Shifted(i, k)
<1>1. connections \in Seq(Socket) /\ Len(connections) \in Nat /\ DOMAIN connections = 1 .. Len(connections)
  BY SeqLen DEF TypeOK
<1>2. /\ Len(connections') = Len(connections) - 1
      /\ \A j \in 1 .. Len(connections) - 1 :
           connections'[j] = connections[IF j < k THEN j ELSE j + 1]
  BY <1>1, ErasedAt, Zenon
<1>3. DOMAIN connections' = 1 .. Len(connections) - 1
  <2>1. connections' \in Seq(Socket)
    BY <1>1, ErasedAt, Zenon
  <2> QED
    BY <1>2, <2>1, SeqLen
<1>4. ASSUME NEW i \in DOMAIN connections \ {k}
      PROVE  Shifted(i, k) \in DOMAIN connections' /\ connections'[Shifted(i, k)] = connections[i]
  <2>1. Shifted(i, k) \in 1 .. Len(connections) - 1
    BY <1>1 DEF Shifted
  <2>2. (IF Shifted(i, k) < k THEN Shifted(i, k) ELSE Shifted(i, k) + 1) = i
    BY <1>1 DEF Shifted
  <2> QED
    BY <1>2, <1>3, <2>1, <2>2, Zenon
<1>5. ASSUME NEW j \in DOMAIN connections'
      PROVE  \E i \in DOMAIN connections \ {k} : j = Shifted(i, k)
  <2>1. CASE j < k
    BY <1>1, <1>3, <2>1 DEF Shifted
  <2>2. CASE ~(j < k)
    <3>1. j + 1 \in DOMAIN connections \ {k} /\ Shifted(j + 1, k) = j
      BY <1>1, <1>3, <2>2 DEF Shifted
    <3> QED
      BY <3>1
  <2> QED
    BY <2>1, <2>2
<1> QED
  BY <1>2, <1>4, <1>5

\* What is left after a close, at its new place.
LEMMA Left ==
  ASSUME NEW S, NEW k, NEW q \in UpdateIndices(S, k)
  PROVE  \E r \in S : r.conn_index # k /\ q = [r EXCEPT !.conn_index = Shifted(r.conn_index, k)]
BY DEF UpdateIndices

\* What has another index stays, moved.
LEMMA Remains ==
  ASSUME NEW S, NEW k, NEW r \in S, r.conn_index # k
  PROVE  [r EXCEPT !.conn_index = Shifted(r.conn_index, k)] \in UpdateIndices(S, k)
BY DEF UpdateIndices

\* The fields of an entry that was moved.
LEMMA LeftPeer ==
  ASSUME NEW r \in Peer, NEW j \in Nat, NEW q, q = [r EXCEPT !.conn_index = j]
  PROVE  /\ q \in Peer /\ q.conn_index = j /\ q.id = r.id /\ q.route = r.route
         /\ outgoing(q) <=> outgoing(r)
BY DEF Peer, outgoing

\* What IndicesAgree says of one entry of each kind, in any vector of sockets.
PeerAt(conns, p) ==
  /\ p.conn_index \in DOMAIN conns
  /\ IF outgoing(p) THEN conns[p.conn_index] = [type |-> "dealer", id |-> p.id]
     ELSE conns[p.conn_index].type = "router"

PlaceAt(conns, type, c) == c.conn_index \in DOMAIN conns /\ conns[c.conn_index] = [type |-> type, id |-> c.id]

AllAt(conns, ids, ps, pcs, lis) ==
  /\ Len(ids) = Len(conns)
  /\ \A i \in DOMAIN conns : ids[i] = conns[i].id
  /\ \A p \in ps : PeerAt(conns, p)
  /\ \A c \in pcs : PlaceAt(conns, "dealer", c)
  /\ \A l \in lis : PlaceAt(conns, "router", l)

\* IndicesAgree, entry by entry.
LEMMA AgreeIs ==
  /\ IndicesAgree <=> (at # "stopped" => AllAt(connections, conn_index_to_id, peers, pending_connects,
                                               incoming_conn_index))
  /\ IndicesAgree' <=> (at' # "stopped" => AllAt(connections', conn_index_to_id', peers', pending_connects',
                                                incoming_conn_index'))
BY DEF IndicesAgree, AllAt, PeerAt, PlaceAt, outgoing

\* An entry that stays, after a close.
LEMMA PeerMoves ==
  ASSUME TypeOK, NEW k \in DOMAIN connections, connections' = Erased(connections, k),
         \A p \in peers : PeerAt(connections, p), NEW q \in UpdateIndices(peers, k)
  PROVE  PeerAt(connections', q)
<1>1. PICK r \in peers : r.conn_index # k /\ q = [r EXCEPT !.conn_index = Shifted(r.conn_index, k)]
  BY Left
<1>2. r.conn_index \in DOMAIN connections \ {k}
  BY <1>1 DEF PeerAt
<1>3. /\ Shifted(r.conn_index, k) \in DOMAIN connections'
      /\ connections'[Shifted(r.conn_index, k)] = connections[r.conn_index]
  BY <1>2, ClosedSockets
<1>4. r \in Peer /\ Shifted(r.conn_index, k) \in Nat
  <2>1. r \in Peer /\ r.conn_index \in Nat
    BY DEF TypeOK, Peer
  <2>2. k \in Nat
    BY SeqLen DEF TypeOK
  <2> QED
    BY <2>1, <2>2, ShiftedType
<1>5. /\ q.conn_index = Shifted(r.conn_index, k) /\ q.id = r.id
      /\ outgoing(q) <=> outgoing(r)
  BY <1>1, <1>4, LeftPeer
<1> QED
  BY <1>3, <1>5 DEF PeerAt

\* A pending connect or a listener that stays, after a close.
LEMMA PlaceMoves ==
  ASSUME TypeOK, NEW k \in DOMAIN connections, connections' = Erased(connections, k),
         NEW S, \/ S \subseteq PendingConnect
                \/ S \subseteq [id : ListenerId, conn_index : Nat],
         NEW type, \A c \in S : PlaceAt(connections, type, c), NEW q \in UpdateIndices(S, k)
  PROVE  PlaceAt(connections', type, q)
<1>1. PICK r \in S : r.conn_index # k /\ q = [r EXCEPT !.conn_index = Shifted(r.conn_index, k)]
  BY Left
<1>2. r.conn_index \in DOMAIN connections \ {k}
  BY <1>1 DEF PlaceAt
<1>3. /\ Shifted(r.conn_index, k) \in DOMAIN connections'
      /\ connections'[Shifted(r.conn_index, k)] = connections[r.conn_index]
  BY <1>2, ClosedSockets
<1>4. q.conn_index = Shifted(r.conn_index, k) /\ q.id = r.id
  BY <1>1 DEF PendingConnect
<1> QED
  BY <1>3, <1>4 DEF PlaceAt

\* A close keeps every index in place.
LEMMA CloseAgrees ==
  ASSUME TypeOK, NEW k \in DOMAIN connections, proxy_close_connection(k, peers, pending_connects),
         AllAt(connections, conn_index_to_id, peers, pending_connects, incoming_conn_index)
  PROVE  AllAt(connections', conn_index_to_id', peers', pending_connects', incoming_conn_index')
<1>1. /\ connections' = Erased(connections, k) /\ conn_index_to_id' = Erased(conn_index_to_id, k)
      /\ peers' = UpdateIndices(peers, k) /\ pending_connects' = UpdateIndices(pending_connects, k)
      /\ incoming_conn_index' = UpdateIndices(incoming_conn_index, k)
  BY DEF proxy_close_connection
<1>2. /\ connections \in Seq(Socket) /\ Len(connections) \in Nat
      /\ DOMAIN connections = 1 .. Len(connections)
      /\ conn_index_to_id \in Seq(ConnectionID) /\ k \in 1 .. Len(conn_index_to_id)
      /\ Len(conn_index_to_id) = Len(connections)
  BY SeqLen DEF TypeOK, AllAt
<1>3. Len(conn_index_to_id') = Len(connections') /\ \A i \in DOMAIN connections' : conn_index_to_id'[i] = connections'[i].id
  <2>1. /\ connections' \in Seq(Socket) /\ Len(connections') = Len(connections) - 1
        /\ \A j \in 1 .. Len(connections) - 1 :
             connections'[j] = connections[IF j < k THEN j ELSE j + 1]
    BY <1>1, <1>2, ErasedAt, Zenon
  <2>2. /\ Len(conn_index_to_id') = Len(conn_index_to_id) - 1
        /\ \A j \in 1 .. Len(conn_index_to_id) - 1 :
             conn_index_to_id'[j] = conn_index_to_id[IF j < k THEN j ELSE j + 1]
    BY <1>1, <1>2, ErasedAt, Zenon
  <2>3. DOMAIN connections' = 1 .. Len(connections) - 1
    BY <2>1, SeqLen
  <2>4. ASSUME NEW j \in 1 .. Len(connections) - 1
        PROVE  conn_index_to_id'[j] = connections'[j].id
    <3> DEFINE m == IF j < k THEN j ELSE j + 1
    <3>1. m \in DOMAIN connections
      BY <1>2
    <3>2. conn_index_to_id'[j] = conn_index_to_id[m] /\ connections'[j] = connections[m]
      BY <1>2, <2>1, <2>2, Zenon
    <3> QED
      BY <3>1, <3>2, Zenon DEF AllAt
  <2> QED
    BY <1>2, <2>1, <2>2, <2>3, <2>4
<1>4. \A p \in peers' : PeerAt(connections', p)
  BY <1>1, PeerMoves DEF AllAt
<1>5. \A c \in pending_connects' : PlaceAt(connections', "dealer", c)
  <2>1. pending_connects \subseteq PendingConnect
    BY DEF TypeOK, PendingConnect
  <2>2. \A c \in pending_connects : PlaceAt(connections, "dealer", c)
    BY DEF AllAt
  <2> QED
    BY <1>1, <2>1, <2>2, PlaceMoves
<1>6. \A l \in incoming_conn_index' : PlaceAt(connections', "router", l)
  <2>1. incoming_conn_index \subseteq [id : ListenerId, conn_index : Nat]
    BY DEF TypeOK
  <2>2. \A c \in incoming_conn_index : PlaceAt(connections, "router", c)
    BY DEF AllAt
  <2> QED
    BY <1>1, <2>1, <2>2, PlaceMoves
<1> QED
  BY <1>3, <1>4, <1>5, <1>6 DEF AllAt

\* A new socket is the last one, and the others stay where they are.
LEMMA OpenedSockets ==
  ASSUME TypeOK, NEW id \in ConnectionID,
         connections' = Append(connections, [type |-> "dealer", id |-> id])
  PROVE  /\ Len(connections') = Len(connections) + 1
         /\ Len(connections) \in Nat /\ DOMAIN connections = 1 .. Len(connections)
         /\ DOMAIN connections' = 1 .. Len(connections) + 1
         /\ \A i \in DOMAIN connections : connections'[i] = connections[i]
         /\ connections'[Len(connections) + 1] = [type |-> "dealer", id |-> id]
<1>1. connections \in Seq(Socket) /\ [type |-> "dealer", id |-> id] \in Socket
  BY DEF TypeOK, Socket
<1>2. Len(connections) \in Nat /\ DOMAIN connections = 1 .. Len(connections)
  BY <1>1, SeqLen
<1>3. /\ connections' \in Seq(Socket) /\ Len(connections') = Len(connections) + 1
      /\ \A i \in 1 .. Len(connections) : connections'[i] = connections[i]
      /\ connections'[Len(connections) + 1] = [type |-> "dealer", id |-> id]
  <2>1. PICK e \in Socket : e = [type |-> "dealer", id |-> id]
    BY <1>1
  <2>2. PICK t : t = Append(connections, e)
    OBVIOUS
  <2>3. /\ t \in Seq(Socket) /\ Len(t) = Len(connections) + 1
        /\ \A i \in 1 .. Len(connections) : t[i] = connections[i]
        /\ t[Len(connections) + 1] = e
    BY <1>1, <2>2, SeqAppend
  <2>4. connections' = t
    BY <2>1, <2>2, Zenon
  <2> QED
    BY <2>1, <2>3, <2>4, Zenon
<1>4. DOMAIN connections' = 1 .. Len(connections')
  BY <1>3, SeqLen
<1> QED
  BY <1>2, <1>3, <1>4

\* A new connection, with or without its pending connect, disturbs no index.
LEMMA OpenAgrees ==
  ASSUME TypeOK, NEW id \in ConnectionID, NEW pcs, Open(id, pcs),
         \A c \in pcs : \/ c \in pending_connects
                        \/ c = [id |-> id, conn_index |-> Len(connections) + 1, due |-> FALSE],
         AllAt(connections, conn_index_to_id, peers, pending_connects, incoming_conn_index)
  PROVE  AllAt(connections', conn_index_to_id', peers', pending_connects', incoming_conn_index')
<1> DEFINE new == [id |-> id, conn_index |-> Len(connections) + 1, route |-> NoRoute, idle |-> FALSE]
           n == Len(connections)
<1>1. /\ connections' = Append(connections, [type |-> "dealer", id |-> id])
      /\ conn_index_to_id' = Append(conn_index_to_id, id)
      /\ peers' = peers \cup {new} /\ pending_connects' = pcs /\ incoming_conn_index' = incoming_conn_index
  BY DEF Open
<1>2. /\ Len(connections') = n + 1 /\ n \in Nat /\ DOMAIN connections = 1 .. n
      /\ DOMAIN connections' = 1 .. n + 1
      /\ \A i \in DOMAIN connections : connections'[i] = connections[i]
      /\ connections'[n + 1] = [type |-> "dealer", id |-> id]
  BY <1>1, OpenedSockets
<1>3. Len(conn_index_to_id') = Len(connections')
      /\ \A i \in DOMAIN connections' : conn_index_to_id'[i] = connections'[i].id
  <2>1. /\ Len(conn_index_to_id') = Len(conn_index_to_id) + 1
        /\ \A i \in 1 .. Len(conn_index_to_id) : conn_index_to_id'[i] = conn_index_to_id[i]
        /\ conn_index_to_id'[Len(conn_index_to_id) + 1] = id
    <3>1. conn_index_to_id \in Seq(ConnectionID)
      BY DEF TypeOK
    <3>2. PICK t : t = Append(conn_index_to_id, id)
      OBVIOUS
    <3>3. /\ Len(t) = Len(conn_index_to_id) + 1
          /\ \A i \in 1 .. Len(conn_index_to_id) : t[i] = conn_index_to_id[i]
          /\ t[Len(conn_index_to_id) + 1] = id
      BY <3>1, <3>2, SeqAppend
    <3>4. conn_index_to_id' = t
      BY <1>1, <3>2, Zenon
    <3> QED
      BY <3>3, <3>4, Zenon
  <2>2. Len(conn_index_to_id) = n /\ \A i \in DOMAIN connections : conn_index_to_id[i] = connections[i].id
    BY DEF AllAt
  <2>3. conn_index_to_id'[n + 1] = connections'[n + 1].id
    BY <1>2, <2>1, <2>2
  <2>4. \A i \in 1 .. n : conn_index_to_id'[i] = connections'[i].id
    BY <1>2, <2>1, <2>2, Zenon
  <2>5. \A i \in 1 .. n + 1 : i \in 1 .. n \/ i = n + 1
    BY <1>2
  <2> QED
    BY <1>2, <2>1, <2>2, <2>3, <2>4, <2>5, Zenon
<1>4. \A i \in DOMAIN connections : i \in DOMAIN connections'
  BY <1>2
<1>5. n + 1 \in DOMAIN connections'
  BY <1>2
<1>6. ASSUME NEW p \in peers' PROVE PeerAt(connections', p)
  <2>1. CASE p \in peers
    BY <1>2, <1>4, <2>1, Zenon DEF AllAt, PeerAt
  <2>2. CASE p = new
    BY <1>2, <1>5, <2>2 DEF PeerAt, outgoing
  <2> QED
    BY <1>1, <2>1, <2>2
<1>7. ASSUME NEW c \in pending_connects' PROVE PlaceAt(connections', "dealer", c)
  <2>1. CASE c \in pending_connects
    BY <1>2, <1>4, <2>1, Zenon DEF AllAt, PlaceAt
  <2>2. CASE c = [id |-> id, conn_index |-> n + 1, due |-> FALSE]
    BY <1>2, <1>5, <2>2 DEF PlaceAt
  <2> QED
    BY <1>1, <2>1, <2>2
<1>8. ASSUME NEW l \in incoming_conn_index' PROVE PlaceAt(connections', "router", l)
  BY <1>1, <1>2, <1>4, Zenon DEF AllAt, PlaceAt
<1> QED
  BY <1>3, <1>6, <1>7, <1>8 DEF AllAt

\* An entry that is touched or new while the sockets stay.
LEMMA KeepsPeerAt ==
  ASSUME TypeOK, PeersKept, \A p \in peers : PeerAt(connections, p), NEW q \in peers'
  PROVE  PeerAt(connections, q)
<1>1. CASE q \in peers
  BY <1>1
<1>2. ASSUME NEW p \in peers, NEW b \in BOOLEAN, q = [p EXCEPT !.idle = b] PROVE PeerAt(connections, q)
  <2>1. p \in Peer
    BY DEF TypeOK
  <2>2. q.conn_index = p.conn_index /\ q.id = p.id /\ q.route = p.route
    BY <1>2, <2>1 DEF Peer
  <2> QED
    BY <2>2 DEF PeerAt, outgoing
<1>3. ASSUME NEW i \in DOMAIN connections, NEW pk, NEW route \in Route, connections[i].type = "router",
             q = [id |-> pk, conn_index |-> i, route |-> route, idle |-> FALSE]
      PROVE  PeerAt(connections, q)
  <2>1. q.route # NoRoute
    BY <1>3, ConnectionsAssumption
  <2> QED
    BY <1>3, <2>1 DEF PeerAt, outgoing
<1> QED
  BY <1>1, <1>2, <1>3 DEF PeersKept

\* A pending connect that is due, or one less, while the sockets stay.
LEMMA KeepsPlaceAt ==
  ASSUME TypeOK, ConnectsKept, \A c \in pending_connects : PlaceAt(connections, "dealer", c),
         NEW d \in pending_connects'
  PROVE  PlaceAt(connections, "dealer", d)
<1>1. CASE d \in pending_connects
  BY <1>1
<1>2. ASSUME NEW c \in pending_connects, d = [c EXCEPT !.due = TRUE] PROVE PlaceAt(connections, "dealer", d)
  <2>1. d.conn_index = c.conn_index /\ d.id = c.id
    BY <1>2 DEF TypeOK
  <2> QED
    BY <2>1 DEF PlaceAt
<1> QED
  BY <1>1, <1>2 DEF ConnectsKept

\* Every index leads to its socket after each of the four.
LEMMA IndicesStep ==
  ASSUME TypeOK, IndicesAgree, ConnStep
  PROVE  IndicesAgree'
<1> SUFFICES ASSUME at' # "stopped"
             PROVE  AllAt(connections', conn_index_to_id', peers', pending_connects', incoming_conn_index')
  BY AgreeIs
<1> DEFINE agree == AllAt(connections, conn_index_to_id, peers, pending_connects, incoming_conn_index)
<1>0. at # "stopped" => agree
  BY AgreeIs
<1>1. CASE Keeps
  <2>1. agree /\ UNCHANGED <<connections, conn_index_to_id, incoming_conn_index>>
    BY <1>0, <1>1 DEF Keeps
  <2>2. \A q \in peers' : PeerAt(connections, q)
    BY <1>1, <2>1, KeepsPeerAt DEF Keeps, AllAt
  <2>3. \A d \in pending_connects' : PlaceAt(connections, "dealer", d)
    BY <1>1, <2>1, KeepsPlaceAt DEF Keeps, AllAt
  <2> QED
    BY <2>1, <2>2, <2>3 DEF AllAt
<1>2. ASSUME NEW id \in SN \cup RemoteId, Opens(id)
      PROVE  AllAt(connections', conn_index_to_id', peers', pending_connects', incoming_conn_index')
  <2>1. agree /\ id \in ConnectionID
    BY <1>0, <1>2 DEF Opens, ConnectionID
  <2>2. PICK pcs : /\ Open(id, pcs)
                   /\ \A c \in pcs : \/ c \in pending_connects
                                     \/ c = [id |-> id, conn_index |-> Len(connections) + 1, due |-> FALSE]
    BY <1>2 DEF Opens
  <2> QED
    BY <2>1, <2>2, OpenAgrees
<1>3. ASSUME NEW k \in DOMAIN connections, Closes(k)
      PROVE  AllAt(connections', conn_index_to_id', peers', pending_connects', incoming_conn_index')
  BY <1>0, <1>3, CloseAgrees DEF Closes
<1> QED
  BY <1>1, <1>2, <1>3 DEF ConnStep

-----------------------------------------------------------------------------
(* Every outgoing socket has its owner.                                    *)

\* Where the outgoing entries of the next state come from while the sockets stay.
LEMMA KeptOwners ==
  ASSUME TypeOK, Owners, Keeps, at # "stopped"
  PROVE  /\ \A q \in peers' : q \in peers \/ (\E p \in peers : q.id = p.id) \/ q.id \in SN
         /\ \A p, r \in peers' : outgoing(p) /\ outgoing(r) /\ p.id = r.id => p = r
         /\ \A p \in peers : outgoing(p) =>
              \E q \in peers' : outgoing(q) /\ q.conn_index = p.conn_index
<1> DEFINE unique(S) == \A p, r \in S : outgoing(p) /\ outgoing(r) /\ p.id = r.id => p = r
<1>0. unique(peers)
  BY DEF Owners
<1>1. CASE peers' \subseteq peers /\ \A p \in peers : outgoing(p) => p \in peers'
  BY <1>0, <1>1
<1>2. ASSUME NEW p \in peers, NEW b \in BOOLEAN, outgoing(p),
             peers' = (peers \ {p}) \cup {[p EXCEPT !.idle = b]}
      PROVE  /\ \A q \in peers' : q \in peers \/ (\E r \in peers : q.id = r.id) \/ q.id \in SN
             /\ unique(peers')
             /\ \A r \in peers : outgoing(r) => \E q \in peers' : outgoing(q) /\ q.conn_index = r.conn_index
  <2>1. PICK t : t = [p EXCEPT !.idle = b]
    OBVIOUS
  <2>2. t.id = p.id /\ t.conn_index = p.conn_index /\ outgoing(t)
    BY <1>2, <2>1 DEF TypeOK, Peer, outgoing
  <2>3. peers' = (peers \ {p}) \cup {t}
    BY <1>2, <2>1
  <2>4. unique(peers')
    BY <1>0, <1>2, <2>2, <2>3
  <2> QED
    BY <2>2, <2>3, <2>4
<1>3. ASSUME NEW i \in DOMAIN connections, NEW pk \in SN, NEW route \in Route,
             peers' = peers \cup {[id |-> pk, conn_index |-> i, route |-> route, idle |-> FALSE]}
      PROVE  /\ \A q \in peers' : q \in peers \/ (\E r \in peers : q.id = r.id) \/ q.id \in SN
             /\ unique(peers')
             /\ \A r \in peers : outgoing(r) => \E q \in peers' : outgoing(q) /\ q.conn_index = r.conn_index
  <2>1. PICK t : t = [id |-> pk, conn_index |-> i, route |-> route, idle |-> FALSE]
    OBVIOUS
  <2>2. t.id = pk /\ ~outgoing(t)
    BY <2>1, ConnectionsAssumption DEF outgoing
  <2>3. peers' = peers \cup {t}
    BY <1>3, <2>1
  <2> QED
    BY <1>0, <2>2, <2>3
<1> QED
  BY <1>1, <1>2, <1>3 DEF Keeps, PeersKept

\* The socket of a connection that is closed has no owner left, and every other keeps its own.
LEMMA OwnersStep ==
  ASSUME TypeOK, IndicesAgree, Owners, ConnStep
  PROVE  Owners'
<1> SUFFICES ASSUME at' # "stopped"
             PROVE  /\ \A p, r \in peers' : outgoing(p) /\ outgoing(r) /\ p.id = r.id => p = r
                    /\ \A i \in DOMAIN connections' : connections'[i].type = "dealer" =>
                         \E p \in peers' : outgoing(p) /\ p.conn_index = i
                    /\ \A p \in peers' : p.id \in RemoteId => p.id \in asked'
  BY DEF Owners, outgoing
<1>0. \A pk \in SN : pk \notin RemoteId
  BY ConnectionsAssumption DEF RemoteId
<1>1. CASE Keeps
  <2>1. at # "stopped" /\ connections' = connections /\ asked \subseteq asked'
    BY <1>1 DEF Keeps, ConnStep
  <2>2. /\ \A q \in peers' : q \in peers \/ (\E p \in peers : q.id = p.id) \/ q.id \in SN
        /\ \A p, r \in peers' : outgoing(p) /\ outgoing(r) /\ p.id = r.id => p = r
        /\ \A p \in peers : outgoing(p) =>
             \E q \in peers' : outgoing(q) /\ q.conn_index = p.conn_index
    BY <1>1, <2>1, KeptOwners
  <2>3. ASSUME NEW q \in peers', q.id \in RemoteId PROVE q.id \in asked'
    BY <1>0, <2>1, <2>2, <2>3 DEF Owners
  <2>4. ASSUME NEW i \in DOMAIN connections', connections'[i].type = "dealer"
        PROVE  \E q \in peers' : outgoing(q) /\ q.conn_index = i
    <3>1. PICK p \in peers : outgoing(p) /\ p.conn_index = i
      BY <2>1, <2>4 DEF Owners
    <3> QED
      BY <2>2, <3>1
  <2> QED
    BY <2>2, <2>3, <2>4
<1>2. ASSUME NEW id \in SN \cup RemoteId, Opens(id)
      PROVE  /\ \A p, r \in peers' : outgoing(p) /\ outgoing(r) /\ p.id = r.id => p = r
             /\ \A i \in DOMAIN connections' : connections'[i].type = "dealer" =>
                  \E p \in peers' : outgoing(p) /\ p.conn_index = i
             /\ \A p \in peers' : p.id \in RemoteId => p.id \in asked'
  <2>1. PICK t : t = [id |-> id, conn_index |-> Len(connections) + 1, route |-> NoRoute, idle |-> FALSE]
    OBVIOUS
  <2>2. t.id = id /\ t.conn_index = Len(connections) + 1 /\ outgoing(t)
    BY <2>1 DEF outgoing
  <2>3. /\ peers' = peers \cup {t} /\ connections' = Append(connections, [type |-> "dealer", id |-> id])
        /\ id \in RemoteId => id \in asked'
    BY <1>0, <1>2, <2>1 DEF Opens, Open
  <2>4. at # "stopped" /\ (\A p \in peers : outgoing(p) => p.id # id) /\ asked \subseteq asked'
    BY <1>2 DEF Opens, ConnStep
  <2>5. \A p, r \in peers' : outgoing(p) /\ outgoing(r) /\ p.id = r.id => p = r
    BY <2>2, <2>3, <2>4 DEF Owners
  <2>6. \A p \in peers' : p.id \in RemoteId => p.id \in asked'
    BY <2>2, <2>3, <2>4 DEF Owners
  <2>7. ASSUME NEW i \in DOMAIN connections', connections'[i].type = "dealer"
        PROVE  \E p \in peers' : outgoing(p) /\ p.conn_index = i
    <3>1. /\ DOMAIN connections' = 1 .. Len(connections) + 1 /\ Len(connections) \in Nat
          /\ DOMAIN connections = 1 .. Len(connections)
          /\ \A j \in DOMAIN connections : connections'[j] = connections[j]
      BY <2>3, OpenedSockets DEF ConnectionID
    <3>2. i \in DOMAIN connections \/ i = Len(connections) + 1
      BY <3>1
    <3>3. CASE i \in DOMAIN connections
      <4>1. connections[i].type = "dealer"
        BY <2>7, <3>1, <3>3
      <4> QED
        BY <2>3, <2>4, <3>3, <4>1 DEF Owners
    <3> QED
      BY <2>2, <2>3, <3>2, <3>3
  <2> QED
    BY <2>5, <2>6, <2>7
<1>3. ASSUME NEW k \in DOMAIN connections, Closes(k)
      PROVE  /\ \A p, r \in peers' : outgoing(p) /\ outgoing(r) /\ p.id = r.id => p = r
             /\ \A i \in DOMAIN connections' : connections'[i].type = "dealer" =>
                  \E p \in peers' : outgoing(p) /\ p.conn_index = i
             /\ \A p \in peers' : p.id \in RemoteId => p.id \in asked'
  <2>1. /\ at # "stopped" /\ asked \subseteq asked'
        /\ peers' = UpdateIndices(peers, k) /\ connections' = Erased(connections, k)
    BY <1>3 DEF Closes, proxy_close_connection, ConnStep
  <2>2. ASSUME NEW r \in peers, NEW q, q = [r EXCEPT !.conn_index = Shifted(r.conn_index, k)]
        PROVE  q.id = r.id /\ q.conn_index = Shifted(r.conn_index, k) /\ (outgoing(q) <=> outgoing(r))
    <3>1. r \in Peer /\ r.conn_index \in Nat /\ k \in Nat
      BY SeqLen DEF TypeOK, Peer
    <3>2. Shifted(r.conn_index, k) \in Nat
      BY <3>1, ShiftedType
    <3> QED
      BY <2>2, <3>1, <3>2, LeftPeer
  <2>3. ASSUME NEW p \in peers', NEW q \in peers', outgoing(p), outgoing(q), p.id = q.id PROVE p = q
    <3>1. PICK r \in peers : p = [r EXCEPT !.conn_index = Shifted(r.conn_index, k)]
      BY <2>1, Left
    <3>2. PICK s \in peers : q = [s EXCEPT !.conn_index = Shifted(s.conn_index, k)]
      BY <2>1, Left
    <3>3. r = s
      BY <2>1, <2>2, <2>3, <3>1, <3>2 DEF Owners
    <3> QED
      BY <3>1, <3>2, <3>3
  <2>4. ASSUME NEW p \in peers', p.id \in RemoteId PROVE p.id \in asked'
    <3>1. PICK r \in peers : p = [r EXCEPT !.conn_index = Shifted(r.conn_index, k)]
      BY <2>1, Left
    <3>2. p.id = r.id
      BY <2>2, <3>1
    <3> QED
      BY <2>1, <2>4, <3>2 DEF Owners
  <2>5. ASSUME NEW j \in DOMAIN connections', connections'[j].type = "dealer"
        PROVE  \E p \in peers' : outgoing(p) /\ p.conn_index = j
    <3>1. PICK i \in DOMAIN connections \ {k} : j = Shifted(i, k) /\ connections'[j] = connections[i]
      BY <2>1, ClosedSockets
    <3>2. PICK r \in peers : outgoing(r) /\ r.conn_index = i
      BY <2>1, <2>5, <3>1 DEF Owners
    <3>3. PICK q : q = [r EXCEPT !.conn_index = Shifted(r.conn_index, k)]
      OBVIOUS
    <3>4. q \in peers'
      BY <2>1, <3>1, <3>2, <3>3, Remains
    <3> QED
      BY <2>2, <3>1, <3>2, <3>3, <3>4
  <2> QED
    BY <2>3, <2>4, <2>5
<1> QED
  BY <1>1, <1>2, <1>3 DEF ConnStep

\* One owner for each socket, as SocketsOwned counts them.
LEMMA OneOwner ==
  ASSUME TypeOK, IndicesAgree, Owners
  PROVE  SocketsOwned
<1> SUFFICES ASSUME at # "stopped", NEW i \in DOMAIN connections, connections[i].type = "dealer"
             PROVE  /\ {p \in peers : outgoing(p) /\ p.id = connections[i].id}
                         = {p \in peers : outgoing(p) /\ p.conn_index = i}
                    /\ Cardinality({p \in peers : outgoing(p) /\ p.conn_index = i}) = 1
  BY DEF SocketsOwned
<1>1. PICK o \in peers : outgoing(o) /\ o.conn_index = i
  BY DEF Owners
<1>2. ASSUME NEW p \in peers, outgoing(p), p.conn_index = i PROVE p.id = connections[i].id
  <2>1. connections[i] = [type |-> "dealer", id |-> p.id]
    BY <1>2 DEF IndicesAgree
  <2> QED
    BY <2>1
<1>3. \A p \in peers : outgoing(p) /\ p.id = connections[i].id => p = o
  BY <1>1, <1>2 DEF Owners
<1>4. /\ {p \in peers : outgoing(p) /\ p.id = connections[i].id} = {o}
      /\ {p \in peers : outgoing(p) /\ p.conn_index = i} = {o}
  BY <1>1, <1>2, <1>3
<1> QED
  BY <1>4, FS_Singleton

-----------------------------------------------------------------------------
(* The round robin over the sockets.                                       *)

\* A sequence is one over every set that has its elements.
LEMMA SeqOf ==
  ASSUME NEW S, NEW T, NEW s \in Seq(S), \A i \in DOMAIN s : s[i] \in T
  PROVE  s \in Seq(T)
OBVIOUS

\* The sockets are looked at from the first to the last, or taken up again.
LEMMA RoundRobinStep ==
  ASSUME TypeOK, RoundRobinValid, [Next]_vars
  PROVE  RoundRobinValid'
<1> SUFFICES ASSUME at' = "incoming"
             PROVE  queue_index' \in Seq(DOMAIN connections')
  <2>1. queue_index' \in Seq(DOMAIN connections') =>
          \A k \in DOMAIN queue_index' : queue_index'[k] \in DOMAIN connections'
    BY SeqLen
  <2> QED
    BY <2>1 DEF RoundRobinValid
<1>1. CASE at = "incoming"
  <2>1. queue_index \in Seq(DOMAIN connections)
    BY <1>1, SeqOf DEF RoundRobinValid, TypeOK
  <2>2. CASE UNCHANGED <<connections, queue_index>>
    BY <2>1, <2>2
  <2>3. CASE Incoming
    <3>1. PICK i \in DOMAIN connections :
            \/ \E tag \in Tag, result \in {"reply", "error"} : REPLY(i, tag, result)
            \/ HELLO(i) \/ BYE(i) \/ CommandOnOutgoing(i) \/ OtherMessage(i)
            \/ \E pk \in SN, route \in Route : CommandFromSN(i, pk, route)
      BY <2>3 DEF Incoming
    <3>2. Receive(i) /\ Served(i)
      BY <3>1 DEF REPLY, HELLO, BYE, CommandOnOutgoing, OtherMessage, CommandFromSN
    <3>3. queue_index # <<>> /\ ~stale' /\ queue_index' = Append(Tail(queue_index), i)
      BY <3>2 DEF Receive, Served
    <3>4. connections' = connections
      BY <3>1, <3>3 DEF REPLY, HELLO, BYE, CommandOnOutgoing, OtherMessage, CommandFromSN,
        proxy_close_connection
    <3>5. Tail(queue_index) \in Seq(DOMAIN connections)
      BY <2>1, <3>3, SeqHeadTail
    <3> QED
      BY <3>3, <3>4, <3>5, SeqAppend
  <2>4. CASE ReceiveNone
    <3>1. CASE queue_index = <<>>
      BY <2>2, <2>4, <3>1 DEF ReceiveNone
    <3>2. CASE queue_index # <<>>
      BY <2>1, <2>4, <3>2, SeqHeadTail DEF ReceiveNone
    <3> QED
      BY <3>1, <3>2
  <2>5. CASE Elapse
    BY <2>2, <2>5 DEF Elapse, Tick, PeerIdle, ConnectDue, RequestDue
  <2>6. ~Callers
    BY <1>1 DEF Callers, Control, proxy_connect_remote, proxy_connect_sn, proxy_disconnect, proxy_reply,
      proxy_set_active_sns, proxy_update_active_sns, SEND, QUIT
  <2>7. Proxy => ReceiveNone
    BY <1>1 DEF Proxy, RemovePeer, SendToSN, SendUnreachable, RemoveDone, SendConnecting, SendNowhere,
      SendToRemote, Sending, OwnBatch, ControlDone, proxy_expire_idle_peers, ExpireConnects,
      ExpireRequests, LoopTop
  <2> QED
    BY <2>2, <2>3, <2>4, <2>5, <2>6, <2>7 DEF Next, Halted, vars
<1>2. CASE at # "incoming"
  <2>1. ControlDone \/ ExpireRequests
    <3>1. ~Callers
      BY <1>2 DEF Callers, Control, proxy_connect_remote, proxy_connect_sn, proxy_disconnect, proxy_reply,
        proxy_set_active_sns, proxy_update_active_sns, proxy_update_active_sns_clean, SEND, QUIT
    <3>2. ~Incoming
      BY <1>2 DEF Incoming, Receive, REPLY, HELLO, BYE, CommandOnOutgoing, OtherMessage, CommandFromSN
    <3>3. ~Elapse
      BY <1>2 DEF Elapse, Tick, PeerIdle, ConnectDue, RequestDue
    <3>4. Proxy => ControlDone \/ ExpireRequests
      BY <1>2 DEF Proxy, RemovePeer, SendToSN, SendUnreachable, RemoveDone, SendConnecting, SendNowhere,
        SendToRemote, Sending, SendDone, OwnBatch, proxy_expire_idle_peers, ExpireConnects, LoopTop,
        ReceiveNone
    <3> QED
      BY <1>2, <3>1, <3>2, <3>3, <3>4 DEF Next, Halted, vars
  <2>2. queue_index' = [i \in DOMAIN connections |-> i] /\ connections' = connections
    BY <1>2, <2>1 DEF ControlDone, ExpireRequests
  <2>3. DOMAIN connections = 1 .. Len(connections) /\ Len(connections) \in Nat
    BY SeqLen DEF TypeOK
  <2>4. [i \in 1 .. Len(connections) |-> i] \in Seq(1 .. Len(connections))
    BY <2>3
  <2> QED
    BY <2>2, <2>3, <2>4
<1> QED
  BY <1>1, <1>2

-----------------------------------------------------------------------------
(* The active service nodes.                                               *)

\* What an update leaves to do amounts to what was asked for.
LEMMA UpdateTarget ==
  ASSUME NEW A, A \subseteq SN, A = active_service_nodes, NEW added, NEW removed
  PROVE  (A \ Removed(added, removed)) \cup Added(added, removed)
           = (A \ (removed \ added)) \cup (added \cap SN)
BY DEF Added, Removed

\* The search for removed service nodes may end early: by their number all of
\* them were found.
LEMMA AllFound ==
  ASSUME NEW A, NEW P, IsFiniteSet(A), IsFiniteSet(P), NEW R, R \subseteq A \ P,
         Cardinality(A) + Cardinality(P \ A) - Cardinality(R) = Cardinality(P)
  PROVE  R = A \ P
<1>1. IsFiniteSet(A \ P) /\ Cardinality(A \ P) = Cardinality(A) - Cardinality(A \cap P)
  BY FS_Difference
<1>2. Cardinality(P \ A) = Cardinality(P) - Cardinality(P \cap A)
  BY FS_Difference
<1>3. A \cap P = P \cap A
  OBVIOUS
<1>4. IsFiniteSet(R) /\ IsFiniteSet(P \cap A) /\ IsFiniteSet(P \ A)
  <2>1. R \in SUBSET (A \ P) /\ P \cap A \in SUBSET P /\ P \ A \in SUBSET P
    OBVIOUS
  <2> QED
    BY <1>1, <2>1, FS_Subset
<1>5. /\ Cardinality(A) \in Nat /\ Cardinality(P) \in Nat /\ Cardinality(R) \in Nat
      /\ Cardinality(P \cap A) \in Nat /\ Cardinality(A \ P) \in Nat /\ Cardinality(P \ A) \in Nat
  BY <1>1, <1>4, FS_CardinalityType
<1>6. Cardinality(R) = Cardinality(A \ P)
  <2>1. PICK a \in Nat, q \in Nat, r \in Nat, c \in Nat, d \in Nat, e \in Nat :
          /\ a = Cardinality(A) /\ q = Cardinality(P) /\ r = Cardinality(R)
          /\ c = Cardinality(P \cap A) /\ d = Cardinality(A \ P) /\ e = Cardinality(P \ A)
    BY <1>5
  <2>2. d = a - c /\ e = q - c /\ a + e - r = q
    BY <1>1, <1>2, <1>3, <2>1, Zenon
  <2>3. r = d
    BY ONLY <2>2, a \in Nat, q \in Nat, r \in Nat, c \in Nat, d \in Nat, e \in Nat
  <2> QED
    BY <2>1, <2>3
<1> QED
  BY <1>1, <1>6, FS_Subset

\* How a step changes the service nodes.
SnStep ==
  \/ UNCHANGED snVars /\ (at' = "remove" <=> at = "remove")
  \/ /\ at = "control" /\ active_service_nodes' = active_service_nodes
     /\ \/ at' = at /\ target' = active_service_nodes
        \/ at' = "remove" /\ target' = (active_service_nodes \ removing') \cup adding'
  \/ RemoveDone

\* set_active_sns finds all that are to be removed, or need not look.
LEMMA SetActive ==
  ASSUME TypeOK, NEW keys, proxy_set_active_sns(keys)
  PROVE  SnStep
<1> DEFINE A == active_service_nodes
           P == keys \cap SN
<1>1. at = "control" /\ target' = P
  BY DEF proxy_set_active_sns, Control
<1>2. IsFiniteSet(A) /\ IsFiniteSet(P) /\ A \subseteq SN
  BY ConnectionsAssumption, FS_Subset DEF TypeOK
<1>3. CASE P \ A = {} /\ Cardinality(A) = Cardinality(P)
  <2>1. P = A
    BY <1>2, <1>3, FS_Subset
  <2> QED
    BY <1>1, <1>3, <2>1 DEF proxy_set_active_sns, SnStep
<1>4. CASE ~(P \ A = {} /\ Cardinality(A) = Cardinality(P))
  <2>1. PICK seen \in SUBSET A :
          /\ \/ seen = A
             \/ Cardinality(A) + Cardinality(P \ A) - Cardinality(seen \ P) = Cardinality(P)
          /\ proxy_update_active_sns_clean(P \ A, seen \ P)
    BY <1>4 DEF proxy_set_active_sns
  <2>2. seen \ P = A \ P
    <3>1. CASE seen = A
      BY <3>1
    <3>2. CASE Cardinality(A) + Cardinality(P \ A) - Cardinality(seen \ P) = Cardinality(P)
      <4>1. seen \ P \subseteq A \ P
        OBVIOUS
      <4> HIDE DEF A, P
      <4> QED
        BY <1>2, <3>2, <4>1, AllFound
    <3> QED
      BY <2>1, <3>1, <3>2
  <2>3. at' = "remove" /\ adding' = P \ A /\ removing' = A \ P /\ active_service_nodes' = A
    BY <2>1, <2>2 DEF proxy_update_active_sns_clean
  <2>4. (A \ (A \ P)) \cup (P \ A) = P
    OBVIOUS
  <2> QED
    BY <1>1, <2>3, <2>4 DEF SnStep
<1> QED
  BY <1>3, <1>4

\* Every step changes the service nodes in one of these ways, or not at all.
LEMMA SnEffect ==
  ASSUME TypeOK, [Next]_vars
  PROVE  SnStep
<1>1. ASSUME NEW keys, proxy_set_active_sns(keys) PROVE SnStep
  BY <1>1, SetActive
<1>2. ASSUME NEW added, NEW removed, proxy_update_active_sns(added, removed) PROVE SnStep
  <2>1. /\ at = "control" /\ at' = "remove" /\ active_service_nodes' = active_service_nodes
        /\ adding' = Added(added, removed) /\ removing' = Removed(added, removed)
        /\ target' = (active_service_nodes \ (removed \ added)) \cup (added \cap SN)
    BY <1>2 DEF proxy_update_active_sns, proxy_update_active_sns_clean, Control
  <2>2. active_service_nodes \subseteq SN
    BY DEF TypeOK
  <2>3. (active_service_nodes \ Removed(added, removed)) \cup Added(added, removed)
           = (active_service_nodes \ (removed \ added)) \cup (added \cap SN)
    BY <2>2, UpdateTarget
  <2> QED
    BY <2>1, <2>3 DEF SnStep
<1>3. CASE \/ \E id \in RemoteId : proxy_connect_remote(id)
           \/ \E pk \in SN : proxy_connect_sn(pk)
           \/ \E id \in ConnectionID : proxy_disconnect(id) \/ proxy_reply(id)
           \/ \E to \in ConnectionID, route \in Route \cup {NoRoute}, o \in SendOptions,
                 tag \in Tag \cup {NoTag} : SEND(to, route, o, tag)
           \/ QUIT
  <2>1. UNCHANGED snVars /\ at = "control" /\ at' \in {"control", "send"}
    BY <1>3 DEF proxy_connect_remote, proxy_connect_sn, proxy_disconnect, proxy_reply, SEND, QUIT, Control
  <2> QED
    BY <2>1 DEF SnStep
<1>4. CASE Incoming
  <2>1. PICK i : Receive(i) /\ Served(i)
    BY <1>4 DEF Incoming, REPLY, HELLO, BYE, CommandOnOutgoing, OtherMessage, CommandFromSN
  <2>2. UNCHANGED snVars /\ at = "incoming" /\ at' \in {"incoming", "top"}
    BY <2>1 DEF Receive, Served
  <2> QED
    BY <2>2 DEF SnStep
<1>5. CASE Proxy
  BY <1>5 DEF SnStep, Proxy, RemovePeer, SendToSN, SendUnreachable, SendConnecting, SendNowhere,
    SendToRemote, Sending, SendDone, OwnBatch, ControlDone, proxy_expire_idle_peers, ExpireConnects,
    ExpireRequests, ReceiveNone, LoopTop
<1>6. CASE Elapse \/ Halted \/ UNCHANGED vars
  BY <1>6 DEF SnStep, Elapse, Tick, PeerIdle, ConnectDue, RequestDue, Halted, vars
<1> QED
  BY <1>1, <1>2, <1>3, <1>4, <1>5, <1>6 DEF Next, Callers

\* Where the entries for incoming connections come from.
LEMMA IncomingEntries ==
  ASSUME TypeOK, ConnStep, at' # "stopped", NEW q \in peers', ~outgoing(q)
  PROVE  (\E p \in peers : ~outgoing(p) /\ q.id = p.id) \/ q.id \in active_service_nodes
<1>1. CASE Keeps
  <2>1. CASE q \in peers
    BY <2>1
  <2>2. ASSUME NEW p \in peers, NEW b \in BOOLEAN, outgoing(p), q = [p EXCEPT !.idle = b] PROVE FALSE
    <3>1. q.route = p.route
      BY <2>2 DEF TypeOK, Peer
    <3> QED
      BY <2>2, <3>1 DEF outgoing
  <2>3. ASSUME NEW i, NEW pk \in active_service_nodes, NEW route,
               q = [id |-> pk, conn_index |-> i, route |-> route, idle |-> FALSE]
        PROVE  q.id \in active_service_nodes
    BY <2>3
  <2> QED
    BY <1>1, <2>1, <2>2, <2>3 DEF Keeps, PeersKept
<1>2. ASSUME NEW id, Opens(id) PROVE q \in peers
  <2>1. PICK t : t = [id |-> id, conn_index |-> Len(connections) + 1, route |-> NoRoute, idle |-> FALSE]
    OBVIOUS
  <2>2. peers' = peers \cup {t} /\ outgoing(t)
    BY <1>2, <2>1 DEF Opens, Open, outgoing
  <2> QED
    BY <2>2
<1>3. ASSUME NEW k \in DOMAIN connections, Closes(k) PROVE \E p \in peers : ~outgoing(p) /\ q.id = p.id
  <2>1. PICK r \in peers : q = [r EXCEPT !.conn_index = Shifted(r.conn_index, k)]
    BY <1>3, Left DEF Closes, proxy_close_connection
  <2>2. r \in Peer /\ r.conn_index \in Nat /\ k \in Nat
    BY SeqLen DEF TypeOK, Peer
  <2>3. Shifted(r.conn_index, k) \in Nat
    BY <2>2, ShiftedType
  <2> QED
    BY <2>1, <2>2, <2>3, LeftPeer
<1> QED
  BY <1>1, <1>2, <1>3 DEF ConnStep

\* Entries for incoming connections are those of active service nodes.
LEMMA ActiveStep ==
  ASSUME TypeOK, ActiveInv, ConnStep, SnStep, at = "stopped" => at' = "stopped"
  PROVE  ActiveInv'
<1> SUFFICES ASSUME at' # "stopped"
             PROVE  /\ \A p \in peers' : ~outgoing(p) => p.id \in active_service_nodes'
                    /\ IF at' = "remove" THEN target' = (active_service_nodes' \ removing') \cup adding'
                       ELSE target' = active_service_nodes'
  BY DEF ActiveInv, outgoing
<1>0. at # "stopped"
  OBVIOUS
<1>1. ASSUME NEW q \in peers', ~outgoing(q) PROVE q.id \in active_service_nodes
  BY <1>0, <1>1, IncomingEntries DEF ActiveInv
<1>2. CASE RemoveDone
  <2>1. ASSUME NEW q \in peers', ~outgoing(q) PROVE q.id \in active_service_nodes'
    BY <1>1, <1>2, <2>1 DEF RemoveDone
  <2>2. at = "remove" /\ at' = "control" /\ target' = active_service_nodes'
    BY <1>0, <1>2 DEF RemoveDone, ActiveInv
  <2> QED
    BY <2>1, <2>2
<1>3. CASE ~RemoveDone
  BY <1>0, <1>1, <1>3 DEF SnStep, ActiveInv
<1> QED
  BY <1>2, <1>3

-----------------------------------------------------------------------------
(* Callbacks.                                                              *)

Tags(rs) == {r.tag : r \in rs}
Ids(cs) == {c.id : c \in cs}
InHand == IF at \in {"send", "hung"} THEN {out.tag} \ {NoTag} ELSE {}

\* What is waited for: requests, connects, and the request in hand.
LEMMA AwaitedIs ==
  /\ Awaited = Tags(pending_requests) \cup Ids(pending_connects) \cup InHand
  /\ Awaited' = Tags(pending_requests') \cup Ids(pending_connects') \cup InHand'
BY DEF Awaited, Tags, Ids, InHand

\* Requests have tags and connects have numbers.
LEMMA KindsApart ==
  ASSUME TypeOK, AwaitInv
  PROVE  /\ Tags(pending_requests) \subseteq Tag /\ InHand \subseteq Tag
         /\ Ids(pending_connects) \subseteq RemoteId
         /\ Tag \cap RemoteId = {} /\ Tags(pending_requests) \cap InHand = {}
<1>1. Tag \cap RemoteId = {}
  BY ConnectionsAssumption DEF RemoteId
<1>2. Tags(pending_requests) \subseteq Tag
  BY DEF Tags, TypeOK
<1>3. Ids(pending_connects) \subseteq RemoteId
  BY DEF Ids, TypeOK
<1>4. InHand \subseteq Tag /\ Tags(pending_requests) \cap InHand = {}
  BY DEF AwaitInv, InHand, Tags
<1> QED
  BY <1>1, <1>2, <1>3, <1>4

\* Without a request, none has its tag.
LEMMA TagsLess ==
  ASSUME AwaitInv, NEW r \in pending_requests
  PROVE  Tags(pending_requests \ {r}) = Tags(pending_requests) \ {r.tag}
BY DEF AwaitInv, Tags

\* Without a pending connect, none has its number.
LEMMA IdsLess ==
  ASSUME AwaitInv, NEW c \in pending_connects
  PROVE  Ids(pending_connects \ {c}) = Ids(pending_connects) \ {c.id}
BY DEF AwaitInv, Ids

\* A request that is due has the tag it had.
LEMMA TagsDue ==
  ASSUME TypeOK, NEW r \in pending_requests
  PROVE  Tags((pending_requests \ {r}) \cup {[r EXCEPT !.due = TRUE]}) = Tags(pending_requests)
<1>1. PICK t : t = [r EXCEPT !.due = TRUE]
  OBVIOUS
<1>2. t.tag = r.tag
  BY <1>1 DEF TypeOK
<1>3. Tags((pending_requests \ {r}) \cup {t}) = Tags(pending_requests)
  BY <1>2 DEF Tags
<1> QED
  BY <1>1, <1>3

\* A connect that is due has the number it had.
LEMMA IdsDue ==
  ASSUME TypeOK, NEW c \in pending_connects
  PROVE  Ids((pending_connects \ {c}) \cup {[c EXCEPT !.due = TRUE]}) = Ids(pending_connects)
<1>1. PICK t : t = [c EXCEPT !.due = TRUE]
  OBVIOUS
<1>2. t.id = c.id
  BY <1>1 DEF TypeOK
<1>3. Ids((pending_connects \ {c}) \cup {t}) = Ids(pending_connects)
  BY <1>2 DEF Ids
<1> QED
  BY <1>1, <1>3

\* A close keeps the number of every connect it does not drop.
LEMMA IdsMoved ==
  ASSUME NEW S, S \subseteq PendingConnect, NEW k
  PROVE  Ids(UpdateIndices(S, k)) = Ids({c \in S : c.conn_index # k})
<1>1. ASSUME NEW c \in S PROVE [c EXCEPT !.conn_index = Shifted(c.conn_index, k)].id = c.id
  BY DEF PendingConnect
<1>2. ASSUME NEW x \in Ids(UpdateIndices(S, k)) PROVE x \in Ids({c \in S : c.conn_index # k})
  <2>1. PICK q \in UpdateIndices(S, k) : x = q.id
    BY <1>2 DEF Ids
  <2>2. PICK c \in S : c.conn_index # k /\ q = [c EXCEPT !.conn_index = Shifted(c.conn_index, k)]
    BY Left
  <2> QED
    BY <1>1, <2>1, <2>2 DEF Ids
<1>3. ASSUME NEW x \in Ids({c \in S : c.conn_index # k}) PROVE x \in Ids(UpdateIndices(S, k))
  <2>1. PICK c \in S : c.conn_index # k /\ x = c.id
    BY <1>3 DEF Ids
  <2>2. [c EXCEPT !.conn_index = Shifted(c.conn_index, k)] \in UpdateIndices(S, k)
    BY <2>1, Remains
  <2> QED
    BY <1>1, <2>1, <2>2 DEF Ids
<1> QED
  BY <1>2, <1>3

\* A close drops the connect of its socket, if that is not over, and no other.
LEMMA CloseIds ==
  ASSUME TypeOK, IndicesAgree, AwaitInv, at # "stopped", NEW k,
         pending_connects' = UpdateIndices(pending_connects, k)
  PROVE  \/ Ids(pending_connects') = Ids(pending_connects)
         \/ \E x \in Ids(pending_connects) : Ids(pending_connects') = Ids(pending_connects) \ {x}
<1>1. Ids(pending_connects') = Ids({c \in pending_connects : c.conn_index # k})
  BY IdsMoved DEF TypeOK, PendingConnect
<1>2. CASE \A c \in pending_connects : c.conn_index # k
  BY <1>1, <1>2 DEF Ids
<1>3. ASSUME NEW d \in pending_connects, d.conn_index = k
      PROVE  \E x \in Ids(pending_connects) : Ids(pending_connects') = Ids(pending_connects) \ {x}
  <2>1. ASSUME NEW c \in pending_connects, c.conn_index = k PROVE c = d
    <3>1. [type |-> "dealer", id |-> c.id] = [type |-> "dealer", id |-> d.id]
      BY <1>3, <2>1 DEF IndicesAgree
    <3>2. c.id = d.id
      BY <3>1
    <3> QED
      BY <3>2 DEF AwaitInv
  <2>2. {c \in pending_connects : c.conn_index # k} = pending_connects \ {d}
    BY <1>3, <2>1
  <2>3. Ids(pending_connects') = Ids(pending_connects) \ {d.id}
    BY <1>1, <2>2, IdsLess
  <2> QED
    BY <2>3 DEF Ids
<1> QED
  BY <1>2, <1>3

\* The steps that only keep or drop connects, one at most, without a call.
LEMMA PromiseQuiet ==
  ASSUME TypeOK, AwaitInv, UNCHANGED <<asked, called, InHand>>, Tags(pending_requests') = Tags(pending_requests),
         \/ Ids(pending_connects') = Ids(pending_connects)
         \/ \E x \in Ids(pending_connects) : Ids(pending_connects') = Ids(pending_connects) \ {x}
  PROVE  Promise!Next \/ UNCHANGED <<asked, Awaited, called>>
<1>1. CASE Ids(pending_connects') = Ids(pending_connects)
  BY <1>1, AwaitedIs
<1>2. ASSUME NEW x \in Ids(pending_connects), Ids(pending_connects') = Ids(pending_connects) \ {x}
      PROVE  Promise!Next
  <2>1. x \in RemoteId /\ x \notin Tags(pending_requests) /\ x \notin InHand
    BY KindsApart
  <2>2. x \in Awaited /\ Awaited' = Awaited \ {x}
    BY <1>2, <2>1, AwaitedIs
  <2>3. Promise!Abandon(x)
    BY <2>1, <2>2 DEF Promise!Abandon
  <2> QED
    BY <2>1, <2>3 DEF Promise!Next
<1> QED
  BY <1>1, <1>2

\* A callback that is called with an outcome of its own is no longer waited for.
LEMMA PromiseAnswer ==
  ASSUME NEW x \in Tag \cup RemoteId, x \in Awaited, Awaited' = Awaited \ {x}, asked' = asked,
         NEW r \in Promise!Outcome(x), Call(x, r)
  PROVE  Promise!Next
<1>1. Promise!Answer(x)
  BY DEF Promise!Answer, Call
<1> QED
  BY <1>1 DEF Promise!Next

\* A call that is made, and one that is answered at once.
LEMMA PromiseAsk ==
  ASSUME NEW x \in Tag \cup RemoteId, x \notin asked, asked' = asked \cup {x},
         \/ Awaited' = Awaited \cup {x} /\ called' = called
         \/ Awaited' = Awaited /\ \E r \in Promise!Outcome(x) : Call(x, r)
  PROVE  Promise!Next
<1>1. CASE Awaited' = Awaited \cup {x} /\ called' = called
  <2>1. Promise!Ask(x)
    BY <1>1 DEF Promise!Ask
  <2> QED
    BY <2>1 DEF Promise!Next
<1>2. ASSUME Awaited' = Awaited, NEW r \in Promise!Outcome(x), Call(x, r) PROVE Promise!Next
  <2>1. Promise!Refuse(x)
    BY <1>2 DEF Promise!Refuse, Call
  <2> QED
    BY <2>1 DEF Promise!Next
<1> QED
  BY <1>1, <1>2

\* The outcomes of connects and of requests.
LEMMA OutcomeIs ==
  /\ \A x \in RemoteId : Promise!Outcome(x) = {"success", "failure"}
  /\ \A x \in Tag : Promise!Outcome(x) = {"reply", "error", "TIMEOUT"}
<1>1. Tag \cap RemoteId = {}
  BY ConnectionsAssumption DEF RemoteId
<1> QED
  BY <1>1 DEF Promise!Outcome

\* What callers ask for.
LEMMA PromiseCallers ==
  ASSUME TypeOK, IndicesAgree, AwaitInv, Callers
  PROVE  Promise!Next \/ UNCHANGED <<asked, Awaited, called>>
<1> DEFINE goal == Promise!Next \/ UNCHANGED <<asked, Awaited, called>>
<1>0. at = "control" /\ InHand = {}
  BY DEF Callers, Control, proxy_connect_remote, proxy_connect_sn, proxy_disconnect, proxy_reply,
    proxy_set_active_sns, proxy_update_active_sns, SEND, QUIT, InHand
<1>1. ASSUME NEW id \in RemoteId, proxy_connect_remote(id) PROVE goal
  <2>1. id \notin asked /\ asked' = asked \cup {id} /\ at' = at /\ pending_requests' = pending_requests
    BY <1>1 DEF proxy_connect_remote
  <2>2. InHand' = InHand
    BY <1>0, <2>1 DEF InHand
  <2>3. CASE Call(id, "failure") /\ UNCHANGED connVars
    <3>1. Awaited' = Awaited
      BY <2>1, <2>2, <2>3, AwaitedIs
    <3> QED
      BY <2>1, <2>3, <3>1, OutcomeIs, PromiseAsk
  <2>4. CASE /\ Open(id, pending_connects \cup
                      {[id |-> id, conn_index |-> Len(connections) + 1, due |-> FALSE]})
             /\ called' = called
    <3>1. pending_connects' = pending_connects \cup
                      {[id |-> id, conn_index |-> Len(connections) + 1, due |-> FALSE]}
      BY <2>4 DEF Open
    <3>2. Ids(pending_connects') = Ids(pending_connects) \cup {id}
      <4>1. PICK t : t = [id |-> id, conn_index |-> Len(connections) + 1, due |-> FALSE]
        OBVIOUS
      <4>2. t.id = id /\ pending_connects' = pending_connects \cup {t}
        BY <3>1, <4>1
      <4> QED
        BY <4>2 DEF Ids
    <3>3. Awaited' = Awaited \cup {id}
      BY <2>1, <2>2, <3>2, AwaitedIs
    <3> QED
      BY <2>1, <2>4, <3>3, PromiseAsk
  <2> QED
    BY <1>1, <2>3, <2>4 DEF proxy_connect_remote
<1>2. ASSUME NEW to, NEW route, NEW o, NEW tag \in Tag \cup {NoTag}, SEND(to, route, o, tag) PROVE goal
  <2>1. /\ tag \notin asked /\ asked' = asked \cup ({tag} \ {NoTag}) /\ at' = "send" /\ out'.tag = tag
        /\ UNCHANGED <<pending_requests, pending_connects, called>>
    BY <1>2 DEF SEND, build_send
  <2>2. InHand' = {tag} \ {NoTag}
    BY <2>1 DEF InHand
  <2>3. Awaited' = Awaited \cup ({tag} \ {NoTag})
    BY <1>0, <2>1, <2>2, AwaitedIs
  <2>4. CASE tag = NoTag
    BY <2>1, <2>3, <2>4
  <2>5. CASE tag # NoTag
    <3>1. tag \in Tag /\ asked' = asked \cup {tag} /\ Awaited' = Awaited \cup {tag}
      BY <2>1, <2>3, <2>5
    <3> QED
      BY <2>1, <3>1, PromiseAsk
  <2> QED
    BY <2>4, <2>5
<1>3. ASSUME NEW id, proxy_disconnect(id) PROVE goal
  <2>1. UNCHANGED <<at, asked, called, pending_requests, InHand>>
    BY <1>3 DEF proxy_disconnect, InHand
  <2>2. CASE UNCHANGED connVars
    BY <2>1, <2>2, PromiseQuiet
  <2>3. ASSUME NEW p, proxy_close_connection(p.conn_index, peers, pending_connects) PROVE goal
    <3>1. pending_connects' = UpdateIndices(pending_connects, p.conn_index)
      BY <2>3 DEF proxy_close_connection
    <3> QED
      BY <1>0, <2>1, <3>1, CloseIds, PromiseQuiet
  <2> QED
    BY <1>3, <2>2, <2>3 DEF proxy_disconnect
<1>4. CASE \/ \E pk \in SN : proxy_connect_sn(pk)
           \/ \E id \in ConnectionID : proxy_reply(id)
           \/ \E keys \in SUBSET (SN \cup Junk) : proxy_set_active_sns(keys)
           \/ \E added, removed \in SUBSET (SN \cup Junk) : proxy_update_active_sns(added, removed)
           \/ QUIT
  <2>1. at' \in {"control", "remove"} /\ UNCHANGED <<asked, called, pending_requests, pending_connects>>
    BY <1>0, <1>4 DEF proxy_connect_sn, ConnectNew, Open, proxy_reply, proxy_set_active_sns,
      proxy_update_active_sns, proxy_update_active_sns_clean, QUIT
  <2>2. InHand' = InHand
    BY <1>0, <2>1 DEF InHand
  <2> QED
    BY <2>1, <2>2, PromiseQuiet
<1> QED
  BY <1>1, <1>2, <1>3, <1>4 DEF Callers

\* Messages of remotes.
LEMMA PromiseIncoming ==
  ASSUME TypeOK, IndicesAgree, AwaitInv, Incoming
  PROVE  Promise!Next \/ UNCHANGED <<asked, Awaited, called>>
<1> DEFINE goal == Promise!Next \/ UNCHANGED <<asked, Awaited, called>>
<1>1. PICK i \in DOMAIN connections :
        \/ \E tag \in Tag, result \in {"reply", "error"} : REPLY(i, tag, result)
        \/ HELLO(i) \/ BYE(i) \/ CommandOnOutgoing(i) \/ OtherMessage(i)
        \/ \E pk \in SN, route \in Route : CommandFromSN(i, pk, route)
  BY DEF Incoming
<1>2. Receive(i) /\ Served(i)
  BY <1>1 DEF REPLY, HELLO, BYE, CommandOnOutgoing, OtherMessage, CommandFromSN
<1>3. at = "incoming" /\ at' \in {"incoming", "top"} /\ asked' = asked
  BY <1>2 DEF Receive, Served
<1>4. InHand = {} /\ InHand' = {}
  BY <1>3 DEF InHand
<1>5. CASE UNCHANGED <<pending_requests, pending_connects, called>>
  BY <1>3, <1>4, <1>5, PromiseQuiet
<1>6. ASSUME NEW tag \in Tag, NEW result \in {"reply", "error"}, REPLY(i, tag, result) PROVE goal
  <2>1. CASE \A r \in pending_requests : r.tag # tag
    BY <1>5, <1>6, <2>1 DEF REPLY
  <2>2. ASSUME NEW q \in pending_requests, q.tag = tag PROVE goal
    <3>1. /\ Call(tag, result) /\ pending_requests' = {r \in pending_requests : r.tag # tag}
          /\ pending_connects' = pending_connects
      BY <1>6, <2>2 DEF REPLY
    <3>2. Tags(pending_requests') = Tags(pending_requests) \ {tag} /\ tag \in Tags(pending_requests)
      BY <2>2, <3>1 DEF Tags
    <3>3. tag \notin Ids(pending_connects)
      BY KindsApart
    <3>4. tag \in Awaited /\ Awaited' = Awaited \ {tag}
      BY <1>4, <3>1, <3>2, <3>3, AwaitedIs
    <3> QED
      BY <1>3, <3>1, <3>4, OutcomeIs, PromiseAnswer
  <2> QED
    BY <2>1, <2>2
<1>7. CASE HELLO(i)
  <2>1. ASSUME NEW c \in pending_connects, Established(c) PROVE goal
    <3>0. connections[c.conn_index] = [type |-> "dealer", id |-> c.id] /\ c.conn_index \in DOMAIN connections
      BY <1>3 DEF IndicesAgree
    <3>1. c.id \in RemoteId /\ conn_index_to_id[c.conn_index] = c.id
      BY <1>3, <3>0 DEF TypeOK, IndicesAgree
    <3>2. Call(c.id, "success") /\ pending_connects' = pending_connects \ {c}
      BY <2>1, <3>1 DEF Established
    <3>3. Ids(pending_connects') = Ids(pending_connects) \ {c.id} /\ c.id \in Ids(pending_connects)
      BY <3>2, IdsLess DEF Ids
    <3>4. c.id \notin Tags(pending_requests) /\ pending_requests' = pending_requests
      BY <1>7, <3>1, KindsApart DEF HELLO
    <3>5. c.id \in Awaited /\ Awaited' = Awaited \ {c.id}
      BY <1>4, <3>3, <3>4, AwaitedIs
    <3> QED
      BY <1>3, <3>1, <3>2, <3>5, OutcomeIs, PromiseAnswer
  <2> QED
    BY <1>5, <1>7, <2>1 DEF HELLO
<1>8. CASE BYE(i)
  <2>1. /\ UNCHANGED <<called, pending_requests>>
        /\ pending_connects' = UpdateIndices(pending_connects, i)
    BY <1>8 DEF BYE, proxy_close_connection
  <2> QED
    BY <1>3, <1>4, <2>1, CloseIds, PromiseQuiet
<1>9. CASE CommandOnOutgoing(i) \/ OtherMessage(i) \/ \E pk \in SN, route \in Route : CommandFromSN(i, pk, route)
  BY <1>5, <1>9 DEF CommandOnOutgoing, OtherMessage, CommandFromSN
<1> QED
  BY <1>1, <1>6, <1>7, <1>8, <1>9

\* The end of a send: the request is waited for from then on, or it is over.
LEMMA PromiseSent ==
  ASSUME TypeOK, AwaitInv, at = "send", NEW result, SendDone(result), asked' = asked,
         pending_connects' = pending_connects
  PROVE  Promise!Next \/ UNCHANGED <<asked, Awaited, called>>
<1>1. InHand = {out.tag} \ {NoTag} /\ InHand' = {}
  BY DEF SendDone, InHand
<1>2. CASE out.tag = NoTag
  <2>1. UNCHANGED <<pending_requests, called>> /\ InHand = {}
    BY <1>1, <1>2 DEF SendDone
  <2> QED
    BY <1>1, <2>1, PromiseQuiet
<1>3. CASE out.tag # NoTag /\ result = "sent"
  <2>1. /\ pending_requests' = pending_requests \cup {[tag |-> out.tag, due |-> FALSE]}
        /\ called' = called
    BY <1>3 DEF SendDone
  <2>2. PICK t : t = [tag |-> out.tag, due |-> FALSE]
    OBVIOUS
  <2>3. t.tag = out.tag /\ pending_requests' = pending_requests \cup {t}
    BY <2>1, <2>2
  <2>4. Tags(pending_requests') = Tags(pending_requests) \cup {out.tag}
    BY <2>3 DEF Tags
  <2>5. Awaited' = Awaited
    BY <1>1, <1>3, <2>4, AwaitedIs
  <2> QED
    BY <2>1, <2>5
<1>4. CASE out.tag # NoTag /\ result # "sent"
  <2>1. Call(out.tag, "TIMEOUT") /\ pending_requests' = pending_requests
    BY <1>4 DEF SendDone
  <2>2. out.tag \in Tag /\ out.tag \in InHand
    BY <1>1, <1>4 DEF AwaitInv
  <2>3. out.tag \notin Tags(pending_requests) /\ out.tag \notin Ids(pending_connects)
    BY <2>2, KindsApart
  <2>4. out.tag \in Awaited /\ Awaited' = Awaited \ {out.tag}
    BY <1>1, <2>1, <2>2, <2>3, AwaitedIs
  <2> QED
    BY <2>1, <2>2, <2>4, OutcomeIs, PromiseAnswer
<1> QED
  BY <1>2, <1>3, <1>4

\* What the proxy thread does by itself, and time.
LEMMA PromiseProxy ==
  ASSUME TypeOK, IndicesAgree, AwaitInv, Proxy \/ Elapse
  PROVE  Promise!Next \/ UNCHANGED <<asked, Awaited, called>>
<1> DEFINE goal == Promise!Next \/ UNCHANGED <<asked, Awaited, called>>
<1>0. asked' = asked
  BY DEF Proxy, Elapse, RemovePeer, SendToSN, SendUnreachable, RemoveDone, SendConnecting, SendNowhere,
    SendToRemote, Sending, OwnBatch, ControlDone, proxy_expire_idle_peers, ExpireConnects,
    ExpireRequests, ReceiveNone, LoopTop, Tick, PeerIdle, ConnectDue, RequestDue
<1>1. ASSUME UNCHANGED <<pending_requests, pending_connects, called, InHand>> PROVE goal
  BY <1>0, <1>1, PromiseQuiet
<1>2. ASSUME NEW k, pending_connects' = UpdateIndices(pending_connects, k), at # "stopped",
             UNCHANGED <<pending_requests, called, InHand>>
      PROVE  goal
  BY <1>0, <1>2, CloseIds, PromiseQuiet
<1>3. ASSUME NEW p, RemovePeer(p) PROVE goal
  <2>1. at = "remove" /\ UNCHANGED <<pending_requests, called, InHand>>
    BY <1>3 DEF RemovePeer, InHand
  <2>2. CASE outgoing(p)
    BY <1>2, <1>3, <2>1, <2>2 DEF RemovePeer, proxy_close_connection
  <2>3. CASE ~outgoing(p)
    BY <1>1, <1>3, <2>1, <2>3 DEF RemovePeer
  <2> QED
    BY <2>2, <2>3
<1>4. CASE (\E p \in peers : SendToSN(p)) \/ SendConnecting \/ SendNowhere \/ SendToRemote
  <2>1. PICK result : SendDone(result)
    BY <1>4 DEF SendToSN, SendConnecting, SendNowhere, SendToRemote
  <2>2. at = "send" /\ pending_connects' = pending_connects
    BY <1>4 DEF SendToSN, SendConnecting, SendNowhere, SendToRemote, Sending, ConnectNew, Open
  <2> QED
    BY <1>0, <2>1, <2>2, PromiseSent
<1>5. ASSUME NEW p, NEW first, SendUnreachable(p, first) PROVE goal
  <2>1. at = "send" /\ at' \in {"send", "hung"} /\ UNCHANGED <<pending_requests, pending_connects, called, out>>
    BY <1>5 DEF SendUnreachable, Sending
  <2>2. InHand' = InHand
    BY <2>1 DEF InHand
  <2> QED
    BY <1>1, <2>1, <2>2
<1>6. CASE RemoveDone \/ OwnBatch \/ ControlDone \/ ReceiveNone \/ LoopTop \/ Tick \/ \E p \in peers : PeerIdle(p)
  <2>1. UNCHANGED <<pending_requests, pending_connects, called, out>>
    BY <1>6 DEF RemoveDone, OwnBatch, ControlDone, ReceiveNone, LoopTop, Tick, PeerIdle
  <2>2. at' = at \/ (at \notin {"send", "hung"} /\ at' \notin {"send", "hung"})
    BY <1>6 DEF RemoveDone, OwnBatch, ControlDone, ReceiveNone, LoopTop, Tick, PeerIdle
  <2>3. InHand' = InHand
    BY <2>1, <2>2 DEF InHand
  <2> QED
    BY <1>1, <2>1, <2>3
<1>7. CASE proxy_expire_idle_peers
  <2>1. at = "expire" /\ at' \in {"expire", "connects"} /\ UNCHANGED <<pending_requests, called>>
    BY <1>7 DEF proxy_expire_idle_peers
  <2>2. InHand' = InHand
    BY <2>1 DEF InHand
  <2> QED
    BY <1>1, <1>2, <1>7, <2>1, <2>2 DEF proxy_expire_idle_peers, proxy_close_connection
<1>8. CASE ExpireConnects
  <2>1. at = "connects" /\ at' \in {"connects", "requests"} /\ pending_requests' = pending_requests
    BY <1>8 DEF ExpireConnects
  <2>2. InHand = {} /\ InHand' = {}
    BY <2>1 DEF InHand
  <2>3. CASE UNCHANGED connVars /\ called' = called
    BY <1>1, <2>1, <2>2, <2>3
  <2>4. ASSUME NEW c \in pending_connects, Call(c.id, "failure"),
               proxy_close_connection(c.conn_index, peers, pending_connects \ {c})
        PROVE  goal
    <3>1. pending_connects' = UpdateIndices(pending_connects \ {c}, c.conn_index)
      BY <2>4 DEF proxy_close_connection
    <3>2. ASSUME NEW d \in pending_connects, d.conn_index = c.conn_index PROVE d = c
      <4>1. [type |-> "dealer", id |-> c.id] = [type |-> "dealer", id |-> d.id]
        BY <2>1, <3>2 DEF IndicesAgree
      <4>2. c.id = d.id
        BY <4>1
      <4> QED
        BY <4>2 DEF AwaitInv
    <3>3. {d \in pending_connects \ {c} : d.conn_index # c.conn_index} = pending_connects \ {c}
      BY <3>2
    <3>4. pending_connects \ {c} \subseteq PendingConnect
      BY DEF TypeOK, PendingConnect
    <3>5. Ids(pending_connects') = Ids(pending_connects) \ {c.id}
      BY <3>1, <3>3, <3>4, IdsMoved, IdsLess
    <3>6. c.id \in Ids(pending_connects) /\ c.id \in RemoteId
      BY DEF Ids, TypeOK
    <3>7. c.id \notin Tags(pending_requests)
      BY <3>6, KindsApart
    <3>8. c.id \in Awaited /\ Awaited' = Awaited \ {c.id}
      BY <2>1, <2>2, <3>5, <3>6, <3>7, AwaitedIs
    <3> QED
      BY <1>0, <2>4, <3>6, <3>8, OutcomeIs, PromiseAnswer
  <2> QED
    BY <1>8, <2>3, <2>4 DEF ExpireConnects
<1>9. CASE ExpireRequests
  <2>1. at = "requests" /\ at' \in {"requests", "incoming"} /\ pending_connects' = pending_connects
    BY <1>9 DEF ExpireRequests
  <2>2. InHand = {} /\ InHand' = {}
    BY <2>1 DEF InHand
  <2>3. CASE UNCHANGED callVars
    BY <1>1, <2>1, <2>2, <2>3
  <2>4. ASSUME NEW r \in pending_requests, Call(r.tag, "TIMEOUT"), pending_requests' = pending_requests \ {r}
        PROVE  goal
    <3>1. r.tag \in Tag /\ r.tag \in Tags(pending_requests)
      BY DEF TypeOK, Tags
    <3>2. Tags(pending_requests') = Tags(pending_requests) \ {r.tag}
      BY <2>4, TagsLess
    <3>3. r.tag \notin Ids(pending_connects)
      BY <3>1, KindsApart
    <3>4. r.tag \in Awaited /\ Awaited' = Awaited \ {r.tag}
      BY <2>1, <2>2, <3>1, <3>2, <3>3, AwaitedIs
    <3> QED
      BY <1>0, <2>4, <3>1, <3>4, OutcomeIs, PromiseAnswer
  <2> QED
    BY <1>9, <2>3, <2>4 DEF ExpireRequests
<1>10. ASSUME NEW id, ConnectDue(id) PROVE goal
  <2>1. UNCHANGED <<pending_requests, called, InHand>> /\ Ids(pending_connects') = Ids(pending_connects)
    BY <1>10, IdsDue DEF ConnectDue, InHand
  <2> QED
    BY <1>0, <2>1, PromiseQuiet
<1>11. ASSUME NEW tag, RequestDue(tag) PROVE goal
  <2>1. UNCHANGED <<pending_connects, called, InHand>> /\ Tags(pending_requests') = Tags(pending_requests)
    BY <1>11, TagsDue DEF RequestDue, InHand
  <2> QED
    BY <1>0, <2>1, PromiseQuiet
<1> QED
  BY <1>3, <1>4, <1>5, <1>6, <1>7, <1>8, <1>9, <1>10, <1>11 DEF Proxy, Elapse

\* Every step is one of the promise, or none.
LEMMA PromiseStep ==
  ASSUME TypeOK, IndicesAgree, AwaitInv, [Next]_vars
  PROVE  Promise!Next \/ UNCHANGED <<asked, Awaited, called>>
<1>1. CASE UNCHANGED vars \/ Halted
  BY <1>1 DEF vars, Halted, Awaited
<1> QED
  BY <1>1, PromiseCallers, PromiseIncoming, PromiseProxy DEF Next

-----------------------------------------------------------------------------
(* What is waited for.                                                     *)

Unique(cs) == \A c, d \in cs : c.id = d.id => c = d

\* The connects of the next state have numbers of their own.
LEMMA ConnectsUnique ==
  ASSUME TypeOK, AwaitInv, ConnStep
  PROVE  Unique(pending_connects')
<1>0. Unique(pending_connects)
  BY DEF AwaitInv, Unique
<1>1. CASE pending_connects' \subseteq pending_connects
  BY <1>0, <1>1 DEF Unique
<1>2. ASSUME NEW c \in pending_connects,
             pending_connects' = (pending_connects \ {c}) \cup {[c EXCEPT !.due = TRUE]}
      PROVE  Unique(pending_connects')
  <2>1. PICK t : t = [c EXCEPT !.due = TRUE]
    OBVIOUS
  <2>2. t.id = c.id /\ pending_connects' = (pending_connects \ {c}) \cup {t}
    BY <1>2, <2>1 DEF TypeOK
  <2> QED
    BY <1>0, <2>2 DEF Unique
<1>3. ASSUME NEW id \in RemoteId \ asked,
             pending_connects' = pending_connects \cup
               {[id |-> id, conn_index |-> Len(connections) + 1, due |-> FALSE]}
      PROVE  Unique(pending_connects')
  <2>1. PICK t : t = [id |-> id, conn_index |-> Len(connections) + 1, due |-> FALSE]
    OBVIOUS
  <2>2. t.id = id /\ pending_connects' = pending_connects \cup {t}
    BY <1>3, <2>1
  <2>3. \A c \in pending_connects : c.id # id
    BY AwaitedIs DEF AwaitInv, Ids
  <2> QED
    BY <1>0, <2>2, <2>3 DEF Unique
<1>4. ASSUME NEW k, pending_connects' = UpdateIndices(pending_connects, k) PROVE Unique(pending_connects')
  <2>1. ASSUME NEW p \in pending_connects', NEW q \in pending_connects', p.id = q.id PROVE p = q
    <3>1. PICK c \in pending_connects : p = [c EXCEPT !.conn_index = Shifted(c.conn_index, k)]
      BY <1>4, Left
    <3>2. PICK d \in pending_connects : q = [d EXCEPT !.conn_index = Shifted(d.conn_index, k)]
      BY <1>4, Left
    <3>3. p.id = c.id /\ q.id = d.id
      BY <3>1, <3>2 DEF TypeOK
    <3>4. c = d
      BY <1>0, <2>1, <3>3 DEF Unique
    <3> QED
      BY <3>1, <3>2, <3>4
  <2> QED
    BY <2>1 DEF Unique
<1>5. CASE Keeps
  BY <1>1, <1>2, <1>5 DEF Keeps, ConnectsKept
<1>6. ASSUME NEW id, Opens(id) PROVE Unique(pending_connects')
  BY <1>1, <1>3, <1>6 DEF Opens, Open
<1>7. ASSUME NEW k, Closes(k) PROVE Unique(pending_connects')
  BY <1>4, <1>7 DEF Closes, proxy_close_connection
<1> QED
  BY <1>1, <1>5, <1>6, <1>7 DEF ConnStep

\* How a step changes the requests, and the one in hand.
RequestsStep ==
  \/ pending_requests' \subseteq pending_requests
  \/ \E r \in pending_requests :
       pending_requests' = (pending_requests \ {r}) \cup {[r EXCEPT !.due = TRUE]}
  \/ /\ at = "send" /\ at' = "control"
     /\ pending_requests' = pending_requests \cup {[tag |-> out.tag, due |-> FALSE]}

InHandStep ==
  at' \in {"send", "hung"} =>
    \/ at \in {"send", "hung"} /\ out' = out
    \/ /\ at = "control" /\ pending_requests' = pending_requests
       /\ out'.tag \in (Tag \cup {NoTag}) \ asked

\* Every step changes the requests in one of these ways.
LEMMA RequestsEffect ==
  ASSUME TypeOK, [Next]_vars
  PROVE  RequestsStep /\ InHandStep
<1>1. CASE UNCHANGED vars \/ Halted \/ Elapse
  <2>1. UNCHANGED <<at, out>>
    BY <1>1 DEF vars, Halted, Elapse, Tick, PeerIdle, ConnectDue, RequestDue
  <2>2. RequestsStep
    BY <1>1 DEF vars, Halted, Elapse, Tick, PeerIdle, ConnectDue, RequestDue, RequestsStep
  <2> QED
    BY <2>1, <2>2 DEF InHandStep
<1>2. CASE Callers
  <2>1. pending_requests' = pending_requests /\ at = "control"
    BY <1>2 DEF Callers, Control, proxy_connect_remote, proxy_connect_sn, proxy_disconnect, proxy_reply,
      proxy_set_active_sns, proxy_update_active_sns, proxy_update_active_sns_clean, SEND, QUIT
  <2>2. ASSUME NEW to, NEW route, NEW o, NEW tag \in Tag \cup {NoTag}, SEND(to, route, o, tag)
        PROVE  out'.tag \in (Tag \cup {NoTag}) \ asked
    BY <2>2 DEF SEND, build_send
  <2>3. \/ at' \in {"control", "remove"}
        \/ \E to \in ConnectionID, route \in Route \cup {NoRoute}, o \in SendOptions,
              tag \in Tag \cup {NoTag} : SEND(to, route, o, tag)
    BY <1>2, <2>1 DEF Callers, proxy_connect_remote, proxy_connect_sn, proxy_disconnect, proxy_reply,
      proxy_set_active_sns, proxy_update_active_sns, proxy_update_active_sns_clean, QUIT
  <2> QED
    BY <2>1, <2>2, <2>3 DEF RequestsStep, InHandStep
<1>3. CASE Incoming
  <2>1. PICK i : Receive(i) /\ Served(i)
    BY <1>3 DEF Incoming, REPLY, HELLO, BYE, CommandOnOutgoing, OtherMessage, CommandFromSN
  <2>2. at' \in {"incoming", "top"}
    BY <2>1 DEF Receive, Served
  <2>3. pending_requests' \subseteq pending_requests
    BY <1>3 DEF Incoming, REPLY, HELLO, BYE, CommandOnOutgoing, OtherMessage, CommandFromSN
  <2> QED
    BY <2>2, <2>3 DEF RequestsStep, InHandStep
<1>4. CASE Proxy
  <2>1. ASSUME NEW result, SendDone(result), at = "send" PROVE RequestsStep /\ InHandStep
    BY <2>1 DEF SendDone, RequestsStep, InHandStep
  <2>2. CASE (\E p \in peers : SendToSN(p)) \/ SendConnecting \/ SendNowhere \/ SendToRemote
    BY <2>1, <2>2 DEF SendToSN, SendConnecting, SendNowhere, SendToRemote, Sending
  <2>3. ASSUME NEW p, NEW first, SendUnreachable(p, first) PROVE RequestsStep /\ InHandStep
    BY <2>3 DEF SendUnreachable, Sending, RequestsStep, InHandStep
  <2>4. CASE \/ \E p \in peers : RemovePeer(p)
             \/ RemoveDone \/ OwnBatch \/ ControlDone \/ proxy_expire_idle_peers \/ ExpireConnects
             \/ ExpireRequests \/ ReceiveNone \/ LoopTop
    <3>1. at' \notin {"send", "hung"}
      BY <2>4 DEF RemovePeer, RemoveDone, OwnBatch, ControlDone, proxy_expire_idle_peers, ExpireConnects,
        ExpireRequests, ReceiveNone, LoopTop
    <3>2. pending_requests' \subseteq pending_requests
      BY <2>4 DEF RemovePeer, RemoveDone, OwnBatch, ControlDone, proxy_expire_idle_peers, ExpireConnects,
        ExpireRequests, ReceiveNone, LoopTop
    <3> QED
      BY <3>1, <3>2 DEF RequestsStep, InHandStep
  <2> QED
    BY <1>4, <2>2, <2>3, <2>4 DEF Proxy
<1> QED
  BY <1>1, <1>2, <1>3, <1>4 DEF Next

\* Nothing is waited for twice, and only what was asked for.
LEMMA AwaitStep ==
  ASSUME TypeOK, IndicesAgree, AwaitInv, ConnStep, [Next]_vars
  PROVE  AwaitInv'
<1>1. Awaited' \subseteq asked'
  <2>1. Awaited \subseteq asked
    BY DEF AwaitInv
  <2>2. CASE Promise!Next
    BY <2>1, <2>2 DEF Promise!Next, Promise!Ask, Promise!Answer, Promise!Refuse, Promise!Abandon
  <2>3. CASE UNCHANGED <<asked, Awaited, called>>
    BY <2>1, <2>3
  <2> QED
    BY <2>2, <2>3, PromiseStep
<1>2. Unique(pending_connects')
  BY ConnectsUnique
<1>3. RequestsStep /\ InHandStep
  BY RequestsEffect
<1>4. /\ \A r, s \in pending_requests' : r.tag = s.tag => r = s
      /\ \A q \in pending_requests' : \/ \E r \in pending_requests : q.tag = r.tag
                                      \/ at' = "control"
  <2>1. CASE pending_requests' \subseteq pending_requests
    BY <2>1 DEF AwaitInv
  <2>2. ASSUME NEW r \in pending_requests,
               pending_requests' = (pending_requests \ {r}) \cup {[r EXCEPT !.due = TRUE]}
        PROVE  /\ \A q, s \in pending_requests' : q.tag = s.tag => q = s
               /\ \A q \in pending_requests' : \E s \in pending_requests : q.tag = s.tag
    <3>1. PICK t : t = [r EXCEPT !.due = TRUE]
      OBVIOUS
    <3>2. t.tag = r.tag /\ pending_requests' = (pending_requests \ {r}) \cup {t}
      BY <2>2, <3>1 DEF TypeOK
    <3>3. \A q, s \in pending_requests' : q.tag = s.tag => q = s
      BY <3>2 DEF AwaitInv
    <3> QED
      BY <3>2, <3>3
  <2>3. CASE /\ at = "send" /\ at' = "control"
             /\ pending_requests' = pending_requests \cup {[tag |-> out.tag, due |-> FALSE]}
    <3>1. PICK t : t = [tag |-> out.tag, due |-> FALSE]
      OBVIOUS
    <3>2. t.tag = out.tag /\ pending_requests' = pending_requests \cup {t}
      BY <2>3, <3>1
    <3>3. \A r \in pending_requests : r.tag # out.tag
      BY <2>3 DEF AwaitInv
    <3>4. \A q, s \in pending_requests' : q.tag = s.tag => q = s
      BY <3>2, <3>3 DEF AwaitInv
    <3> QED
      BY <2>3, <3>4
  <2> QED
    BY <1>3, <2>1, <2>2, <2>3 DEF RequestsStep
<1>5. ASSUME at' \in {"send", "hung"}
      PROVE  out'.tag \in Tag \cup {NoTag} /\ \A q \in pending_requests' : q.tag # out'.tag
  <2>1. CASE at \in {"send", "hung"} /\ out' = out
    BY <1>4, <1>5, <2>1 DEF AwaitInv
  <2>2. CASE /\ at = "control" /\ pending_requests' = pending_requests
             /\ out'.tag \in (Tag \cup {NoTag}) \ asked
    <3>1. \A r \in pending_requests : r.tag \in asked
      BY AwaitedIs DEF AwaitInv, Tags
    <3> QED
      BY <2>2, <3>1
  <2> QED
    BY <1>3, <1>5, <2>1, <2>2 DEF InHandStep
<1> QED
  BY <1>1, <1>2, <1>4, <1>5 DEF AwaitInv, Unique

-----------------------------------------------------------------------------
(* The theorems.                                                           *)

\* The invariant holds when proxy_loop has opened the listening sockets.
LEMMA ConnInit ==
  ASSUME Init
  PROVE  ConnInv
<1>1. ListenerId = 1 .. Listeners /\ Listeners \in Nat
  BY ConnectionsAssumption DEF ListenerId
<1>2. /\ connections \in Seq(Socket) /\ Len(connections) = Listeners
      /\ conn_index_to_id \in Seq(ConnectionID) /\ Len(conn_index_to_id) = Listeners
  <2>1. \A i \in 1 .. Listeners : i \in ConnectionID /\ [type |-> "router", id |-> i] \in Socket
    BY <1>1 DEF ConnectionID, Socket
  <2>2. /\ connections = [i \in 1 .. Listeners |-> [type |-> "router", id |-> i]]
        /\ conn_index_to_id = [i \in 1 .. Listeners |-> i]
    BY <1>1 DEF Init
  <2>3. connections \in [1 .. Listeners -> Socket] /\ conn_index_to_id \in [1 .. Listeners -> ConnectionID]
    BY <2>1, <2>2
  <2> QED
    BY <1>1, <2>2, <2>3
<1>3. incoming_conn_index \subseteq [id : ListenerId, conn_index : Nat]
  BY <1>1 DEF Init
<1>4. called \in [Tag \cup RemoteId -> Seq({"success", "mixed_up", "failure", "reply", "error", "TIMEOUT"})]
  <2>1. <<>> \in Seq({"success", "mixed_up", "failure", "reply", "error", "TIMEOUT"})
    OBVIOUS
  <2> QED
    BY <2>1 DEF Init
<1>5. TypeOK
  <2>1. <<>> \in Seq(Nat) /\ 0 \in 0 .. CommandHWM /\ 0 \in 0 .. MaxInputs
    BY ConnectionsAssumption
  <2> QED
    BY <1>2, <1>3, <1>4, <2>1 DEF TypeOK, Init
<1>6. IndicesAgree
  <2>1. DOMAIN connections = ListenerId
    BY DEF Init
  <2>2. \A i \in ListenerId : connections[i] = [type |-> "router", id |-> i] /\ conn_index_to_id[i] = i
    BY DEF Init
  <2>3. \A i \in DOMAIN connections : conn_index_to_id[i] = connections[i].id
    BY <2>1, <2>2
  <2>4. \A l \in incoming_conn_index : l.conn_index \in ListenerId /\ l.id = l.conn_index
    BY DEF Init
  <2> QED
    BY <1>2, <2>1, <2>2, <2>3, <2>4 DEF IndicesAgree, Init
<1>7. Owners
  <2>1. \A i \in DOMAIN connections : connections[i].type # "dealer"
    BY DEF Init
  <2> QED
    BY <2>1 DEF Owners, Init
<1> QED
  BY <1>5, <1>6, <1>7 DEF ConnInv, RoundRobinValid, ActiveInv, AwaitInv, Awaited, Init

\* The thread stays stopped.
LEMMA StaysStopped ==
  ASSUME [Next]_vars, at = "stopped"
  PROVE  at' = "stopped"
<1>1. ~Callers /\ ~Incoming /\ ~Proxy
  BY DEF Callers, Control, proxy_connect_remote, proxy_connect_sn, proxy_disconnect, proxy_reply,
    proxy_set_active_sns, proxy_update_active_sns, SEND, QUIT, Incoming, Receive, REPLY, HELLO, BYE,
    CommandOnOutgoing, OtherMessage, CommandFromSN, Proxy, RemovePeer, SendToSN, SendUnreachable,
    RemoveDone, SendConnecting, SendNowhere, SendToRemote, Sending, OwnBatch, ControlDone,
    proxy_expire_idle_peers, ExpireConnects, ExpireRequests, ReceiveNone, LoopTop
<1> QED
  BY <1>1 DEF Next, Elapse, Tick, PeerIdle, ConnectDue, RequestDue, Halted, vars

\* The indices, the owners of the sockets, the round robin, the service nodes and
\* what is waited for, together: no part is inductive by itself.
THEOREM ConnInvariant == Spec => []ConnInv
<1>1. Init => ConnInv
  BY ConnInit
<1>2. ConnInv /\ [Next]_vars => ConnInv'
  <2> SUFFICES ASSUME ConnInv, [Next]_vars
               PROVE  ConnInv'
    OBVIOUS
  <2>0. TypeOK /\ IndicesAgree /\ Owners /\ RoundRobinValid /\ ActiveInv /\ AwaitInv
    BY DEF ConnInv
  <2>1. ConnStep
    BY <2>0, ConnEffect
  <2>2. TypeOK'
    BY <2>0, TypeStep
  <2>3. IndicesAgree'
    BY <2>0, <2>1, IndicesStep
  <2>4. Owners'
    BY <2>0, <2>1, OwnersStep
  <2>5. RoundRobinValid'
    BY <2>0, RoundRobinStep
  <2>6. ActiveInv'
    BY <2>0, <2>1, SnEffect, StaysStopped, ActiveStep
  <2>7. AwaitInv'
    BY <2>0, <2>1, AwaitStep
  <2> QED
    BY <2>2, <2>3, <2>4, <2>5, <2>6, <2>7 DEF ConnInv
<1> QED
  BY <1>1, <1>2, PTL DEF Spec

\* Every variable keeps its type.
THEOREM TypeCorrect == Spec => []TypeOK
<1>1. ConnInv => TypeOK
  BY DEF ConnInv
<1> QED
  BY <1>1, ConnInvariant, PTL

\* proxy_close_connection moves every index that is left to where its socket went,
\* however many connections are opened and closed.
THEOREM EveryIndexAgrees == Spec => []IndicesAgree
<1>1. ConnInv => IndicesAgree
  BY DEF ConnInv
<1> QED
  BY <1>1, ConnInvariant, PTL

\* Each outgoing socket has exactly one entry of `peers`, that of the service node
\* or remote it was opened for, and nobody has two.
THEOREM EverySocketOwned == Spec => []SocketsOwned
<1>1. ConnInv => SocketsOwned
  BY OneOwner DEF ConnInv
<1> QED
  BY <1>1, ConnInvariant, PTL

\* The round robin never looks at a socket that is not there: a BYE ends it.
THEOREM RoundRobinInBounds == Spec => []RoundRobinValid
<1>1. ConnInv => RoundRobinValid
  BY DEF ConnInv
<1> QED
  BY <1>1, ConnInvariant, PTL

\* set_active_sns and update_active_sns end in the service nodes asked for, even
\* when the search for removed ones is cut short, and clients that are no longer
\* among them have no entry left.
THEOREM UpdatesTakeEffect == Spec => []OnlyActivePeers
<1>1. ConnInv => OnlyActivePeers
  BY DEF ConnInv, ActiveInv, OnlyActivePeers
<1> QED
  BY <1>1, ConnInvariant, PTL

\* The callback of each request and of each connect_remote is called at most once,
\* with an outcome of its kind, whatever comes first; no request is forgotten.
THEOREM CallbacksAsPromised == Spec => CallbacksKeepPromise
<1>1. Init => Promise!Init
  BY DEF Init, Promise!Init, Awaited
<1>2. ConnInv /\ [Next]_vars => [Promise!Next]_<<asked, Awaited, called>>
  BY PromiseStep DEF ConnInv
<1> QED
  BY <1>1, <1>2, ConnInvariant, PTL DEF Spec, CallbacksKeepPromise, Promise!Spec
=============================================================================
