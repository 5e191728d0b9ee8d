---------------------------- MODULE Connections ----------------------------
(***************************************************************************)
(* The proxy thread's connections, peers, requests and service nodes       *)
(* (connections.cpp, proxy.cpp, auth.cpp, worker.cpp).                     *)
(*                                                                         *)
(* `connections` is a vector, and everything else names a connection by    *)
(* its index in it: a connection that is closed moves the ones after it.   *)
(* A socket is [type, id], `id` being whom it was opened for; the code has *)
(* no such field, it is what the indices are checked against.              *)
(*                                                                         *)
(* A ConnectionID is the pubkey of a service node, or a number.  Two of    *)
(* the same pubkey are equal whatever their route; numbers have a route    *)
(* only when they stand for a client of a listening socket.                *)
(*                                                                         *)
(* Of time only this is kept: whether a peer is idle for longer than its   *)
(* idle_expiry, and whether a deadline is over.  What a thread that uses   *)
(* the library or a remote sends is input; `inputs` bounds it.             *)
(***************************************************************************)
EXTENDS Integers, Sequences, FiniteSets

CONSTANTS
  SN,           \* the pubkeys of service nodes
  Junk,         \* strings that are no pubkeys
  Listeners,    \* the number of addresses listened on
  Remotes,      \* the number of connect_remote calls
  Route,        \* the routing ids of incoming connections
  Tag,          \* the tags of requests
  NoTag,        \* the tag of a message that is no request
  SendOptions,  \* the options messages are sent with
  CommandHWM,   \* how many messages the proxy's own control socket holds
  MaxInputs     \* bound: the messages of callers and remotes

\* The route of an outgoing connection.
NoRoute == ""

Options == [optional : BOOLEAN, incoming : BOOLEAN, outgoing : BOOLEAN,
            fail : BOOLEAN, full : BOOLEAN]

ASSUME ConnectionsAssumption ==
  /\ Listeners \in Nat /\ Remotes \in Nat /\ MaxInputs \in Nat /\ CommandHWM \in Nat
  /\ \A pk \in SN : pk \notin Nat
  /\ SN \cap Junk = {} /\ IsFiniteSet(SN)
  /\ NoRoute \notin Route /\ NoTag \notin Tag /\ Tag \cap Nat = {}
  /\ SendOptions \subseteq Options

ListenerId == 1 .. Listeners
RemoteId == (Listeners + 1) .. (Listeners + Remotes)
ConnectionID == SN \cup ListenerId \cup RemoteId

VARIABLES
  at,                \* where the proxy thread is
  connections,       \* the sockets
  conn_index_to_id,
  peers,             \* the entries of the multimap
  incoming_conn_index, \* of each listener; bind_data::index is the same
  pending_connects,
  pending_requests,
  active_service_nodes,
  removing, adding,  \* what proxy_update_active_sns_clean has left to do
  out,               \* the message that proxy_send sends
  queue_index,       \* the sockets left to look at
  stale,             \* pollitems_stale
  skip,              \* proxy_skip_one_poll
  tick,              \* the cleanup timer has run out
  own,               \* messages of the proxy on its own control socket
  quitting,          \* max_workers = 0
  asked,             \* the connects and requests made so far
  called,            \* the calls of each one's callback that were scheduled
  target,            \* the service nodes the callers asked for
  inputs             \* messages of callers and remotes so far

connVars == <<connections, conn_index_to_id, peers, incoming_conn_index, pending_connects, stale>>
snVars   == <<active_service_nodes, removing, adding, target>>
loopVars == <<queue_index, skip, tick, quitting>>
callVars == <<pending_requests, own, called>>
vars == <<at, connVars, snVars, loopVars, callVars, out, asked, inputs>>

PeersOf(id) == {p \in peers : p.id = id}
outgoing(p) == p.route = NoRoute

-----------------------------------------------------------------------------
(* Opening and closing.                                                    *)

\* Mutant: the places after the erased one are not moved.
ShiftedNot(i, index) == i

Shifted(i, index) == IF i > index THEN i - 1 ELSE i

\* update_connection_indices: drop what has the index, move what is above it.
UpdateIndices(S, index) ==
  {[r EXCEPT !.conn_index = Shifted(@, index)] : r \in {q \in S : q.conn_index # index}}

\* vector::erase
Erased(s, index) == SubSeq(s, 1, index - 1) \o SubSeq(s, index + 1, Len(s))

\* ps and pcs: the peers and pending connects that the caller has left.
proxy_close_connection(index, ps, pcs) ==
  /\ stale' = TRUE
  /\ connections' = Erased(connections, index)
  /\ peers' = UpdateIndices(ps, index)
  /\ pending_connects' = UpdateIndices(pcs, index)
  /\ incoming_conn_index' = UpdateIndices(incoming_conn_index, index)
  /\ conn_index_to_id' = Erased(conn_index_to_id, index)

\* A new outgoing connection to id, and its peer.
Open(id, pcs) ==
  /\ stale' = TRUE
  /\ connections' = Append(connections, [type |-> "dealer", id |-> id])
  /\ conn_index_to_id' = Append(conn_index_to_id, id)
  /\ peers' = peers \cup {[id |-> id, conn_index |-> Len(connections) + 1,
                           route |-> NoRoute, idle |-> FALSE]}
  /\ pending_connects' = pcs
  /\ UNCHANGED incoming_conn_index

\* proxy_loop opens the listening sockets first.
Init ==
  /\ at = "control"
  /\ connections = [i \in ListenerId |-> [type |-> "router", id |-> i]]
  /\ conn_index_to_id = [i \in ListenerId |-> i]
  /\ incoming_conn_index = {[id |-> i, conn_index |-> i] : i \in ListenerId}
  /\ peers = {} /\ pending_connects = {} /\ pending_requests = {}
  /\ active_service_nodes = {} /\ removing = {} /\ adding = {} /\ target = {}
  /\ out = <<>> /\ queue_index = <<>>
  /\ stale = TRUE /\ skip = FALSE /\ tick = FALSE /\ own = 0 /\ quitting = FALSE
  /\ asked = {}
  /\ called = [x \in Tag \cup RemoteId |-> <<>>]
  /\ inputs = 0

\* One more message of a caller, or of a remote.
Control == at = "control" /\ inputs < MaxInputs /\ inputs' = inputs + 1

\* The proxy sends itself n BATCH messages with job(), or blocks if there is no room.
job(n) == own + n <= CommandHWM /\ own' = own + n

Call(x, result) == called' = [called EXCEPT ![x] = Append(@, result)]

-----------------------------------------------------------------------------
(* connect_remote, connect_sn, disconnect.                                 *)

\* connect() fails at once, or HI is sent and HELLO is waited for.
proxy_connect_remote(id) ==
  /\ Control /\ id \in RemoteId \ asked
  /\ asked' = asked \cup {id}
  /\ \/ /\ Call(id, "failure") /\ skip' = TRUE
        /\ UNCHANGED connVars
     \/ /\ Open(id, pending_connects \cup
                      {[id |-> id, conn_index |-> Len(connections) + 1, due |-> FALSE]})
        /\ UNCHANGED <<called, skip>>
  /\ UNCHANGED <<at, snVars, queue_index, tick, quitting, pending_requests, own, out>>

\* The entries of pk that options o allow.
Usable(pk, o) == {p \in PeersOf(pk) : /\ o.incoming => ~outgoing(p)
                                      /\ o.outgoing => outgoing(p)}

\* An outgoing peer that is used is not idle.
activity(p) == peers' = IF outgoing(p) THEN (peers \ {p}) \cup {[p EXCEPT !.idle = FALSE]}
                        ELSE peers

\* Mutant: a peer that the options do not allow is no reason not to connect.
ConnectNewAlways(pk, o) == ~o.optional /\ ~o.incoming /\ Open(pk, pending_connects)

\* No address is known, connect() fails, or there is a new connection.
ConnectNew(pk, o) == Usable(pk, o) = {} /\ ~o.optional /\ ~o.incoming /\ Open(pk, pending_connects)

\* connect_sn: no options are passed on.
proxy_connect_sn(pk) ==
  LET o == [optional |-> FALSE, incoming |-> FALSE, outgoing |-> FALSE] IN
  /\ Control
  /\ \/ \E p \in Usable(pk, o) :
          /\ activity(p)
          /\ UNCHANGED <<connections, conn_index_to_id, incoming_conn_index, pending_connects, stale>>
     \/ ConnectNew(pk, o)
     \/ Usable(pk, o) = {} /\ UNCHANGED connVars
  /\ UNCHANGED <<at, snVars, loopVars, callVars, out, asked>>

proxy_disconnect(id) ==
  /\ Control
  /\ \/ \E p \in PeersOf(id) : /\ outgoing(p)
                               /\ proxy_close_connection(p.conn_index, peers, pending_connects)
     \/ (\A p \in PeersOf(id) : ~outgoing(p)) /\ UNCHANGED connVars
  /\ UNCHANGED <<at, snVars, loopVars, callVars, out, asked>>

-----------------------------------------------------------------------------
(* set_active_sns and update_active_sns.                                   *)

proxy_update_active_sns_clean(added, removed) ==
  /\ at' = "remove"
  /\ adding' = added /\ removing' = removed
  /\ UNCHANGED <<connVars, active_service_nodes, loopVars, callVars, out, asked>>

\* The search for removed ones ends when, by their number, there can be no more:
\* it has then seen those in `seen`.
proxy_set_active_sns(keys) ==
  LET pubkeys == keys \cap SN
      added == pubkeys \ active_service_nodes
      size == Cardinality(active_service_nodes)
  IN
  /\ Control
  /\ target' = pubkeys
  /\ IF added = {} /\ size = Cardinality(pubkeys)
     THEN UNCHANGED <<at, connVars, active_service_nodes, removing, adding, loopVars, callVars,
                      out, asked>>
     ELSE \E seen \in SUBSET active_service_nodes :
            LET removed == seen \ pubkeys IN
            /\ \/ seen = active_service_nodes
               \/ seen # {} /\ size + Cardinality(added) - Cardinality(removed) = Cardinality(pubkeys)
            /\ proxy_update_active_sns_clean(added, removed)

\* Mutant: what is no pubkey is added too.
AddedAnything(added, removed) == added \ active_service_nodes

\* What is junk or there already is dropped.
Added(added, removed) == (added \cap SN) \ active_service_nodes

Removed(added, removed) == ((removed \cap SN) \cap active_service_nodes) \ added

proxy_update_active_sns(added, removed) ==
  /\ Control
  /\ target' = (active_service_nodes \ (removed \ added)) \cup (added \cap SN)
  /\ proxy_update_active_sns_clean(Added(added, removed), Removed(added, removed))

\* One entry of a service node that is removed goes, and its connection with it.
RemovePeer(p) ==
  /\ at = "remove" /\ p.id \in removing
  /\ IF outgoing(p)
     THEN proxy_close_connection(p.conn_index, peers \ {p}, pending_connects)
     ELSE /\ peers' = peers \ {p}
          /\ UNCHANGED <<connections, conn_index_to_id, incoming_conn_index, pending_connects, stale>>
  /\ UNCHANGED <<at, snVars, loopVars, callVars, out, asked, inputs>>

\* Mutant: only outgoing peers are dropped.
RemoveDoneEarly ==
  /\ at = "remove" /\ \A p \in peers : p.id \in removing => ~outgoing(p)
  /\ active_service_nodes' = (active_service_nodes \ removing) \cup adding
  /\ removing' = {} /\ adding' = {}
  /\ at' = "control"
  /\ UNCHANGED <<connVars, target, loopVars, callVars, out, asked, inputs>>

RemoveDone ==
  /\ at = "remove" /\ \A p \in peers : p.id \notin removing
  /\ active_service_nodes' = (active_service_nodes \ removing) \cup adding
  /\ removing' = {} /\ adding' = {}
  /\ at' = "control"
  /\ UNCHANGED <<connVars, target, loopVars, callVars, out, asked, inputs>>

-----------------------------------------------------------------------------
(* send, request and reply.                                                *)

\* What the caller puts into the control message.
build_send(to, route, o, tag) == [to |-> to, route |-> route, o |-> o, tag |-> tag]

\* A message, or a request if it has a tag, for a service node, for a remote
\* that was connected to, or for the client `route` of a listening socket.
SEND(to, route, o, tag) ==
  /\ Control
  /\ route = NoRoute <=> to \notin ListenerId
  /\ tag \notin asked
  /\ asked' = asked \cup ({tag} \ {NoTag})
  /\ at' = "send"
  /\ out' = build_send(to, route, o, tag)
  /\ UNCHANGED <<connVars, snVars, loopVars, callVars>>

\* The jobs for the callbacks of the options.  An exception calls `fail` with the
\* error, and `full` after it.
Notices(result) ==
  LET n(b) == IF b THEN 1 ELSE 0 IN
  CASE result = "sent"      -> 0
    [] result = "exception" -> n(out.o.fail) + n(out.o.full)
    [] OTHER                -> n(out.o.fail \/ out.o.full)

\* Mutant: nobody is told of a request that could not be sent.
SendDoneSilent(result) ==
  /\ at' = "control" /\ out' = <<>>
  /\ job(Notices(result))
  /\ pending_requests' = IF out.tag = NoTag \/ result # "sent" THEN pending_requests
                         ELSE pending_requests \cup {[tag |-> out.tag, due |-> FALSE]}
  /\ UNCHANGED called

\* The end of proxy_send.
SendDone(result) ==
  /\ at' = "control" /\ out' = <<>>
  /\ IF out.tag = NoTag THEN job(Notices(result)) /\ UNCHANGED <<pending_requests, called>>
     ELSE IF result = "sent"
     THEN /\ pending_requests' = pending_requests \cup {[tag |-> out.tag, due |-> FALSE]}
          /\ UNCHANGED <<called, own>>
     ELSE /\ Call(out.tag, "TIMEOUT")
          /\ job(1 + Notices(result))
          /\ UNCHANGED pending_requests

Sending == at = "send" /\ UNCHANGED <<snVars, loopVars, asked, inputs>>

\* sent, or no room in the socket's queue, or zmq throws
Result == {"sent", "blocked", "exception"}

\* On the connection there is.
SendToSN(p) ==
  /\ Sending /\ out.to \in SN /\ p \in Usable(out.to, out.o)
  /\ \E result \in Result : SendDone(result)
  /\ activity(p)
  /\ UNCHANGED <<connections, conn_index_to_id, incoming_conn_index, pending_connects, stale>>

\* EHOSTUNREACH: the client of a listening socket is gone.  The search for its
\* entry looks at the first one of the service node only, for ever if that is
\* another; the order of the entries is not specified, but p was the first usable.
SendUnreachable(p, first) ==
  /\ Sending /\ out.to \in SN /\ p \in Usable(out.to, out.o) /\ ~outgoing(p)
  /\ first = p \/ first \in PeersOf(out.to) \ Usable(out.to, out.o)
  /\ IF first.route = p.route
     THEN peers' = peers \ {first} /\ UNCHANGED at
     ELSE at' = "hung" /\ UNCHANGED peers
  /\ UNCHANGED <<connections, conn_index_to_id, incoming_conn_index, pending_connects, stale,
                 callVars, out>>

\* On a new connection.
SendConnecting ==
  /\ Sending /\ out.to \in SN
  /\ ConnectNew(out.to, out.o)
  /\ \E result \in Result : SendDone(result)

\* There is no connection that may be used, and none is made.
SendNowhere ==
  /\ Sending
  /\ \/ out.to \in SN /\ Usable(out.to, out.o) = {}
     \/ out.to \in RemoteId /\ PeersOf(out.to) = {}
     \/ out.to \in ListenerId /\ \A l \in incoming_conn_index : l.id # out.to
  /\ SendDone("nowhere")
  /\ UNCHANGED connVars

SendToRemote ==
  /\ Sending
  /\ \/ out.to \in RemoteId /\ PeersOf(out.to) # {}
     \/ out.to \in ListenerId /\ \E l \in incoming_conn_index : l.id = out.to
  /\ \E result \in Result : SendDone(result)
  /\ UNCHANGED connVars

\* The entries whose clients turn out to be gone are dropped, up to the first
\* that can be sent to.
proxy_reply(id) ==
  /\ Control
  /\ \E gone \in SUBSET {p \in PeersOf(id) : ~outgoing(p)} : peers' = peers \ gone
  /\ UNCHANGED <<at, connections, conn_index_to_id, incoming_conn_index, pending_connects, stale,
                 snVars, loopVars, callVars, out, asked>>

\* A job() of the proxy itself comes in.
OwnBatch ==
  /\ at = "control" /\ own > 0
  /\ own' = own - 1 /\ skip' = TRUE
  /\ UNCHANGED <<at, connVars, snVars, queue_index, tick, quitting, pending_requests, called,
                 out, asked, inputs>>

QUIT ==
  /\ Control /\ ~quitting
  /\ quitting' = TRUE
  /\ UNCHANGED <<at, connVars, snVars, queue_index, skip, tick, callVars, out, asked>>

-----------------------------------------------------------------------------
(* The loop, and proxy_conn_cleanup.                                       *)

\* Time passes: the cleanup timer runs out, a peer has been idle for too long (a
\* remote's idle_expiry is for ever), a deadline is over.
Tick ==
  /\ tick' = TRUE
  /\ UNCHANGED <<at, connVars, snVars, queue_index, skip, quitting, callVars, out, asked, inputs>>

PeerIdle(p) ==
  /\ outgoing(p) /\ p.id \in SN
  /\ peers' = (peers \ {p}) \cup {[p EXCEPT !.idle = TRUE]}
  /\ UNCHANGED <<at, connections, conn_index_to_id, incoming_conn_index, pending_connects, stale,
                 snVars, loopVars, callVars, out, asked, inputs>>

ConnectDue(id) ==
  /\ \E c \in pending_connects :
       /\ c.id = id
       /\ pending_connects' = (pending_connects \ {c}) \cup {[c EXCEPT !.due = TRUE]}
  /\ UNCHANGED <<at, connections, conn_index_to_id, incoming_conn_index, peers, stale,
                 snVars, loopVars, callVars, out, asked, inputs>>

RequestDue(tag) ==
  /\ \E r \in pending_requests :
       /\ r.tag = tag
       /\ pending_requests' = (pending_requests \ {r}) \cup {[r EXCEPT !.due = TRUE]}
  /\ UNCHANGED <<at, connVars, snVars, loopVars, own, called, out, asked, inputs>>

\* No more control messages: on to the timers, and from there to the sockets.
ControlDone ==
  /\ at = "control" /\ own = 0
  /\ at' = IF tick THEN "expire" ELSE "incoming"
  /\ tick' = FALSE
  /\ queue_index' = [i \in DOMAIN connections |-> i]
  /\ UNCHANGED <<connVars, snVars, skip, quitting, callVars, out, asked, inputs>>

proxy_expire_idle_peers ==
  /\ at = "expire"
  /\ \/ \E p \in peers :
          /\ outgoing(p) /\ p.idle
          /\ proxy_close_connection(p.conn_index, peers, pending_connects)
          /\ UNCHANGED at
     \/ (\A p \in peers : outgoing(p) => ~p.idle) /\ at' = "connects" /\ UNCHANGED connVars
  /\ UNCHANGED <<snVars, loopVars, callVars, out, asked, inputs>>

\* Mutant: only forgotten, neither told nor closed.
ExpireConnectsOnly ==
  /\ at = "connects"
  /\ pending_connects' = {c \in pending_connects : ~c.due}
  /\ at' = "requests"
  /\ UNCHANGED <<connections, conn_index_to_id, peers, incoming_conn_index, stale, snVars, loopVars,
                 callVars, out, asked, inputs>>

ExpireConnects ==
  /\ at = "connects"
  /\ \/ \E c \in pending_connects :
          /\ c.due
          /\ Call(c.id, "failure") /\ job(1)
          /\ proxy_close_connection(c.conn_index, peers, pending_connects \ {c})
          /\ UNCHANGED at
     \/ (\A c \in pending_connects : ~c.due) /\ at' = "requests" /\ UNCHANGED <<connVars, own, called>>
  /\ UNCHANGED <<snVars, loopVars, pending_requests, out, asked, inputs>>

\* Mutant: requests are not looked at.
ExpireRequestsNot ==
  /\ at = "requests"
  /\ at' = "incoming"
  /\ queue_index' = [i \in DOMAIN connections |-> i]
  /\ UNCHANGED <<callVars, connVars, snVars, skip, tick, quitting, out, asked, inputs>>

\* The last part; the sockets are counted when it is over.
ExpireRequests ==
  /\ at = "requests"
  /\ \/ \E r \in pending_requests :
          /\ r.due
          /\ Call(r.tag, "TIMEOUT") /\ job(1)
          /\ pending_requests' = pending_requests \ {r}
          /\ UNCHANGED <<at, queue_index>>
     \/ /\ \A r \in pending_requests : ~r.due
        /\ at' = "incoming"
        /\ queue_index' = [i \in DOMAIN connections |-> i]
        /\ UNCHANGED callVars
  /\ UNCHANGED <<connVars, snVars, skip, tick, quitting, out, asked, inputs>>

-----------------------------------------------------------------------------
(* Incoming messages.                                                      *)

\* Mutant: goes on with the old indices after a close.
ServedRegardless(i) ==
  /\ queue_index' = Append(Tail(queue_index), i)
  /\ UNCHANGED at

\* The socket is looked at again after the others, unless a connection may have
\* been closed.
Served(i) ==
  IF stale' THEN at' = "top" /\ queue_index' = <<>>
  ELSE queue_index' = Append(Tail(queue_index), i) /\ UNCHANGED at

\* A message is there on socket i.
Receive(i) ==
  /\ at = "incoming" /\ queue_index # <<>> /\ i = Head(queue_index)
  /\ inputs < MaxInputs /\ inputs' = inputs + 1
  /\ UNCHANGED <<snVars, tick, quitting, own, out, asked>>

\* There is none, or nothing is left to look at.
ReceiveNone ==
  /\ at = "incoming"
  /\ IF queue_index = <<>> THEN at' = "top" /\ UNCHANGED queue_index
     ELSE queue_index' = Tail(queue_index) /\ UNCHANGED at
  /\ UNCHANGED <<connVars, snVars, skip, tick, quitting, callVars, out, asked, inputs>>

\* A REPLY, or an error response with a tag.
REPLY(i, tag, result) ==
  /\ Receive(i)
  /\ IF \E r \in pending_requests : r.tag = tag
     THEN /\ Call(tag, result) /\ skip' = TRUE
          /\ pending_requests' = {r \in pending_requests : r.tag # tag}
     ELSE UNCHANGED <<called, skip, pending_requests>>
  /\ UNCHANGED connVars
  /\ Served(i)

\* The pending connect of the socket is over; its callback is told the id that
\* the socket has.
Established(c) ==
  /\ Call(c.id, IF conn_index_to_id[c.conn_index] = c.id THEN "success" ELSE "mixed_up")
  /\ pending_connects' = pending_connects \ {c}
  /\ skip' = TRUE

HELLO(i) ==
  /\ Receive(i) /\ connections[i].type = "dealer"
  /\ \/ \E c \in pending_connects : c.conn_index = i /\ PeersOf(c.id) # {} /\ Established(c)
     \/ /\ \A c \in pending_connects : c.conn_index = i => PeersOf(c.id) = {}
        /\ UNCHANGED <<called, skip, pending_connects>>
  /\ UNCHANGED <<connections, conn_index_to_id, peers, incoming_conn_index, stale, pending_requests>>
  /\ Served(i)

BYE(i) ==
  /\ Receive(i) /\ connections[i].type = "dealer"
  /\ proxy_close_connection(i, peers, pending_connects)
  /\ UNCHANGED <<skip, pending_requests, called>>
  /\ Served(i)

\* A command on an outgoing connection counts as activity if it goes to a worker
\* at once: of the entry that peers.find happens to give.
CommandOnOutgoing(i) ==
  /\ Receive(i) /\ connections[i].type = "dealer"
  /\ \/ \E p \in PeersOf(conn_index_to_id[i]) : activity(p)
     \/ UNCHANGED peers
  /\ UNCHANGED <<connections, conn_index_to_id, incoming_conn_index, pending_connects, stale,
                 skip, pending_requests, called>>
  /\ Served(i)

\* A command on a listening socket: an active service node becomes a peer.
CommandFromSN(i, pk, route) ==
  /\ Receive(i) /\ connections[i].type = "router"
  /\ pk \in active_service_nodes
  /\ peers' = peers \cup {[id |-> pk, conn_index |-> i, route |-> route, idle |-> FALSE]}
  /\ UNCHANGED <<connections, conn_index_to_id, incoming_conn_index, pending_connects, stale,
                 skip, pending_requests, called>>
  /\ Served(i)

\* HI, a command of anyone else, and what is invalid.
OtherMessage(i) ==
  /\ Receive(i)
  /\ UNCHANGED <<connVars, skip, pending_requests, called>>
  /\ Served(i)

-----------------------------------------------------------------------------
\* The next round, or the end once the threads are gone.
LoopTop ==
  /\ at = "top"
  /\ \/ at' = "control" /\ UNCHANGED <<connections, peers>>
     \/ quitting /\ at' = "stopped" /\ connections' = <<>> /\ peers' = {}
  /\ skip' = FALSE
  /\ stale' = (stale /\ skip)
  /\ UNCHANGED <<conn_index_to_id, incoming_conn_index, pending_connects, snVars, queue_index,
                 tick, quitting, callVars, out, asked, inputs>>

Callers ==
  \/ \E id \in RemoteId : proxy_connect_remote(id)
  \/ \E pk \in SN : proxy_connect_sn(pk)
  \/ \E id \in ConnectionID : proxy_disconnect(id) \/ proxy_reply(id)
  \/ \E keys \in SUBSET (SN \cup Junk) : proxy_set_active_sns(keys)
  \/ \E added, removed \in SUBSET (SN \cup Junk) : proxy_update_active_sns(added, removed)
  \/ \E to \in ConnectionID, route \in Route \cup {NoRoute}, o \in SendOptions, tag \in Tag \cup {NoTag} :
       SEND(to, route, o, tag)
  \/ QUIT

Incoming ==
  \E i \in DOMAIN connections :
    \/ \E tag \in Tag, result \in {"reply", "error"} : REPLY(i, tag, result)
    \/ HELLO(i) \/ BYE(i) \/ CommandOnOutgoing(i) \/ OtherMessage(i)
    \/ \E pk \in SN, route \in Route : CommandFromSN(i, pk, route)

Proxy ==
  \/ \E p \in peers : RemovePeer(p) \/ SendToSN(p) \/ \E first \in peers : SendUnreachable(p, first)
  \/ RemoveDone \/ SendConnecting \/ SendNowhere \/ SendToRemote
  \/ OwnBatch \/ ControlDone
  \/ proxy_expire_idle_peers \/ ExpireConnects \/ ExpireRequests
  \/ ReceiveNone \/ LoopTop

Halted == at \in {"stopped", "hung"} /\ UNCHANGED vars

Elapse ==
  \/ Tick
  \/ \E p \in peers : PeerIdle(p)
  \/ \E id \in RemoteId : ConnectDue(id)
  \/ \E tag \in Tag : RequestDue(tag)

Next == Callers \/ Incoming \/ Proxy \/ Elapse \/ Halted

Spec == Init /\ [][Next]_vars

\* The proxy thread keeps running, and time keeps passing.
FairSpec ==
  /\ Spec
  /\ WF_vars(Proxy) /\ WF_vars(Tick)
  /\ \A id \in RemoteId : WF_vars(ConnectDue(id))
  /\ \A tag \in Tag : WF_vars(RequestDue(tag))

-----------------------------------------------------------------------------
(* Properties.                                                             *)

Socket == [type : {"router", "dealer"}, id : ConnectionID]
Peer == [id : ConnectionID, conn_index : Nat, route : Route \cup {NoRoute}, idle : BOOLEAN]
Message == [to : ConnectionID, route : Route \cup {NoRoute}, o : SendOptions, tag : Tag \cup {NoTag}]

\* Every variable has its type.
TypeOK ==
  /\ at \in {"control", "send", "remove", "expire", "connects", "requests", "incoming", "top",
             "stopped", "hung"}
  /\ connections \in Seq(Socket) /\ conn_index_to_id \in Seq(ConnectionID)
  /\ peers \subseteq Peer
  /\ incoming_conn_index \subseteq [id : ListenerId, conn_index : Nat]
  /\ pending_connects \subseteq [id : RemoteId, conn_index : Nat, due : BOOLEAN]
  /\ pending_requests \subseteq [tag : Tag, due : BOOLEAN]
  /\ active_service_nodes \subseteq SN /\ target \subseteq SN
  /\ removing \subseteq SN /\ adding \subseteq SN
  /\ IF at = "send" THEN out \in Message ELSE at # "hung" => out = <<>>
  /\ queue_index \in Seq(Nat)
  /\ stale \in BOOLEAN /\ skip \in BOOLEAN /\ tick \in BOOLEAN /\ quitting \in BOOLEAN
  /\ own \in 0 .. CommandHWM
  /\ asked \subseteq Tag \cup RemoteId
  /\ called \in [Tag \cup RemoteId -> Seq({"success", "mixed_up", "failure", "reply", "error", "TIMEOUT"})]
  /\ inputs \in 0 .. MaxInputs

\* Every index leads to the socket it was made for, however many connections
\* were closed before it: that of a peer to its own outgoing connection or to a
\* listening socket, that of a pending connect to its connection, and
\* conn_index_to_id and incoming_conn_index to the socket of that id.
IndicesAgree ==
  at # "stopped" =>
    /\ Len(conn_index_to_id) = Len(connections)
    /\ \A i \in DOMAIN connections : conn_index_to_id[i] = connections[i].id
    /\ \A p \in peers : /\ p.conn_index \in DOMAIN connections
                        /\ IF outgoing(p)
                           THEN connections[p.conn_index] = [type |-> "dealer", id |-> p.id]
                           ELSE connections[p.conn_index].type = "router"
    /\ \A c \in pending_connects :
         /\ c.conn_index \in DOMAIN connections
         /\ connections[c.conn_index] = [type |-> "dealer", id |-> c.id]
    /\ \A l \in incoming_conn_index :
         /\ l.conn_index \in DOMAIN connections
         /\ connections[l.conn_index] = [type |-> "router", id |-> l.id]

\* No outgoing socket is left behind that no peer can reach or close, and no
\* service node or remote has two (proxy_connect_sn, proxy_send).
SocketsOwned ==
  at # "stopped" =>
    \A i \in DOMAIN connections :
      connections[i].type = "dealer" =>
        {p \in peers : outgoing(p) /\ p.id = connections[i].id}
          = {p \in peers : outgoing(p) /\ p.conn_index = i}
        /\ Cardinality({p \in peers : outgoing(p) /\ p.conn_index = i}) = 1

\* The places left in the round robin over the sockets are those of sockets: a
\* BYE in the middle of it, which moves them, ends it.
RoundRobinValid ==
  at = "incoming" => \A k \in DOMAIN queue_index : queue_index[k] \in DOMAIN connections

\* Once an update of the service nodes is done, they are the ones asked for, and
\* no other has an entry for incoming connections left.
OnlyActivePeers ==
  at \notin {"remove", "stopped"} =>
    /\ active_service_nodes = target
    /\ \A p \in peers : ~outgoing(p) => p.id \in active_service_nodes

\* The calls whose callback is still to come: the message is being sent, or a
\* reply or HELLO is waited for.
Awaited ==
  {r.tag : r \in pending_requests} \cup {c.id : c \in pending_connects}
    \cup (IF at \in {"send", "hung"} THEN {out.tag} \ {NoTag} ELSE {})

Promise == INSTANCE CallbackPromise
             WITH Request <- Tag, Connect <- RemoteId, waiting <- Awaited

\* The callback of a connect or a request is called once, whichever of reply,
\* error, HELLO, timeout and failed send comes first, with an outcome of its own;
\* no request is ever waiting for nothing, or forgotten without a call.
CallbacksKeepPromise == Promise!Spec

\* Every request gets its callback, by a reply or by a timeout, unless the proxy
\* quits (the comments on request() and on DEFAULT_REQUEST_TIMEOUT).
RequestAnswered == \A tag \in Tag : tag \in asked ~> called[tag] # <<>> \/ quitting

\* Every connect_remote() ends: one of its callbacks is called, or the connection
\* is gone without (disconnect() or BYE), or the proxy quits.
ConnectEnds ==
  \A id \in RemoteId : id \in asked ~> called[id] # <<>> \/ quitting \/ PeersOf(id) = {}
=============================================================================
