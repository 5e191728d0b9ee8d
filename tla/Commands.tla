------------------------------ MODULE Commands ------------------------------
(***************************************************************************)
(* Commands from registration to reply: the tables an application fills    *)
(* before start(), the ZAP decision on each incoming connection, the look- *)
(* up and the authorisation of each message that is not a built-in one,    *)
(* and the Message object through which a callback answers.                *)
(*                                                                         *)
(* The pool of WorkerPool is reduced to threads that are idle or run one   *)
(* command, without reserved places; what happens to the sockets is in     *)
(* Connections.  A message number stands for its content and for the reply *)
(* tag its sender made for it.                                             *)
(***************************************************************************)
EXTENDS Integers, Sequences, FiniteSets, Functions

CONSTANTS
  Category, Command,  \* parts of a full command name, before and after the dot
  Bare,               \* names without a dot, only of use as an alias
  TooLong,            \* names above the limit on the length of a command
  Categories, Commands, Aliases,  \* the arguments of registration calls
  LocalSN,            \* local_service_node
  MaxQueue,           \* max_queue of each category, negative for no limit
  Worker,             \* the pool threads
  Key, NoKey,         \* public keys, and the empty one
  Client, KeyOf,      \* remotes that connect to us, and the key each has
  Remote,             \* connections made with connect_remote
  Messages,           \* the names that are sent, each with or without data
  Allowed, Levels,    \* the values AllowFuncs and connect_remote calls give
  None,               \* no command, no session, no run, no tag
  MaxListeners, MaxMessages, MaxFlight  \* bounds

VARIABLES
  proxy_thread,       \* "none", or "running" once it is joinable
  bind,               \* for every listening address, whether it is a curve one
  categories,         \* category name -> Access
  commands,           \* full name -> whether it is a request command
  command_aliases,    \* name -> full name
  session,            \* what libzmq keeps about each accepted connection
  given,              \* history: the levels each identity was ever given
  active_service_nodes,
  peers,
  made,               \* the number of messages that were sent to us
  wire,               \* those that were not received yet, in order
  pending_commands,
  run,                \* run_info of each pool thread
  message,            \* the Message object of each pool thread
  busy,               \* the threads inside a callback
  later,              \* the DeferredSend objects
  event               \* history: what the last step decided or sent, if it did

setup == <<bind, categories, commands, command_aliases>>
conns == <<session, given, active_service_nodes, peers>>
net == <<made, wire>>
work == <<pending_commands, run, message, busy, later>>
vars == <<proxy_thread, setup, conns, net, work, event>>

FullName == Category \X Command
Name == FullName \union Bare

\* AuthLevel: the order of the enumerators is what < compares.
denied == 0
none == 1
basic == 2
admin == 3
to_string(a) == CASE a = denied -> "denied" [] a = none -> "none"
                  [] a = basic -> "basic" [] a = admin -> "admin"
                  [] OTHER -> "(unknown)"
auth_from_string(s) == CASE s = "none" -> none [] s = "basic" -> basic
                         [] s = "admin" -> admin [] OTHER -> denied
Access == [auth : denied..admin, remote_sn : BOOLEAN, local_sn : BOOLEAN]

Conn == [sn : BOOLEAN, who : Key \union Client \union Remote, bind : 0..MaxListeners]

\* Calls have the arguments their types allow: an AllowFunc may return any value
\* of the enumeration's underlying type.  A client is known by its connection, a
\* service node by its key, a remote by the id of its ConnectionID.
ASSUME CommandsAssumption ==
  /\ Categories \subseteq Category \X Access
  /\ Commands \subseteq FullName \X BOOLEAN
  /\ Aliases \subseteq Name \X FullName
  /\ Messages \subseteq Name \X BOOLEAN
  /\ LocalSN \in BOOLEAN
  /\ Allowed \subseteq Int /\ Levels \subseteq denied..admin
  /\ None \notin FullName /\ NoKey \notin Key
  /\ Key \intersect Remote = {} /\ Client \intersect (Key \union Remote) = {}
  /\ MaxListeners \in Nat /\ MaxMessages \in Nat

Init ==
  /\ proxy_thread = "none"
  /\ bind = <<>>
  /\ categories = <<>> /\ commands = <<>> /\ command_aliases = <<>>
  /\ session = [c \in Client |-> None]
  /\ given = [i \in Key \union Remote |-> {}]
  /\ active_service_nodes = {}
  /\ peers = {}
  /\ made = 0
  /\ wire = <<>>
  /\ pending_commands = <<>>
  /\ run = [w \in Worker |-> None]
  /\ message = [w \in Worker |-> [conn |-> None, access |-> None, reply_tag |-> None]]
  /\ busy = {}
  /\ later = {}
  /\ event = None

-----------------------------------------------------------------------------
\* Set-up.  Everything here throws after start(), and changes nothing then.

With(f, x, v) == [y \in DOMAIN f \union {x} |-> IF y = x THEN v ELSE f[y]]

add_category(c, access) ==
  /\ proxy_thread = "none"
  /\ c \notin DOMAIN categories
  /\ categories' = With(categories, c, access)
  /\ UNCHANGED <<proxy_thread, bind, commands, command_aliases, conns, net, work>>
  /\ event' = None

\* A variant without the look at the aliases.
add_command_unchecked(c, n, request) ==
  /\ proxy_thread = "none"
  /\ c \in DOMAIN categories
  /\ <<c, n>> \notin TooLong \union DOMAIN commands
  /\ commands' = With(commands, <<c, n>>, request)
  /\ UNCHANGED <<proxy_thread, bind, categories, command_aliases, conns, net, work>>
  /\ event' = None

add_command(c, n, request) ==
  /\ proxy_thread = "none"
  /\ c \in DOMAIN categories
  /\ <<c, n>> \notin TooLong \union DOMAIN command_aliases \union DOMAIN commands
  /\ commands' = With(commands, <<c, n>>, request)
  /\ UNCHANGED <<proxy_thread, bind, categories, command_aliases, conns, net, work>>
  /\ event' = None

add_command_alias(from, to) ==
  /\ proxy_thread = "none"
  /\ from \notin DOMAIN commands \union DOMAIN command_aliases
  /\ command_aliases' = With(command_aliases, from, to)
  /\ UNCHANGED <<proxy_thread, bind, categories, commands, conns, net, work>>
  /\ event' = None

listen(curve) ==
  /\ proxy_thread = "none"
  /\ Len(bind) < MaxListeners
  /\ bind' = Append(bind, curve)
  /\ UNCHANGED <<proxy_thread, categories, commands, command_aliases, conns, net, work>>
  /\ event' = None

start ==
  /\ proxy_thread = "none"
  /\ LocalSN => bind # <<>>
  /\ proxy_thread' = "running"
  /\ UNCHANGED <<setup, conns, net, work>>
  /\ event' = None

-----------------------------------------------------------------------------
\* Connections.  A ZAP request names the listener by its index and carries the
\* key of a curve client; allow is what the application's AllowFunc returns.
zap_status_unbounded(b, mechanism, key, allow) ==
  IF b > Len(bind) THEN "400"
  ELSE IF mechanism # (IF bind[b] THEN "CURVE" ELSE "NULL") THEN "500"
  ELSE IF bind[b] /\ key \notin Key THEN "500"
  ELSE IF allow <= denied THEN "400"
  ELSE "200"

zap_status(b, mechanism, key, allow) ==
  IF b > Len(bind) THEN "400"
  ELSE IF mechanism # (IF bind[b] THEN "CURVE" ELSE "NULL") THEN "500"
  ELSE IF bind[b] /\ key \notin Key THEN "500"
  ELSE IF allow <= denied \/ allow > admin THEN "400"
  ELSE "200"

\* With router_handover a connection that is accepted takes the place of the
\* one its client had; one that is refused changes nothing for us.
process_zap_requests(c, b, mechanism, key, allow) ==
  /\ proxy_thread = "running"
  /\ zap_status(b, mechanism, key, allow) = "200"
  /\ session' = [session EXCEPT ![c] =
       [bind |-> b, user_id |-> IF bind[b] THEN key ELSE NoKey,
        level |-> to_string(allow), allowed |-> allow]]
  /\ given' = IF bind[b] THEN [given EXCEPT ![key] = @ \union {allow}] ELSE given
  /\ UNCHANGED <<proxy_thread, setup, active_service_nodes, peers, net, work>>
  /\ event' = None

ClientGone(c) ==
  /\ session[c] # None
  /\ session' = [session EXCEPT ![c] = None]
  /\ UNCHANGED <<proxy_thread, setup, given, active_service_nodes, peers, net, work>>
  /\ event' = None

Outgoing(i) == {p \in peers : p.id = i /\ p.bind = 0}

connect_sn(k) ==
  /\ proxy_thread = "running" /\ Outgoing(k) = {}
  /\ peers' = peers \union
       {[id |-> k, bind |-> 0, route |-> k, auth_level |-> none, service_node |-> TRUE]}
  /\ given' = [given EXCEPT ![k] = @ \union {none}]
  /\ UNCHANGED <<proxy_thread, setup, session, active_service_nodes, net, work>>
  /\ event' = None

connect_remote(r, level) ==
  /\ proxy_thread = "running" /\ given[r] = {}
  /\ peers' = peers \union
       {[id |-> r, bind |-> 0, route |-> r, auth_level |-> level, service_node |-> FALSE]}
  /\ given' = [given EXCEPT ![r] = {level}]
  /\ UNCHANGED <<proxy_thread, setup, session, active_service_nodes, net, work>>
  /\ event' = None

CloseOutgoing(i) ==
  /\ Outgoing(i) # {}
  /\ peers' = peers \ Outgoing(i)
  /\ UNCHANGED <<proxy_thread, setup, session, given, active_service_nodes, net, work>>
  /\ event' = None

set_active_sns(sns) ==
  /\ proxy_thread = "running" /\ sns # active_service_nodes
  /\ active_service_nodes' = sns
  /\ peers' = {p \in peers : p.id \notin active_service_nodes \ sns}
  /\ UNCHANGED <<proxy_thread, setup, session, given, net, work>>
  /\ event' = None

-----------------------------------------------------------------------------
\* Messages.  One that a client sends carries the metadata of its session, and
\* here also the level that the session was really given.
Sent(from, b, meta, levels, name, tagged) ==
  /\ made < MaxMessages /\ Len(wire) < MaxFlight
  /\ made' = made + 1
  /\ wire' = Append(wire, [tag |-> made + 1, from |-> from, bind |-> b, meta |-> meta,
                           name |-> name, tagged |-> tagged, levels |-> levels, sn |-> FALSE])
  /\ UNCHANGED <<proxy_thread, setup, conns, work>>
  /\ event' = None

ClientSends(c, name, tagged) ==
  /\ session[c] # None
  /\ Sent(c, session[c].bind, session[c], {session[c].allowed}, name, tagged)

RemoteSends(i, name, tagged) ==
  /\ Outgoing(i) # {}
  /\ Sent(i, 0, None, {}, name, tagged)

extract_metadata(meta) == [pubkey |-> meta.user_id, auth |-> auth_from_string(meta.level)]

\* The full name of the command that a received name stands for, or None.
get_command(name) ==
  LET full == IF name \in DOMAIN command_aliases THEN command_aliases[name] ELSE name
  IN  IF name \in TooLong \/ full \notin DOMAIN commands THEN None ELSE full

Check(peer, access, request, tagged) ==
  IF peer.auth_level < access.auth THEN "FORBIDDEN"
  ELSE IF access.local_sn /\ ~LocalSN THEN "NOT_A_SERVICE_NODE"
  ELSE IF access.remote_sn /\ ~peer.service_node THEN "FORBIDDEN_SN"
  ELSE IF request /\ ~tagged THEN "NO_REPLY_TAG"
  ELSE "ok"

proxy_check_auth(peer, cmd, tagged) ==
  IF cmd = None THEN "UNKNOWNCOMMAND"
  ELSE Check(peer, categories[cmd[1]], commands[cmd], tagged)

KnownAs(p) == {q \in peers : q.id = p.id /\ q.bind = p.bind /\ q.route = p.route}

\* A variant that leaves the level of an entry as it was first seen.
PeerOfFirst(l) ==
  LET meta == extract_metadata(l.meta)
      p == [id |-> meta.pubkey, bind |-> l.bind, route |-> l.from, auth_level |-> meta.auth,
            service_node |-> meta.pubkey \in active_service_nodes]
  IN  IF p.service_node /\ KnownAs(p) # {} THEN CHOOSE q \in KnownAs(p) : TRUE ELSE p

\* The entry of a client that is a service node has the level of its latest message.
PeerOf(l) ==
  LET meta == extract_metadata(l.meta)
  IN  [id |-> meta.pubkey, bind |-> l.bind, route |-> l.from, auth_level |-> meta.auth,
       service_node |-> meta.pubkey \in active_service_nodes]

ConnOf(peer, l) == IF peer.service_node THEN [sn |-> TRUE, who |-> peer.id, bind |-> 0]
                   ELSE [sn |-> FALSE, who |-> l.from, bind |-> l.bind]

Idle == {w \in Worker : run[w] = None}
Queued(c) == Len(SelectSeq(pending_commands, LAMBDA r : r.cmd[1] = c))

Event(what, l, to, tag) == event' = [what |-> what, about |-> l, to |-> to, tag |-> tag]

\* What becomes of message l once its sender is known to be peer.
Handle(l, peer) ==
  LET cmd == get_command(l.name)
      verdict == proxy_check_auth(peer, cmd, l.tagged)
      full == MaxQueue[cmd[1]] >= 0 /\ Queued(cmd[1]) >= MaxQueue[cmd[1]]
      r == [about |-> l, cmd |-> cmd, conn |-> ConnOf(peer, l),
            access |-> [auth |-> peer.auth_level, remote_sn |-> peer.service_node,
                        local_sn |-> LocalSN]]
  IN  \/ /\ verdict # "ok"
         /\ Event(verdict, l, [sn |-> FALSE, who |-> l.from, bind |-> l.bind],
                  IF cmd # None /\ commands[cmd] /\ l.tagged THEN l.tag ELSE None)
         /\ UNCHANGED work
      \/ /\ verdict = "ok" /\ Idle # {}
         /\ \E w \in Idle : run' = [run EXCEPT ![w] = r]
         /\ Event("taken", l, None, None)
         /\ UNCHANGED <<pending_commands, message, busy, later>>
      \/ /\ verdict = "ok" /\ Idle = {} /\ ~full
         /\ pending_commands' = Append(pending_commands, r)
         /\ Event("taken", l, None, None)
         /\ UNCHANGED <<run, message, busy, later>>
      \/ /\ verdict = "ok" /\ Idle = {} /\ full
         /\ Event("dropped", l, None, None)
         /\ UNCHANGED work

\* Each connection delivers in order.
Receive(i) ==
  /\ \A j \in 1..(i-1) : wire[j].from # wire[i].from
  /\ wire' = SubSeq(wire, 1, i - 1) \o SubSeq(wire, i + 1, Len(wire))
  /\ made' = made

proxy_to_worker_incoming(i) ==
  /\ wire[i].from \in Client
  /\ Receive(i)
  /\ LET p == PeerOf(wire[i])
     IN  /\ Handle([wire[i] EXCEPT !.sn = wire[i].meta.user_id \in active_service_nodes], p)
         /\ peers' = IF p.service_node THEN (peers \ KnownAs(p)) \union {p} ELSE peers
  /\ UNCHANGED <<proxy_thread, setup, session, given, active_service_nodes>>

\* peers.find of a service node gives any one of its entries, one of an incoming
\* connection included.
proxy_to_worker_outgoing(i) ==
  /\ Outgoing(wire[i].from) # {}
  /\ Receive(i)
  /\ \E p \in peers :
       /\ p.id = wire[i].from
       /\ Handle([wire[i] EXCEPT !.sn = (p.id \in Key), !.levels = given[p.id]], p)
  /\ UNCHANGED <<proxy_thread, setup, conns>>

proxy_process_queue ==
  /\ pending_commands # <<>>
  /\ \E w \in Idle : run' = [run EXCEPT ![w] = Head(pending_commands)]
  /\ pending_commands' = Tail(pending_commands)
  /\ UNCHANGED <<proxy_thread, setup, conns, net, message, busy, later>>
  /\ event' = None

-----------------------------------------------------------------------------
\* The worker's side.  Its Message object is used again for every command.
LoadMessageOnce(old, r) ==
  [conn |-> r.conn, access |-> r.access,
   reply_tag |-> IF commands[r.cmd] /\ old.reply_tag = None THEN r.about.tag ELSE old.reply_tag]

LoadMessage(old, r) ==
  [conn |-> r.conn, access |-> r.access,
   reply_tag |-> IF commands[r.cmd] THEN r.about.tag ELSE old.reply_tag]

worker_thread(w) ==
  /\ run[w] # None /\ w \notin busy
  /\ busy' = busy \union {w}
  /\ message' = [message EXCEPT ![w] = LoadMessage(@, run[w])]
  /\ UNCHANGED <<proxy_thread, setup, conns, net, pending_commands, run, later>>
  /\ event' = None

send_reply(w) ==
  /\ w \in busy /\ commands[run[w].cmd]
  /\ Event("REPLY", run[w].about, message[w].conn, message[w].reply_tag)
  /\ UNCHANGED <<proxy_thread, setup, conns, net, work>>

send_back(w) ==
  /\ w \in busy
  /\ Event("back", run[w].about, message[w].conn, None)
  /\ UNCHANGED <<proxy_thread, setup, conns, net, work>>

\* A DeferredSend copies the connection and the tag.
send_later(w) ==
  /\ w \in busy
  /\ later' = later \union {[conn |-> message[w].conn, reply_tag |-> message[w].reply_tag,
                             about |-> run[w].about, request |-> commands[run[w].cmd]]}
  /\ UNCHANGED <<proxy_thread, setup, conns, net, pending_commands, run, message, busy>>
  /\ event' = None

Returned(w) ==
  /\ w \in busy
  /\ busy' = busy \ {w}
  /\ run' = [run EXCEPT ![w] = None]
  /\ UNCHANGED <<proxy_thread, setup, conns, net, pending_commands, message, later>>
  /\ event' = None

DeferredReply(d) ==
  /\ d.request
  /\ Event("REPLY", d.about, d.conn, d.reply_tag)
  /\ UNCHANGED <<proxy_thread, setup, conns, net, work>>

DeferredBack(d) ==
  /\ Event("back", d.about, d.conn, None)
  /\ UNCHANGED <<proxy_thread, setup, conns, net, work>>

Next ==
  \/ \E c \in Categories : add_category(c[1], c[2])
  \/ \E n \in Commands : add_command(n[1][1], n[1][2], n[2])
  \/ \E al \in Aliases : add_command_alias(al[1], al[2])
  \/ \E curve \in BOOLEAN : listen(curve)
  \/ start
  \/ \E c \in Client, b \in 1..MaxListeners, mechanism \in {"CURVE", "NULL"}, allow \in Allowed :
       process_zap_requests(c, b, mechanism, KeyOf[c], allow)
  \/ \E c \in Client : ClientGone(c)
  \/ \E k \in Key : connect_sn(k)
  \/ \E r \in Remote, level \in Levels : connect_remote(r, level)
  \/ \E i \in Key \union Remote : CloseOutgoing(i)
  \/ \E sns \in SUBSET Key : set_active_sns(sns)
  \/ \E c \in Client, msg \in Messages : ClientSends(c, msg[1], msg[2])
  \/ \E i \in Key \union Remote, msg \in Messages : RemoteSends(i, msg[1], msg[2])
  \/ \E i \in DOMAIN wire : proxy_to_worker_incoming(i) \/ proxy_to_worker_outgoing(i)
  \/ proxy_process_queue
  \/ \E w \in Worker : worker_thread(w) \/ send_reply(w) \/ send_back(w) \/ send_later(w)
                       \/ Returned(w)
  \/ \E d \in later : DeferredReply(d) \/ DeferredBack(d)

Spec == Init /\ [][Next]_vars

-----------------------------------------------------------------------------
\* TypeOK: the tables, sessions, entries, runs and Message objects have the
\* shape the code gives them; every registered command has its category, and
\* every service node entry is one of a key.
TypeOK ==
  /\ proxy_thread \in {"none", "running"}
  /\ bind \in Seq(BOOLEAN) /\ Len(bind) <= MaxListeners
  /\ DOMAIN categories \subseteq Category /\ Range(categories) \subseteq Access
  /\ DOMAIN commands \subseteq FullName /\ Range(commands) \subseteq BOOLEAN
  /\ \A n \in DOMAIN commands : n[1] \in DOMAIN categories
  /\ DOMAIN command_aliases \subseteq Name /\ Range(command_aliases) \subseteq FullName
  /\ active_service_nodes \subseteq Key
  /\ \A p \in peers : /\ p.id \in Key \union Remote /\ p.bind \in 0..Len(bind)
                      /\ p.auth_level \in (IF p.id \in Key THEN none ELSE denied)..admin
                      /\ p.service_node = (p.id \in Key)
  /\ \A r \in Range(pending_commands) \union {run[w] : w \in Worker \ Idle} :
       r.cmd \in DOMAIN commands /\ r.conn \in Conn /\ r.access \in Access
  /\ busy \intersect Idle = {}

\* What a name means to the application that registered it: a command of that
\* name, or else the one an alias of that name leads to.
Meaning(name) ==
  IF name \in TooLong THEN None
  ELSE IF name \in DOMAIN commands THEN name
  ELSE IF name \in DOMAIN command_aliases /\ command_aliases[name] \in DOMAIN commands
       THEN command_aliases[name] ELSE None

Entitled(level, l, access) ==
  level >= access.auth /\ (access.remote_sn => l.sn) /\ (access.local_sn => LocalSN)

\* AccessDecisions: however registration calls, connections, handovers, changes
\* of the active service nodes and messages follow each other, a command gets
\* to the application only under the name it was registered for, and from a
\* sender with the level its AllowFunc (or connect_remote) gave it and the
\* service node status its category asks for; nobody who has these is refused
\* (proxy_to_worker, proxy_check_auth, get_command).
AccessDecisions ==
  event # None =>
    LET l == event.about
        cmd == Meaning(l.name)
        access == categories[cmd[1]]
    IN  /\ event.what \in {"taken", "dropped"} =>
             /\ cmd # None /\ (commands[cmd] => l.tagged)
             /\ \E level \in l.levels : Entitled(level, l, access)
        /\ event.what = "UNKNOWNCOMMAND" => cmd = None
        /\ event.what \in {"FORBIDDEN", "FORBIDDEN_SN", "NOT_A_SERVICE_NODE"} =>
             /\ cmd # None
             /\ \E level \in l.levels : ~Entitled(level, l, access)

\* AccessAtArrival: what a callback is told about its caller (Message::access,
\* Message::conn) is what held when the message was received, though the command
\* may have waited in pending_commands while levels and service nodes changed.
AccessAtArrival ==
  /\ \A r \in Range(pending_commands) \union {run[w] : w \in Worker \ Idle} :
       /\ r.cmd = Meaning(r.about.name)
       /\ r.access.auth \in r.about.levels
       /\ r.access.remote_sn = r.about.sn
  /\ \A w \in busy : message[w].access = run[w].access /\ message[w].conn = run[w].conn

Reaches(conn, l) ==
  IF conn.sn THEN conn.who = (IF l.from \in Client THEN l.meta.user_id ELSE l.from)
             ELSE conn.who = l.from /\ conn.bind = l.bind

\* RepliesToAsker: a refusal, a reply and a message sent back - at once or by a
\* DeferredSend that outlives the callback and its Message - go to the sender of
\* the command they are about, with the tag of that very request; a refused
\* request is told its tag unless the command is unknown.
RepliesToAsker ==
  event # None /\ event.what \notin {"taken", "dropped"} =>
    LET l == event.about
        cmd == Meaning(l.name)
    IN  /\ Reaches(event.to, l)
        /\ event.what # "back" =>
             event.tag = IF cmd # None /\ commands[cmd] /\ l.tagged THEN l.tag ELSE None
=============================================================================
