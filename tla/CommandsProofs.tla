--------------------------- MODULE CommandsProofs ---------------------------
(***************************************************************************)
(* Proofs about Commands, for any registrations, listeners, levels, keys   *)
(* and messages: who gets a command run, what the callback is told about   *)
(* its caller, and where refusals and replies go.                          *)
(***************************************************************************)
EXTENDS Commands, TLAPS

\* The order in which the provers are tried.
USE ZenonT(2), SMTT(20)

Session == [bind : 1..MaxListeners, user_id : Key \union {NoKey},
            level : {"none", "basic", "admin"}, allowed : none..admin]

Letter == [tag : Nat, from : Client \union Key \union Remote, bind : 0..MaxListeners,
           meta : Session \union {None}, name : Name, tagged : BOOLEAN, levels : SUBSET Int,
           sn : BOOLEAN]

Run == [about : Letter, cmd : FullName, conn : Conn, access : Access]

Runs == Range(pending_commands) \union {run[w] : w \in Worker \ Idle}

\* The tables are functions on the names registered so far, with every command in
\* a category, and no name is both a command and an alias.
TablesInv ==
  /\ proxy_thread \in {"none", "running"}
  /\ bind \in Seq(BOOLEAN) /\ Len(bind) <= MaxListeners
  /\ DOMAIN categories \subseteq Category /\ \A c \in DOMAIN categories : categories[c] \in Access
  /\ DOMAIN commands \subseteq FullName /\ \A n \in DOMAIN commands : commands[n] \in BOOLEAN
  /\ \A n \in DOMAIN commands : n[1] \in DOMAIN categories
  /\ DOMAIN command_aliases \subseteq Name
  /\ \A n \in DOMAIN command_aliases : command_aliases[n] \in FullName
  /\ DOMAIN commands \intersect DOMAIN command_aliases = {}

\* Nothing has come in before start(), so that the tables do not change under what
\* was decided from them.
SetupInv ==
  proxy_thread # "running" =>
    /\ Runs = {} /\ later = {} /\ busy = {} /\ event = None
    /\ peers = {} /\ wire = <<>> /\ \A c \in Client : session[c] = None

\* The metadata that libzmq keeps for a session names the level that was allowed,
\* which was given to the key if there is one.
SessionOK(s, listeners, levels) ==
  /\ s \in Session /\ s.bind <= listeners
  /\ s.level = to_string(s.allowed)
  /\ s.user_id \in Key => s.allowed \in levels[s.user_id]

LetterOK(l, listeners, levels) ==
  /\ l \in Letter /\ l.bind <= listeners
  /\ l.from \in Client =>
       SessionOK(l.meta, listeners, levels) /\ l.levels = {l.meta.allowed}

\* Sessions, messages on the way and entries of peers have a level that was given;
\* only the connections of service nodes have entries, and those that we made.
ConnsInv ==
  /\ DOMAIN session = Client /\ given \in [Key \union Remote -> SUBSET Int]
  /\ active_service_nodes \subseteq Key
  /\ \A c \in Client : session[c] # None => SessionOK(session[c], Len(bind), given)
  /\ wire \in Seq(Letter) /\ \A i \in DOMAIN wire : LetterOK(wire[i], Len(bind), given)
  /\ made \in Nat

PeerOK(p, listeners, levels) ==
  /\ p.id \in Key \union Remote /\ p.bind \in 0..listeners
  /\ p.auth_level \in (IF p.id \in Key THEN none ELSE denied)..admin
  /\ p.auth_level \in levels[p.id]
  /\ p.service_node = (p.id \in Key)

PeersInv == \A p \in peers : PeerOK(p, Len(bind), given)

\* What was decided on arrival: the command, a level and status its sender had, the
\* way back, and the tag that a request needs.
Decided(r) ==
  /\ r \in Run
  /\ r.cmd \in DOMAIN commands /\ r.cmd = Meaning(r.about.name)
  /\ r.access.auth \in r.about.levels
  /\ r.access.remote_sn = r.about.sn
  /\ Reaches(r.conn, r.about)
  /\ commands[r.cmd] => r.about.tagged

Promised(d) ==
  /\ Reaches(d.conn, d.about)
  /\ d.request =>
       /\ Meaning(d.about.name) # None /\ commands[Meaning(d.about.name)]
       /\ d.about.tagged /\ d.reply_tag = d.about.tag

WorkInv ==
  /\ pending_commands \in Seq(Run)
  /\ DOMAIN run = Worker /\ DOMAIN message = Worker /\ busy \subseteq Worker
  /\ \A r \in Runs : Decided(r)
  /\ \A w \in busy :
       /\ run[w] # None
       /\ message[w].conn = run[w].conn /\ message[w].access = run[w].access
       /\ commands[run[w].cmd] => message[w].reply_tag = run[w].about.tag
  /\ \A d \in later : Promised(d)

EventInv == AccessDecisions /\ RepliesToAsker

\* The inductive invariant.
CommandInv == TablesInv /\ SetupInv /\ ConnsInv /\ PeersInv /\ WorkInv /\ EventInv

\* It is stronger than what the runs check.
LEMMA CommandInvImplies == CommandInv => TypeOK /\ AccessAtArrival /\ EventInv
<1> SUFFICES ASSUME CommandInv
             PROVE  TypeOK /\ AccessAtArrival
  BY DEF CommandInv
<1>1. \A r \in Range(pending_commands) \union {run[w] : w \in Worker \ Idle} : Decided(r)
  BY DEF CommandInv, WorkInv, Runs
<1>2. \A r : Decided(r) => r.conn \in Conn /\ r.access \in Access /\ r.cmd \in DOMAIN commands
  BY DEF Decided, Run
<1>3. busy \intersect Idle = {}
  BY DEF CommandInv, WorkInv, Idle
<1>4. /\ Range(categories) \subseteq Access /\ Range(commands) \subseteq BOOLEAN
      /\ Range(command_aliases) \subseteq FullName
  BY DEF CommandInv, TablesInv, Range
<1>5. TypeOK
  BY <1>1, <1>2, <1>3, <1>4 DEF CommandInv, TablesInv, ConnsInv, PeersInv, PeerOK, TypeOK
<1>6. AccessAtArrival
  BY <1>1 DEF CommandInv, WorkInv, Decided, AccessAtArrival
<1> QED
  BY <1>5, <1>6

\* At first there is nothing, and nothing can have been decided.
LEMMA InitCommand == Init => CommandInv
<1> SUFFICES ASSUME Init
             PROVE  CommandInv
  OBVIOUS
<1> USE DEF Init
<1>1. Runs = {}
  BY DEF Runs, Range, Idle
<1>2. TablesInv
  <2>1. <<>> \in Seq(BOOLEAN) /\ Len(<<>>) <= MaxListeners /\ DOMAIN <<>> = {}
    BY CommandsAssumption
  <2> QED
    BY <2>1 DEF TablesInv
<1>3. ConnsInv /\ PeersInv
  BY DEF ConnsInv, PeersInv
<1>4. WorkInv
  BY <1>1 DEF WorkInv
<1> QED
  BY <1>1, <1>2, <1>3, <1>4 DEF CommandInv, SetupInv, EventInv, AccessDecisions, RepliesToAsker

-----------------------------------------------------------------------------
(* What steps leave alone *)

\* A step that decides and sends nothing.
LEMMA NoEvent == event' = None => EventInv'
BY DEF EventInv, AccessDecisions, RepliesToAsker

\* Registration is over before anything that depends on it is there.
LEMMA SetupStep ==
  ASSUME CommandInv, proxy_thread = "none", UNCHANGED <<conns, net, work>>, event' = None
  PROVE  SetupInv' /\ ConnsInv' /\ PeersInv' /\ WorkInv' /\ EventInv'
<1>1. /\ Runs = {} /\ later = {} /\ busy = {} /\ peers = {} /\ wire = <<>>
      /\ \A c \in Client : session[c] = None
  BY DEF CommandInv, SetupInv
<1>2. Runs' = {}
  BY <1>1 DEF work, Runs, Idle, Range
<1>3. UNCHANGED <<session, given, active_service_nodes, peers, made, wire, pending_commands,
                  run, message, busy, later>>
  BY DEF conns, net, work
<1>4. SetupInv'
  BY <1>1, <1>2, <1>3 DEF SetupInv
<1>5. ConnsInv' /\ PeersInv'
  BY <1>1, <1>3 DEF CommandInv, ConnsInv, PeersInv
<1>6. WorkInv'
  BY <1>1, <1>2, <1>3 DEF CommandInv, WorkInv
<1> QED
  BY <1>4, <1>5, <1>6, NoEvent

\* What was decided stays as it was while the tables do.
LEMMA DecidedStays ==
  ASSUME UNCHANGED setup, NEW r
  PROVE  /\ Decided(r) => Decided(r)'
         /\ Promised(r) => Promised(r)'
BY DEF setup, Decided, Promised, Meaning, Reaches

\* What is queued, runs and waits stays promised while the tables do.
LEMMA WorkStays ==
  ASSUME WorkInv, UNCHANGED <<setup, work>>
  PROVE  WorkInv'
<1>1. Runs' = Runs
  BY DEF work, Runs, Idle, Range
<1> QED
  BY <1>1, DecidedStays DEF work, setup, WorkInv

\* A level that was given is not taken back.
LEMMA LevelStays ==
  ASSUME NEW n, NEW g, NEW h, \A i \in Key \union Remote : g[i] \subseteq h[i]
  PROVE  /\ \A s : SessionOK(s, n, g) => SessionOK(s, n, h)
         /\ \A l : LetterOK(l, n, g) => LetterOK(l, n, h)
         /\ \A p : PeerOK(p, n, g) => PeerOK(p, n, h)
BY DEF SessionOK, LetterOK, Session, PeerOK

\* A step of the connections or of the senders, after start().
LEMMA ConnsStep ==
  ASSUME CommandInv, proxy_thread = "running",
         UNCHANGED <<proxy_thread, setup, work>>, event' = None
  PROVE  TablesInv' /\ SetupInv' /\ WorkInv' /\ EventInv'
<1>1. TablesInv'
  BY DEF CommandInv, TablesInv, setup
<1>2. WorkInv'
  BY WorkStays DEF CommandInv
<1> QED
  BY <1>1, <1>2, NoEvent DEF SetupInv

-----------------------------------------------------------------------------
(* Set-up *)

\* Every registration leaves the tables well formed, because add_command and
\* add_command_alias refuse a name that the other one has.
LEMMA SetupActions ==
  ASSUME CommandInv,
         \/ \E c \in Categories : add_category(c[1], c[2])
         \/ \E n \in Commands : add_command(n[1][1], n[1][2], n[2])
         \/ \E al \in Aliases : add_command_alias(al[1], al[2])
         \/ \E curve \in BOOLEAN : listen(curve)
         \/ start
  PROVE  CommandInv'
<1>0. /\ proxy_thread = "none" /\ UNCHANGED <<conns, net, work>> /\ event' = None
      /\ TablesInv
  BY DEF CommandInv, add_category, add_command, add_command_alias, listen, start
<1>1. ASSUME NEW c \in Categories, add_category(c[1], c[2])
      PROVE  TablesInv'
  <2>1. c[1] \in Category /\ c[2] \in Access
    BY CommandsAssumption
  <2> QED
    BY <1>0, <1>1, <2>1 DEF TablesInv, add_category, With
<1>2. ASSUME NEW n \in Commands, add_command(n[1][1], n[1][2], n[2])
      PROVE  TablesInv'
  <2>1. n[1][1] \in Category /\ n[1][2] \in Command /\ n[2] \in BOOLEAN
    BY CommandsAssumption DEF FullName
  <2>2. <<n[1][1], n[1][2]>> \in FullName /\ <<n[1][1], n[1][2]>>[1] = n[1][1]
    BY <2>1 DEF FullName
  <2> QED
    BY <1>0, <1>2, <2>1, <2>2 DEF TablesInv, add_command, With
<1>3. ASSUME NEW al \in Aliases, add_command_alias(al[1], al[2])
      PROVE  TablesInv'
  <2>1. al[1] \in Name /\ al[2] \in FullName
    BY CommandsAssumption
  <2> QED
    BY <1>0, <1>3, <2>1 DEF TablesInv, add_command_alias, With
<1>4. ASSUME NEW curve \in BOOLEAN, listen(curve)
      PROVE  TablesInv'
  <2>1. bind' \in Seq(BOOLEAN) /\ Len(bind') = Len(bind) + 1
    BY <1>0, <1>4 DEF TablesInv, listen
  <2>2. Len(bind') <= MaxListeners
    BY <1>0, <1>4, <2>1, CommandsAssumption DEF TablesInv, listen
  <2> QED
    BY <1>0, <1>4, <2>1, <2>2 DEF TablesInv, listen
<1>5. ASSUME start
      PROVE  TablesInv'
  BY <1>0, <1>5 DEF TablesInv, start, setup
<1>6. TablesInv'
  BY <1>1, <1>2, <1>3, <1>4, <1>5
<1> QED
  BY <1>0, <1>6, SetupStep DEF CommandInv

-----------------------------------------------------------------------------
(* Connections *)

\* The level that ZAP sends to libzmq as text is read back as the same level.
LEMMA LevelText ==
  ASSUME NEW a \in none..admin
  PROVE  auth_from_string(to_string(a)) = a /\ to_string(a) \in {"none", "basic", "admin"}
<1> USE DEF denied, none, basic, admin
<1>1. a = 1 \/ a = 2 \/ a = 3
  OBVIOUS
<1>2. /\ a = 1 => to_string(a) = "none"
      /\ a = 2 => to_string(a) = "basic"
      /\ a = 3 => to_string(a) = "admin"
  BY DEF to_string
<1>3. /\ auth_from_string("none") = 1
      /\ auth_from_string("basic") = 2
      /\ auth_from_string("admin") = 3
  BY DEF auth_from_string
<1> QED
  BY <1>1, <1>2, <1>3

\* A client that ZAP lets in has a session with the level that Allow gave its key.
LEMMA ZapStep ==
  ASSUME CommandInv, NEW c \in Client, NEW b \in 1..MaxListeners, NEW mechanism, NEW key,
         NEW allow \in Allowed, process_zap_requests(c, b, mechanism, key, allow)
  PROVE  CommandInv'
<1>0. TablesInv /\ ConnsInv /\ PeersInv
  BY DEF CommandInv
<1>1. /\ b <= Len(bind) /\ (bind[b] => key \in Key)
      /\ allow \in none..admin
  <2>1. Len(bind) \in Nat /\ allow \in Int
    BY <1>0, CommandsAssumption DEF TablesInv
  <2> QED
    BY <2>1, CommandsAssumption DEF process_zap_requests, zap_status, denied, none, admin
<1> DEFINE s == [bind |-> b, user_id |-> IF bind[b] THEN key ELSE NoKey,
                 level |-> to_string(allow), allowed |-> allow]
<1>2. /\ session' = [session EXCEPT ![c] = s]
      /\ given' = IF bind[b] THEN [given EXCEPT ![key] = @ \union {allow}] ELSE given
      /\ UNCHANGED <<proxy_thread, setup, active_service_nodes, peers, net, work>>
      /\ proxy_thread = "running" /\ event' = None
  BY DEF process_zap_requests
<1>3. /\ given' \in [Key \union Remote -> SUBSET Int]
      /\ \A i \in Key \union Remote : given[i] \subseteq given'[i]
      /\ bind[b] => allow \in given'[key]
  BY <1>0, <1>1, <1>2 DEF ConnsInv, none, admin
<1>4. SessionOK(s, Len(bind), given')
  <2>1. s \in Session
    BY <1>1, LevelText DEF Session
  <2>2. s.user_id \in Key => s.allowed \in given'[s.user_id]
    BY <1>3, CommandsAssumption
  <2> QED
    BY <1>1, <2>1, <2>2 DEF SessionOK
<1>5. UNCHANGED bind
  BY <1>2 DEF setup
<1>6. /\ \A d : SessionOK(d, Len(bind), given) => SessionOK(d, Len(bind), given')
      /\ \A l : LetterOK(l, Len(bind), given) => LetterOK(l, Len(bind), given')
      /\ \A p : PeerOK(p, Len(bind), given) => PeerOK(p, Len(bind), given')
  BY <1>3, LevelStays
<1> HIDE DEF s
<1>7. ConnsInv'
  BY <1>0, <1>2, <1>3, <1>4, <1>5, <1>6 DEF ConnsInv, net
<1>8. PeersInv'
  BY <1>0, <1>2, <1>5, <1>6 DEF PeersInv
<1> QED
  BY <1>2, <1>7, <1>8, ConnsStep DEF CommandInv

\* Membership as a value.
LEMMA NotIn == ASSUME NEW S, NEW x, x \notin S PROVE (x \in S) = FALSE
OBVIOUS

\* Sessions that end, connections of our own and changes of the active service
\* nodes leave every entry with a level that was given.
LEMMA PeerSteps ==
  ASSUME CommandInv,
         \/ \E c \in Client : ClientGone(c)
         \/ \E k \in Key : connect_sn(k)
         \/ \E r \in Remote, level \in Levels : connect_remote(r, level)
         \/ \E i \in Key \union Remote : CloseOutgoing(i)
         \/ \E sns \in SUBSET Key : set_active_sns(sns)
  PROVE  CommandInv'
<1>0. /\ TablesInv /\ SetupInv /\ ConnsInv /\ PeersInv
      /\ UNCHANGED <<proxy_thread, setup, work>> /\ event' = None
      /\ UNCHANGED <<bind, made, wire>>
  BY DEF CommandInv, ClientGone, connect_sn, connect_remote, CloseOutgoing, set_active_sns,
         setup, net
<1>1. proxy_thread = "running"
  BY <1>0 DEF SetupInv, ClientGone, connect_sn, connect_remote, CloseOutgoing, Outgoing,
              set_active_sns
<1>2. ASSUME NEW c \in Client, ClientGone(c)
      PROVE  ConnsInv' /\ PeersInv'
  BY <1>0, <1>2 DEF ConnsInv, PeersInv, ClientGone
<1>3. ASSUME NEW k \in Key, connect_sn(k)
      PROVE  ConnsInv' /\ PeersInv'
  <2>1. /\ given' = [given EXCEPT ![k] = @ \union {none}]
        /\ UNCHANGED <<session, active_service_nodes>>
    BY <1>3 DEF connect_sn
  <2>2. /\ given' \in [Key \union Remote -> SUBSET Int]
        /\ \A i \in Key \union Remote : given[i] \subseteq given'[i]
    BY <1>0, <2>1 DEF ConnsInv, none
  <2>3. /\ \A s : SessionOK(s, Len(bind), given) => SessionOK(s, Len(bind), given')
        /\ \A l : LetterOK(l, Len(bind), given) => LetterOK(l, Len(bind), given')
    BY <2>2, LevelStays
  <2>4. ConnsInv'
    BY <1>0, <2>1, <2>2, <2>3 DEF ConnsInv
  <2>5. none \in given'[k] /\ none \in none..admin /\ 0 \in 0..Len(bind')
    BY <1>0, <2>1 DEF ConnsInv, TablesInv, none, admin
  <2>6. PeersInv'
    <3> DEFINE new == [id |-> k, bind |-> 0, route |-> k, auth_level |-> none,
                       service_node |-> TRUE]
    <3>1. \A p \in peers' : p \in peers \/ p = new
      BY <1>3 DEF connect_sn
    <3>2. PeerOK(new, Len(bind), given')
      BY <1>0, <2>5 DEF PeerOK
    <3>3. \A p \in peers : PeerOK(p, Len(bind), given')
      BY <1>0, <2>2, LevelStays DEF PeersInv
    <3> HIDE DEF new
    <3> QED
      BY <1>0, <3>1, <3>2, <3>3 DEF PeersInv
  <2> QED
    BY <2>4, <2>6
<1>4. ASSUME NEW r \in Remote, NEW level \in Levels, connect_remote(r, level)
      PROVE  ConnsInv' /\ PeersInv'
  <2>1. /\ given' = [given EXCEPT ![r] = {level}] /\ given[r] = {}
        /\ UNCHANGED <<session, active_service_nodes>>
    BY <1>4 DEF connect_remote
  <2>2. /\ given' \in [Key \union Remote -> SUBSET Int]
        /\ \A i \in Key \union Remote : given[i] \subseteq given'[i]
    BY <1>0, <2>1, CommandsAssumption DEF ConnsInv, denied, admin
  <2>3. /\ \A s : SessionOK(s, Len(bind), given) => SessionOK(s, Len(bind), given')
        /\ \A l : LetterOK(l, Len(bind), given) => LetterOK(l, Len(bind), given')
    BY <2>2, LevelStays
  <2>4. ConnsInv'
    BY <1>0, <2>1, <2>2, <2>3 DEF ConnsInv
  <2>5. level \in given'[r] /\ level \in denied..admin /\ 0 \in 0..Len(bind') /\ r \notin Key
    BY <1>0, <2>1, CommandsAssumption DEF ConnsInv, TablesInv
  <2>6. PeersInv'
    <3> DEFINE new == [id |-> r, bind |-> 0, route |-> r, auth_level |-> level,
                       service_node |-> FALSE]
    <3>1. \A p \in peers' : p \in peers \/ p = new
      BY <1>4 DEF connect_remote
    <3>2. PeerOK(new, Len(bind), given')
      <4>0. (r \in Key) = FALSE
        BY <2>5, NotIn
      <4>1. /\ new.id = r /\ new.bind = 0 /\ new.auth_level = level
            /\ new.service_node = FALSE
        OBVIOUS
      <4>2. (IF r \in Key THEN none ELSE denied) = denied
        BY <2>5
      <4> HIDE DEF new
      <4> QED
        BY <1>0, <2>5, <4>0, <4>1, <4>2 DEF PeerOK
    <3>3. \A p \in peers : PeerOK(p, Len(bind), given')
      BY <1>0, <2>2, LevelStays DEF PeersInv
    <3> HIDE DEF new
    <3> QED
      BY <1>0, <3>1, <3>2, <3>3 DEF PeersInv
  <2> QED
    BY <2>4, <2>6
<1>5. ASSUME NEW i \in Key \union Remote, CloseOutgoing(i)
      PROVE  ConnsInv' /\ PeersInv'
  BY <1>0, <1>5 DEF ConnsInv, PeersInv, CloseOutgoing
<1>6. ASSUME NEW sns \in SUBSET Key, set_active_sns(sns)
      PROVE  ConnsInv' /\ PeersInv'
  BY <1>0, <1>6 DEF ConnsInv, PeersInv, set_active_sns
<1>7. ConnsInv' /\ PeersInv'
  BY <1>2, <1>3, <1>4, <1>5, <1>6
<1> QED
  BY <1>0, <1>1, <1>7, ConnsStep DEF CommandInv

-----------------------------------------------------------------------------
(* Messages *)

\* A message that is sent carries the metadata of the session as it is then.
LEMMA SendSteps ==
  ASSUME CommandInv,
         \/ \E c \in Client, msg \in Messages : ClientSends(c, msg[1], msg[2])
         \/ \E i \in Key \union Remote, msg \in Messages : RemoteSends(i, msg[1], msg[2])
  PROVE  CommandInv'
<1>0. TablesInv /\ SetupInv /\ ConnsInv /\ PeersInv
  BY DEF CommandInv
<1>1. ASSUME NEW from, NEW b, NEW meta, NEW levels, NEW name, NEW tagged,
             Sent(from, b, meta, levels, name, tagged), proxy_thread = "running",
             from \in Client \union Key \union Remote, b \in 0..MaxListeners, b <= Len(bind),
             meta \in Session \union {None}, levels \subseteq Int, name \in Name,
             tagged \in BOOLEAN,
             from \in Client => SessionOK(meta, Len(bind), given) /\ levels = {meta.allowed}
      PROVE  CommandInv'
  <2> DEFINE l == [tag |-> made + 1, from |-> from, bind |-> b, meta |-> meta,
                   name |-> name, tagged |-> tagged, levels |-> levels, sn |-> FALSE]
  <2>1. /\ wire' = Append(wire, l) /\ made' = made + 1
        /\ UNCHANGED <<proxy_thread, setup, conns, work>> /\ event' = None
    BY <1>1 DEF Sent
  <2>2. l \in Letter /\ LetterOK(l, Len(bind), given)
    BY <1>0, <1>1 DEF ConnsInv, Letter, LetterOK
  <2> HIDE DEF l
  <2>3. /\ wire' \in Seq(Letter)
        /\ \A k \in DOMAIN wire' : wire'[k] = l \/ \E j \in DOMAIN wire : wire'[k] = wire[j]
    BY <1>0, <2>1, <2>2 DEF ConnsInv
  <2>4. \A k \in DOMAIN wire' : LetterOK(wire'[k], Len(bind), given)
    BY <1>0, <2>2, <2>3 DEF ConnsInv
  <2>5. ConnsInv' /\ PeersInv'
    BY <1>0, <2>1, <2>3, <2>4 DEF ConnsInv, PeersInv, conns, setup
  <2> QED
    BY <1>1, <2>1, <2>5, ConnsStep DEF CommandInv
<1>2. ASSUME NEW msg \in Messages
      PROVE  msg[1] \in Name /\ msg[2] \in BOOLEAN
  BY CommandsAssumption
<1>3. ASSUME NEW c \in Client, NEW msg \in Messages, ClientSends(c, msg[1], msg[2])
      PROVE  CommandInv'
  <2>1. SessionOK(session[c], Len(bind), given) /\ proxy_thread = "running"
    BY <1>0, <1>3 DEF ConnsInv, SetupInv, ClientSends
  <2>2. /\ session[c] \in Session
        /\ session[c].bind \in 0..MaxListeners /\ session[c].bind <= Len(bind)
        /\ {session[c].allowed} \subseteq Int
    BY <2>1, CommandsAssumption DEF SessionOK, Session, none, admin
  <2> QED
    BY <1>1, <1>2, <1>3, <2>1, <2>2 DEF ClientSends
<1>4. ASSUME NEW i \in Key \union Remote, NEW msg \in Messages, RemoteSends(i, msg[1], msg[2])
      PROVE  CommandInv'
  <2>1. proxy_thread = "running" /\ i \notin Client /\ 0 \in 0..MaxListeners /\ 0 <= Len(bind)
    BY <1>0, <1>4, CommandsAssumption DEF SetupInv, TablesInv, RemoteSends, Outgoing
  <2> QED
    BY <1>1, <1>2, <1>4, <2>1 DEF RemoteSends
<1> QED
  BY <1>3, <1>4

\* What is left on the wire was there before.
LEMMA ReceiveStep ==
  ASSUME ConnsInv, NEW i \in DOMAIN wire, Receive(i)
  PROVE  /\ wire' \in Seq(Letter) /\ made' \in Nat
         /\ \A k \in DOMAIN wire' : \E j \in DOMAIN wire : wire'[k] = wire[j]
<1> DEFINE S == {wire[j] : j \in DOMAIN wire}
<1>1. wire \in Seq(Letter) /\ DOMAIN wire = 1 .. Len(wire) /\ Len(wire) \in Nat
  BY DEF ConnsInv
<1>2. wire \in Seq(S) /\ S \subseteq Letter
  BY <1>1
<1>3. SubSeq(wire, 1, i - 1) \o SubSeq(wire, i + 1, Len(wire)) \in Seq(S)
  <2> HIDE DEF S
  <2> QED
    BY <1>1, <1>2
<1>4. wire' \in Seq(S) /\ made' \in Nat
  BY <1>3 DEF Receive, ConnsInv
<1>5. wire' \in Seq(Letter)
  BY <1>2, <1>4
<1>6. \A k \in DOMAIN wire' : wire'[k] \in S
  BY <1>4
<1> QED
  BY <1>4, <1>5, <1>6

\* get_command finds what the name means to the application, because no alias hides
\* a command.
LEMMA CommandMeant ==
  ASSUME TablesInv, NEW name
  PROVE  /\ get_command(name) = Meaning(name)
         /\ Meaning(name) # None => Meaning(name) \in DOMAIN commands
BY CommandsAssumption DEF TablesInv, get_command, Meaning

\* A sender as it is seen when its message arrives: the level is one that it was
\* given, the status is what the message records, and the way back leads to it.
Known(l, peer) ==
  /\ l \in Letter
  /\ peer.auth_level \in denied..admin /\ peer.auth_level \in l.levels
  /\ peer.service_node \in BOOLEAN /\ peer.service_node = l.sn
  /\ ConnOf(peer, l) \in Conn /\ Reaches(ConnOf(peer, l), l)

\* proxy_check_auth lets a message pass only if it is entitled to the command, and
\* stops it only if it is not.
LEMMA Verdict ==
  ASSUME TablesInv, NEW l, NEW peer, Known(l, peer)
  PROVE  LET cmd == Meaning(l.name)
             verdict == proxy_check_auth(peer, cmd, l.tagged)
         IN  /\ verdict \in {"ok", "UNKNOWNCOMMAND", "FORBIDDEN", "NOT_A_SERVICE_NODE",
                             "FORBIDDEN_SN", "NO_REPLY_TAG"}
             /\ verdict = "ok" => /\ cmd # None /\ (commands[cmd] => l.tagged)
                                  /\ Entitled(peer.auth_level, l, categories[cmd[1]])
             /\ verdict = "UNKNOWNCOMMAND" => cmd = None
             /\ verdict \in {"FORBIDDEN", "FORBIDDEN_SN", "NOT_A_SERVICE_NODE"} =>
                  cmd # None /\ ~Entitled(peer.auth_level, l, categories[cmd[1]])
<1> DEFINE cmd == Meaning(l.name)
           access == categories[cmd[1]]
<1>1. CASE cmd = None
  BY <1>1 DEF proxy_check_auth
<1>2. CASE cmd # None
  <2>1. cmd \in DOMAIN commands
    BY <1>2, CommandMeant
  <2>2. access \in Access /\ commands[cmd] \in BOOLEAN
    BY <2>1 DEF TablesInv
  <2>3. peer.auth_level < access.auth <=> ~(peer.auth_level >= access.auth)
    BY <2>2 DEF Known, Access, denied, admin
  <2>4. proxy_check_auth(peer, cmd, l.tagged) = Check(peer, access, commands[cmd], l.tagged)
    BY <1>2 DEF proxy_check_auth
  <2> HIDE DEF cmd, access
  <2>5. peer.service_node = l.sn
    BY DEF Known
  <2>6. /\ Check(peer, access, commands[cmd], l.tagged) \in
             {"ok", "FORBIDDEN", "NOT_A_SERVICE_NODE", "FORBIDDEN_SN", "NO_REPLY_TAG"}
        /\ Check(peer, access, commands[cmd], l.tagged) = "ok" =>
             (commands[cmd] => l.tagged) /\ Entitled(peer.auth_level, l, access)
        /\ Check(peer, access, commands[cmd], l.tagged) \in
             {"FORBIDDEN", "FORBIDDEN_SN", "NOT_A_SERVICE_NODE"} =>
               ~Entitled(peer.auth_level, l, access)
    BY <2>3, <2>5 DEF Check, Entitled
  <2> QED
    BY <1>2, <2>4, <2>6 DEF cmd, access
<1> QED
  BY <1>1, <1>2

\* A run that is added to those that are there.
LEMMA RunsGrow ==
  ASSUME WorkInv, UNCHANGED <<setup, message, busy, later>>, NEW r \in Run, Decided(r),
         \/ \E w \in Idle : run' = [run EXCEPT ![w] = r] /\ pending_commands' = pending_commands
         \/ pending_commands' = Append(pending_commands, r) /\ run' = run
  PROVE  WorkInv'
<1>1. ASSUME NEW w \in Idle, run' = [run EXCEPT ![w] = r], pending_commands' = pending_commands
      PROVE  WorkInv'
  <2>1. \A v \in Worker : run'[v] = IF v = w THEN r ELSE run[v]
    BY <1>1 DEF WorkInv, Idle
  <2>2. \A x \in Runs' : x \in Runs \/ x = r
    BY <1>1, <2>1 DEF Runs, Idle
  <2>3. \A v \in busy : run'[v] = run[v]
    BY <2>1 DEF WorkInv, Idle
  <2> QED
    BY <1>1, <2>2, <2>3, DecidedStays DEF WorkInv, setup
<1>2. CASE pending_commands' = Append(pending_commands, r) /\ run' = run
  <2>1. /\ pending_commands' \in Seq(Run)
        /\ \A k \in DOMAIN pending_commands' :
             pending_commands'[k] = r \/ \E j \in DOMAIN pending_commands :
                                           pending_commands'[k] = pending_commands[j]
    BY <1>2 DEF WorkInv
  <2>2. Idle' = Idle
    BY <1>2 DEF Idle
  <2>3. \A x \in Runs' : x \in Runs \/ x = r
    BY <1>2, <2>1, <2>2 DEF Runs, Range
  <2> QED
    BY <1>2, <2>1, <2>3, DecidedStays DEF WorkInv, setup
<1> QED
  BY <1>1, <1>2

\* What becomes of a message whose sender is known: it is refused, run, queued or
\* dropped, and what is kept of it is what held on its arrival.
LEMMA HandleStep ==
  ASSUME CommandInv, NEW l, NEW peer, Known(l, peer), Handle(l, peer), UNCHANGED setup
  PROVE  WorkInv' /\ EventInv'
<1> DEFINE cmd == Meaning(l.name)
           verdict == proxy_check_auth(peer, cmd, l.tagged)
           r == [about |-> l, cmd |-> cmd, conn |-> ConnOf(peer, l),
                 access |-> [auth |-> peer.auth_level, remote_sn |-> peer.service_node,
                             local_sn |-> LocalSN]]
           tag == IF cmd # None /\ commands[cmd] /\ l.tagged THEN l.tag ELSE None
           back == [sn |-> FALSE, who |-> l.from, bind |-> l.bind]
<1>0. TablesInv /\ WorkInv
  BY DEF CommandInv
<1>1. /\ get_command(l.name) = cmd
      /\ cmd # None => cmd \in DOMAIN commands
  BY <1>0, CommandMeant
<1>2. /\ verdict \in {"ok", "UNKNOWNCOMMAND", "FORBIDDEN", "NOT_A_SERVICE_NODE",
                      "FORBIDDEN_SN", "NO_REPLY_TAG"}
      /\ verdict = "ok" => /\ cmd # None /\ (commands[cmd] => l.tagged)
                           /\ Entitled(peer.auth_level, l, categories[cmd[1]])
      /\ verdict = "UNKNOWNCOMMAND" => cmd = None
      /\ verdict \in {"FORBIDDEN", "FORBIDDEN_SN", "NOT_A_SERVICE_NODE"} =>
           cmd # None /\ ~Entitled(peer.auth_level, l, categories[cmd[1]])
  BY <1>0, Verdict
<1>3. Meaning(l.name)' = cmd /\ commands' = commands /\ categories' = categories
  BY DEF setup, Meaning
<1>4. \/ /\ verdict # "ok" /\ UNCHANGED work
         /\ event' = [what |-> verdict, about |-> l, to |-> back, tag |-> tag]
      \/ /\ verdict = "ok"
         /\ event' \in {[what |-> "taken", about |-> l, to |-> None, tag |-> None],
                        [what |-> "dropped", about |-> l, to |-> None, tag |-> None]}
         /\ \/ UNCHANGED work
            \/ /\ UNCHANGED <<message, busy, later>>
               /\ \/ \E w \in Idle : /\ run' = [run EXCEPT ![w] = r]
                                     /\ pending_commands' = pending_commands
                  \/ pending_commands' = Append(pending_commands, r) /\ run' = run
  BY <1>1 DEF Handle, Event, work
<1>5. verdict = "ok" => r \in Run /\ Decided(r)
  <2> SUFFICES ASSUME verdict = "ok"
               PROVE  r \in Run /\ Decided(r)
    OBVIOUS
  <2>1. cmd \in DOMAIN commands /\ cmd \in FullName /\ (commands[cmd] => l.tagged)
    BY <1>0, <1>1, <1>2 DEF TablesInv
  <2>2. /\ l \in Letter /\ ConnOf(peer, l) \in Conn /\ Reaches(ConnOf(peer, l), l)
        /\ peer.auth_level \in denied..admin /\ peer.auth_level \in l.levels
        /\ peer.service_node \in BOOLEAN /\ peer.service_node = l.sn
    BY DEF Known
  <2> HIDE DEF cmd, verdict
  <2>3. r \in Run
    BY <2>1, <2>2, CommandsAssumption DEF Run, Access
  <2>4. /\ r.cmd = cmd /\ r.about = l /\ r.conn = ConnOf(peer, l)
        /\ r.access.auth = peer.auth_level /\ r.access.remote_sn = peer.service_node
    OBVIOUS
  <2> QED
    BY <2>1, <2>2, <2>3, <2>4 DEF Decided, cmd
<1>6. WorkInv'
  <2> HIDE DEF r, verdict
  <2> QED
    BY <1>0, <1>4, <1>5, WorkStays, RunsGrow
<1>7. EventInv'
  <2>1. peer.auth_level \in l.levels
    BY DEF Known
  <2>2. \A level, a : Entitled(level, l, a)' <=> Entitled(level, l, a)
    BY DEF Entitled
  <2>3. Reaches(back, l)
    BY DEF Reaches
  <2> HIDE DEF cmd, verdict, tag, back
  <2>4. CASE verdict # "ok"
    <3>1. event' = [what |-> verdict, about |-> l, to |-> back, tag |-> tag]
      BY <1>4, <2>4
    <3>2. AccessDecisions'
      BY <1>2, <1>3, <2>1, <2>2, <2>4, <3>1 DEF AccessDecisions
    <3>3. RepliesToAsker'
      BY <1>3, <2>3, <3>1 DEF RepliesToAsker, Reaches, tag
    <3> QED
      BY <3>2, <3>3 DEF EventInv
  <2>5. CASE verdict = "ok"
    <3>1. event'.about = l /\ event'.what \in {"taken", "dropped"}
      BY <1>4, <2>5
    <3> QED
      BY <1>2, <1>3, <2>1, <2>2, <2>5, <3>1 DEF EventInv, AccessDecisions, RepliesToAsker
  <2> QED
    BY <2>4, <2>5
<1> QED
  BY <1>6, <1>7

\* A message of a client: the level is read back from the metadata of its session.
LEMMA IncomingStep ==
  ASSUME CommandInv, NEW i \in DOMAIN wire, proxy_to_worker_incoming(i)
  PROVE  CommandInv'
<1> DEFINE p == PeerOf(wire[i])
           l == [wire[i] EXCEPT !.sn = wire[i].meta.user_id \in active_service_nodes]
<1>0. TablesInv /\ SetupInv /\ ConnsInv /\ PeersInv
  BY DEF CommandInv
<1>1. /\ wire[i].from \in Client /\ Receive(i) /\ Handle(l, p)
      /\ peers' = IF p.service_node THEN (peers \ KnownAs(p)) \union {p} ELSE peers
      /\ UNCHANGED <<proxy_thread, setup, session, given, active_service_nodes>>
      /\ UNCHANGED bind
  BY DEF proxy_to_worker_incoming, setup
<1>2. LetterOK(wire[i], Len(bind), given) /\ proxy_thread = "running"
  BY <1>0 DEF ConnsInv, SetupInv
<1>3. /\ wire[i] \in Letter /\ wire[i].bind \in 0..MaxListeners /\ wire[i].bind <= Len(bind)
      /\ SessionOK(wire[i].meta, Len(bind), given) /\ wire[i].levels = {wire[i].meta.allowed}
  BY <1>1, <1>2 DEF LetterOK, Letter
<1>4. /\ wire[i].meta.allowed \in none..admin
      /\ auth_from_string(wire[i].meta.level) = wire[i].meta.allowed
      /\ wire[i].meta.user_id \in Key => wire[i].meta.allowed \in given[wire[i].meta.user_id]
  <2>1. /\ wire[i].meta.allowed \in none..admin
        /\ wire[i].meta.level = to_string(wire[i].meta.allowed)
        /\ wire[i].meta.user_id \in Key => wire[i].meta.allowed \in given[wire[i].meta.user_id]
    BY <1>3 DEF SessionOK, Session
  <2>2. auth_from_string(to_string(wire[i].meta.allowed)) = wire[i].meta.allowed
    BY <2>1, LevelText
  <2> QED
    BY <2>1, <2>2
<1>5. /\ p.id = wire[i].meta.user_id /\ p.bind = wire[i].bind
      /\ p.auth_level = wire[i].meta.allowed
      /\ p.service_node = (wire[i].meta.user_id \in active_service_nodes)
      /\ p.service_node \in BOOLEAN
  BY <1>4 DEF PeerOf, extract_metadata
<1>6. /\ l \in Letter /\ l.from = wire[i].from /\ l.bind = wire[i].bind /\ l.meta = wire[i].meta
      /\ l.levels = wire[i].levels
      /\ l.sn = (wire[i].meta.user_id \in active_service_nodes)
  <2> DEFINE status == wire[i].meta.user_id \in active_service_nodes
  <2>1. status \in BOOLEAN /\ l = [wire[i] EXCEPT !.sn = status]
    OBVIOUS
  <2> HIDE DEF status, l
  <2>2. /\ l \in Letter /\ l.from = wire[i].from /\ l.bind = wire[i].bind
        /\ l.meta = wire[i].meta /\ l.levels = wire[i].levels /\ l.sn = status
    BY <1>3, <2>1 DEF Letter
  <2> QED
    BY <2>2 DEF status
<1>7. p.service_node => p.id \in Key
  BY <1>0, <1>5 DEF ConnsInv
<1> HIDE DEF p, l
<1>8. Known(l, p)
  <2>1. p.auth_level \in denied..admin /\ p.auth_level \in l.levels
    BY <1>3, <1>4, <1>5, <1>6 DEF denied, none, admin
  <2>2. ConnOf(p, l) \in Conn /\ Reaches(ConnOf(p, l), l)
    <3>1. CASE p.service_node
      BY <1>1, <1>5, <1>6, <1>7, <3>1, CommandsAssumption DEF ConnOf, Conn, Reaches
    <3>2. CASE ~p.service_node
      BY <1>1, <1>3, <1>6, <3>2 DEF ConnOf, Conn, Reaches
    <3> QED
      BY <3>1, <3>2
  <2> QED
    BY <1>5, <1>6, <2>1, <2>2 DEF Known
<1>9. WorkInv' /\ EventInv'
  BY <1>1, <1>8, HandleStep
<1>10. ConnsInv'
  BY <1>0, <1>1, ReceiveStep DEF ConnsInv
<1>11. PeersInv'
  <2>1. ASSUME p.service_node
        PROVE  PeerOK(p, Len(bind), given)
    <3>1. p.id \in Key /\ p.bind \in 0..Len(bind) /\ p.auth_level \in none..admin
      BY <1>3, <1>4, <1>5, <1>7, <2>1
    <3>2. p.auth_level \in given[p.id]
      BY <1>4, <1>5, <1>7, <2>1
    <3>3. p.service_node = (p.id \in Key)
      BY <1>5, <1>7, <2>1
    <3> QED
      BY <3>1, <3>2, <3>3 DEF PeerOK
  <2> QED
    BY <1>0, <1>1, <2>1 DEF PeersInv
<1>12. TablesInv' /\ SetupInv'
  BY <1>0, <1>1, <1>2 DEF TablesInv, SetupInv, setup
<1> QED
  BY <1>9, <1>10, <1>11, <1>12 DEF CommandInv

\* A message on a connection of ours: any entry of its peer decides.
LEMMA OutgoingStep ==
  ASSUME CommandInv, NEW i \in DOMAIN wire, proxy_to_worker_outgoing(i)
  PROVE  CommandInv'
<1>0. TablesInv /\ SetupInv /\ ConnsInv /\ PeersInv
  BY DEF CommandInv
<1>1. /\ Receive(i) /\ UNCHANGED <<proxy_thread, setup, conns>>
      /\ UNCHANGED <<bind, session, given, active_service_nodes, peers>>
  BY DEF proxy_to_worker_outgoing, setup, conns
<1>2. PICK p \in peers :
        /\ p.id = wire[i].from
        /\ Handle([wire[i] EXCEPT !.sn = (p.id \in Key), !.levels = given[p.id]], p)
  BY DEF proxy_to_worker_outgoing
<1> DEFINE l == [wire[i] EXCEPT !.sn = (p.id \in Key), !.levels = given[p.id]]
<1>3. PeerOK(p, Len(bind), given) /\ wire[i] \in Letter /\ proxy_thread = "running"
  BY <1>0 DEF PeersInv, ConnsInv, LetterOK, SetupInv
<1>4. /\ p.id \in Key \union Remote /\ p.id \notin Client
      /\ p.service_node = (p.id \in Key) /\ p.service_node \in BOOLEAN
      /\ p.auth_level \in given[p.id] /\ given[p.id] \subseteq Int
  BY <1>0, <1>3, CommandsAssumption DEF PeerOK, ConnsInv
<1>5. p.auth_level \in denied..admin
  BY <1>3 DEF PeerOK, denied, none, admin
<1>6. /\ l \in Letter /\ l.from = wire[i].from /\ l.bind = wire[i].bind
      /\ l.levels = given[p.id] /\ l.sn = (p.id \in Key) /\ l.bind \in 0..MaxListeners
  BY <1>3, <1>4 DEF Letter
<1>7. Handle(l, p)
  BY <1>2
<1> HIDE DEF l
<1>8. ConnOf(p, l) \in Conn /\ Reaches(ConnOf(p, l), l)
  <2>1. CASE p.service_node
    BY <1>2, <1>4, <1>6, <2>1, CommandsAssumption DEF ConnOf, Conn, Reaches
  <2>2. CASE ~p.service_node
    BY <1>2, <1>4, <1>6, <2>2 DEF ConnOf, Conn, Reaches
  <2> QED
    BY <2>1, <2>2
<1>9. Known(l, p)
  BY <1>4, <1>5, <1>6, <1>8 DEF Known
<1>10. WorkInv' /\ EventInv'
  BY <1>1, <1>7, <1>9, HandleStep
<1>11. ConnsInv' /\ PeersInv'
  BY <1>0, <1>1, ReceiveStep DEF ConnsInv, PeersInv
<1>12. TablesInv' /\ SetupInv'
  BY <1>0, <1>1, <1>3 DEF TablesInv, SetupInv, setup
<1> QED
  BY <1>10, <1>11, <1>12 DEF CommandInv

-----------------------------------------------------------------------------
(* The worker's side *)

\* A step of the pool threads and of the queue after start(): the tables and the
\* connections stay.
LEMMA WorkStep ==
  ASSUME CommandInv, proxy_thread = "running",
         UNCHANGED <<proxy_thread, setup, conns, net>>, WorkInv', EventInv'
  PROVE  CommandInv'
<1>1. TablesInv' /\ SetupInv'
  BY DEF CommandInv, TablesInv, SetupInv, setup
<1>2. ConnsInv' /\ PeersInv'
  BY DEF CommandInv, ConnsInv, PeersInv, setup, conns, net
<1> QED
  BY <1>1, <1>2 DEF CommandInv

\* The Message of a callback that runs is about the command that it runs.
LEMMA BusyRun ==
  ASSUME CommandInv, NEW w \in busy
  PROVE  /\ proxy_thread = "running" /\ w \in Worker /\ run[w] \in Runs /\ Decided(run[w])
         /\ message[w].conn = run[w].conn
         /\ commands[run[w].cmd] => message[w].reply_tag = run[w].about.tag
         /\ Meaning(run[w].about.name) = run[w].cmd /\ run[w].cmd # None
<1>1. /\ w \in Worker /\ run[w] \in Runs /\ Decided(run[w])
      /\ message[w].conn = run[w].conn
      /\ commands[run[w].cmd] => message[w].reply_tag = run[w].about.tag
  BY DEF CommandInv, WorkInv, Runs, Idle
<1>2. proxy_thread = "running"
  BY DEF CommandInv, SetupInv
<1>3. Meaning(run[w].about.name) = run[w].cmd /\ run[w].cmd # None
  BY <1>1, CommandsAssumption DEF Decided, CommandInv, TablesInv
<1> QED
  BY <1>1, <1>2, <1>3

\* Commands move from the queue to a thread, into its Message, and out again.
LEMMA RunSteps ==
  ASSUME CommandInv,
         \/ proxy_process_queue
         \/ \E w \in Worker : worker_thread(w) \/ send_later(w) \/ Returned(w)
  PROVE  CommandInv'
<1>0. /\ WorkInv /\ event' = None
      /\ UNCHANGED <<proxy_thread, setup, conns, net>>
  BY DEF CommandInv, proxy_process_queue, worker_thread, send_later, Returned
<1>1. CASE proxy_process_queue
  <2>1. /\ Head(pending_commands) \in Runs
        /\ pending_commands' \in Seq(Run)
        /\ \A k \in DOMAIN pending_commands' : \E j \in DOMAIN pending_commands :
             pending_commands'[k] = pending_commands[j]
    <3>1. /\ pending_commands \in Seq(Run) /\ pending_commands # <<>>
          /\ pending_commands' = Tail(pending_commands)
      BY <1>0, <1>1 DEF WorkInv, proxy_process_queue
    <3>2. /\ Len(pending_commands) \in Nat \ {0} /\ DOMAIN pending_commands = 1..Len(pending_commands)
          /\ pending_commands' \in Seq(Run)
          /\ DOMAIN pending_commands' = 1..(Len(pending_commands) - 1)
          /\ \A k \in 1..(Len(pending_commands) - 1) : pending_commands'[k] = pending_commands[k + 1]
          /\ Head(pending_commands) = pending_commands[1]
      BY <3>1
    <3>3. \A k \in 1..(Len(pending_commands) - 1) : k + 1 \in DOMAIN pending_commands
      BY <3>2
    <3> QED
      BY <3>2, <3>3 DEF Runs, Range
  <2>2. PICK w \in Idle : run' = [run EXCEPT ![w] = Head(pending_commands)]
    BY <1>1 DEF proxy_process_queue
  <2>3. \A v \in Worker : run'[v] = IF v = w THEN Head(pending_commands) ELSE run[v]
    BY <1>0, <2>2 DEF WorkInv, Idle
  <2>4. \A x \in Runs' : x \in Runs
    BY <2>1, <2>3 DEF Runs, Range, Idle
  <2>5. \A v \in busy : run'[v] = run[v]
    BY <1>0, <2>3 DEF WorkInv, Idle
  <2>6. UNCHANGED <<message, busy, later>>
    BY <1>1 DEF proxy_process_queue
  <2>7. WorkInv'
    BY <1>0, <2>1, <2>2, <2>4, <2>5, <2>6, DecidedStays DEF WorkInv, setup
  <2>8. proxy_thread = "running"
    BY <2>1 DEF CommandInv, SetupInv
  <2> QED
    BY <1>0, <2>7, <2>8, NoEvent, WorkStep
<1>2. ASSUME NEW w \in Worker, worker_thread(w)
      PROVE  CommandInv'
  <2>1. /\ run[w] # None /\ busy' = busy \union {w}
        /\ message' = [message EXCEPT ![w] = LoadMessage(@, run[w])]
        /\ UNCHANGED <<pending_commands, run, later>>
    BY <1>2 DEF worker_thread
  <2>2. run[w] \in Runs /\ Runs' = Runs
    BY <2>1 DEF Runs, Idle
  <2>3. /\ message'[w].conn = run[w].conn /\ message'[w].access = run[w].access
        /\ commands[run[w].cmd] => message'[w].reply_tag = run[w].about.tag
        /\ \A v \in Worker : v # w => message'[v] = message[v]
        /\ DOMAIN message' = Worker
    BY <1>0, <2>1 DEF WorkInv, LoadMessage
  <2>4. WorkInv'
    BY <1>0, <2>1, <2>2, <2>3, DecidedStays DEF WorkInv, setup
  <2>5. proxy_thread = "running"
    BY <2>2 DEF CommandInv, SetupInv
  <2> QED
    BY <1>0, <2>4, <2>5, NoEvent, WorkStep
<1>3. ASSUME NEW w \in Worker, send_later(w)
      PROVE  CommandInv'
  <2> DEFINE d == [conn |-> message[w].conn, reply_tag |-> message[w].reply_tag,
                   about |-> run[w].about, request |-> commands[run[w].cmd]]
  <2>1. /\ w \in busy /\ later' = later \union {d}
        /\ UNCHANGED <<pending_commands, run, message, busy>>
    BY <1>3 DEF send_later
  <2>2. Promised(d)
    BY <2>1, BusyRun DEF Promised, Decided
  <2> HIDE DEF d
  <2>3. Runs' = Runs /\ proxy_thread = "running"
    BY <2>1, BusyRun DEF Runs, Idle
  <2>4. WorkInv'
    BY <1>0, <2>1, <2>2, <2>3, DecidedStays DEF WorkInv, setup
  <2> QED
    BY <1>0, <2>3, <2>4, NoEvent, WorkStep
<1>4. ASSUME NEW w \in Worker, Returned(w)
      PROVE  CommandInv'
  <2>1. /\ w \in busy /\ busy' = busy \ {w} /\ run' = [run EXCEPT ![w] = None]
        /\ UNCHANGED <<pending_commands, message, later>>
    BY <1>4 DEF Returned
  <2>2. /\ \A v \in Worker : v # w => run'[v] = run[v]
        /\ run'[w] = None /\ DOMAIN run' = Worker
    BY <1>0, <2>1 DEF WorkInv
  <2>3. \A x \in Runs' : x \in Runs
    BY <2>1, <2>2 DEF Runs, Idle
  <2>4. WorkInv'
    BY <1>0, <2>1, <2>2, <2>3, DecidedStays DEF WorkInv, setup
  <2> QED
    BY <1>0, <2>1, <2>4, BusyRun, NoEvent, WorkStep
<1> QED
  BY <1>1, <1>2, <1>3, <1>4

\* What a callback or a DeferredSend sends goes to the asker, with its tag.
LEMMA AnswerSteps ==
  ASSUME CommandInv,
         \/ \E w \in Worker : send_reply(w) \/ send_back(w)
         \/ \E d \in later : DeferredReply(d) \/ DeferredBack(d)
  PROVE  CommandInv'
<1>0. /\ WorkInv /\ UNCHANGED <<proxy_thread, setup, conns, net, work>>
  BY DEF CommandInv, send_reply, send_back, DeferredReply, DeferredBack
<1>1. WorkInv'
  BY <1>0, WorkStays
<1>2. PICK what, d :
        /\ what \in {"REPLY", "back"}
        /\ proxy_thread = "running" /\ Promised(d)
        /\ what = "REPLY" => d.request
        /\ event'.what = what /\ event'.about = d.about /\ event'.to = d.conn
        /\ what = "REPLY" => event'.tag = d.reply_tag
  <2>1. ASSUME NEW w \in Worker, send_reply(w) \/ send_back(w)
        PROVE  \E what, d :
                 /\ what \in {"REPLY", "back"}
                 /\ proxy_thread = "running" /\ Promised(d)
                 /\ what = "REPLY" => d.request
                 /\ event'.what = what /\ event'.about = d.about /\ event'.to = d.conn
                 /\ what = "REPLY" => event'.tag = d.reply_tag
    <3> DEFINE d == [conn |-> message[w].conn, reply_tag |-> message[w].reply_tag,
                     about |-> run[w].about, request |-> commands[run[w].cmd]]
    <3>1. w \in busy
      BY <2>1 DEF send_reply, send_back
    <3>2. Promised(d) /\ proxy_thread = "running"
      BY <3>1, BusyRun DEF Promised, Decided
    <3>3. d.about = run[w].about /\ d.conn = message[w].conn /\ d.reply_tag = message[w].reply_tag
      OBVIOUS
    <3>4. commands[run[w].cmd] => d.request
      OBVIOUS
    <3> HIDE DEF d
    <3>5. CASE send_reply(w)
      <4>1. /\ event'.what = "REPLY" /\ event'.tag = message[w].reply_tag
            /\ event'.about = run[w].about /\ event'.to = message[w].conn
        BY <3>5 DEF send_reply, Event
      <4>2. d.request
        BY <3>4, <3>5 DEF send_reply
      <4> QED
        BY <3>2, <3>3, <4>1, <4>2
    <3>6. CASE send_back(w)
      <4>1. /\ event'.what = "back"
            /\ event'.about = run[w].about /\ event'.to = message[w].conn
        BY <3>6 DEF send_back, Event
      <4> QED
        BY <3>2, <3>3, <4>1
    <3> QED
      BY <2>1, <3>5, <3>6
  <2>2. ASSUME NEW d \in later, DeferredReply(d) \/ DeferredBack(d)
        PROVE  \E what, e :
                 /\ what \in {"REPLY", "back"}
                 /\ proxy_thread = "running" /\ Promised(e)
                 /\ what = "REPLY" => e.request
                 /\ event'.what = what /\ event'.about = e.about /\ event'.to = e.conn
                 /\ what = "REPLY" => event'.tag = e.reply_tag
    <3>1. Promised(d) /\ proxy_thread = "running"
      BY <1>0 DEF WorkInv, CommandInv, SetupInv
    <3>2. CASE DeferredReply(d)
      BY <3>1, <3>2 DEF DeferredReply, Event
    <3>3. CASE DeferredBack(d)
      BY <3>1, <3>3 DEF DeferredBack, Event
    <3> QED
      BY <2>2, <3>2, <3>3
  <2> QED
    BY <2>1, <2>2
<1>3. Promised(d)'
  BY <1>0, <1>2, DecidedStays
<1>4. EventInv'
  BY <1>2, <1>3 DEF EventInv, AccessDecisions, RepliesToAsker, Promised
<1> QED
  BY <1>0, <1>1, <1>2, <1>4, WorkStep

-----------------------------------------------------------------------------
(* The theorems *)

\* Every step keeps the invariant.
LEMMA CommandInductive == CommandInv /\ [Next]_vars => CommandInv'
<1> SUFFICES ASSUME CommandInv, [Next]_vars
             PROVE  CommandInv'
  OBVIOUS
<1>1. CASE UNCHANGED vars
  <2>1. UNCHANGED <<proxy_thread, setup, conns, net, work, event>>
    BY <1>1 DEF vars
  <2>2. WorkInv'
    BY <2>1, WorkStays DEF CommandInv
  <2>3. TablesInv'
    BY <2>1 DEF CommandInv, TablesInv, setup
  <2>4. ConnsInv' /\ PeersInv'
    BY <2>1 DEF CommandInv, ConnsInv, PeersInv, setup, conns, net
  <2>5. EventInv'
    BY <2>1 DEF CommandInv, EventInv, AccessDecisions, RepliesToAsker, Meaning, Entitled,
                Reaches, setup
  <2>6. SetupInv'
    BY <2>1 DEF CommandInv, SetupInv, Runs, Range, Idle, conns, net, work
  <2> QED
    BY <2>2, <2>3, <2>4, <2>5, <2>6 DEF CommandInv
<1>2. ASSUME NEW c \in Client, NEW b \in 1..MaxListeners, NEW mechanism \in {"CURVE", "NULL"},
             NEW allow \in Allowed, process_zap_requests(c, b, mechanism, KeyOf[c], allow)
      PROVE  CommandInv'
  BY <1>2, ZapStep
<1>3. CASE Next
  BY <1>2, <1>3, SetupActions, PeerSteps, SendSteps, IncomingStep, OutgoingStep, RunSteps,
     AnswerSteps
  DEF Next
<1> QED
  BY <1>1, <1>3

\* So the invariant holds throughout.
LEMMA CommandInvariant == Spec => []CommandInv
BY InitCommand, CommandInductive, PTL DEF Spec

\* The tables, the entries of peers, the runs and the Message objects keep their
\* shape, however calls, connections and messages follow each other.
THEOREM CommandTypes == Spec => []TypeOK
BY CommandInvariant, CommandInvImplies, PTL

\* A command gets to the application only from a sender that is entitled to it, and
\* under the name it was registered for; nobody who is entitled is refused.
THEOREM AccessDecided == Spec => []AccessDecisions
<1>1. CommandInv => AccessDecisions
  BY DEF CommandInv, EventInv
<1> QED
  BY <1>1, CommandInvariant, PTL

\* A callback is told what held when the message was received, however long the
\* command has waited in the queue.
THEOREM AccessKept == Spec => []AccessAtArrival
BY CommandInvariant, CommandInvImplies, PTL

\* Refusals, replies and messages sent back reach the sender of the command, with
\* the tag of its request.
THEOREM RepliesReachAsker == Spec => []RepliesToAsker
<1>1. CommandInv => RepliesToAsker
  BY DEF CommandInv, EventInv
<1> QED
  BY <1>1, CommandInvariant, PTL
=============================================================================
