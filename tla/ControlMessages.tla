-------------------------- MODULE ControlMessages ---------------------------
(***************************************************************************)
(* The data of control messages: a caller of send(), request(),            *)
(* connect_sn(), connect_remote() or disconnect() puts its options into a  *)
(* bt_dict, and the handler in the proxy reads the serialized dict in one  *)
(* pass, key by key, with skip_until (arqmamq.h, proxy.cpp,                *)
(* connections.cpp).  add_timer() and update_active_sns() send a list,     *)
(* whose items go by their place (jobs.cpp, auth.cpp).  Which value an     *)
(* option has does not matter here, only its type; callbacks and sets are  *)
(* the integers their pointers are sent as.                                *)
(***************************************************************************)
EXTENDS BtSerialize, FiniteSets

VARIABLES cmd,        \* the command of the control message; "" before there is one
          given,      \* what the caller put into the dict or list, by name
          consumer,   \* the handler's consumer, or Invalid after an exception
          step,       \* how far the handler is
          got         \* what it has read

control_vars == <<cmd, given, consumer, step, got>>

ControlInit ==
  cmd = "" /\ given = <<>> /\ consumer = Invalid /\ step = 1 /\ got = <<>>

-----------------------------------------------------------------------------
(* The callers.                                                            *)

Number(n) == <<"i", n>>
Str == <<"s", <<"a">>>>
Empty == <<"s", <<>>>>

\* What apply_send_option and apply_connect_option may add.
send_options ==
  [hint |-> Str, optional |-> Number(1), incoming |-> Number(1), outgoing |-> Number(0), keep_alive |-> Number(20),
   request_timeout |-> Number(20), send_fail |-> Number(7), send_full_q |-> Number(8)]
remote_options == [auth_level |-> Number(2), ephemeral_rid |-> Number(1), timeout |-> Number(20)]
sn_options == [keep_alive |-> Number(30), ephemeral_rid |-> Number(1), hint |-> Str]

\* Whom a message is for: a service node, or a connection with or without a route.
Destination == {[conn_pubkey |-> Str], [conn_id |-> Number(1), conn_route |-> Str],
                [conn_id |-> Number(1), conn_route |-> Empty]}

\* A service node has the id -1 and a key, any other connection no key.
ConnectionID == {[conn_id |-> Number(-1), pubkey |-> Str], [conn_id |-> Number(1), pubkey |-> Empty]}

build_send(to) == [send |-> <<"l", <<Str, Empty>>>>] @@ to
requested == [request |-> Number(1), request_callback |-> Number(9), request_tag |-> Str]

\* Option names are the keys.
AsDict(opts) == [k \in {<<o>> : o \in DOMAIN opts} |-> opts[k[1]]]

send_control(c, opts) ==
  /\ cmd = "" /\ cmd' = c
  /\ given' = opts
  /\ consumer' = bt_dict_consumer(bt_serialize(<<"d", AsDict(opts)>>))
  /\ UNCHANGED <<step, got>>

Chosen(options, chosen) == [o \in chosen |-> options[o]]

send(to, chosen) == send_control("SEND", build_send(to) @@ Chosen(send_options, chosen))
request(to, chosen) ==
  send_control("SEND", requested @@ build_send(to) @@ Chosen(send_options, chosen))
connect_remote(key, chosen) ==
  send_control("CONNECT_REMOTE",
    [conn_id |-> Number(1), connect |-> Number(5), failure |-> Number(6), remote |-> Str]
      @@ key @@ Chosen(remote_options, chosen))
connect_sn(chosen) ==
  send_control("CONNECT_SN",
    [pubkey |-> Str] @@ Chosen(sn_options, chosen) @@ [keep_alive |-> Number(20), ephemeral_rid |-> Number(0)])
disconnect(id) == send_control("DISCONNECT", id @@ [linger_ms |-> Number(20)])

\* Messages that are lists: the names of the items, and their values in this order.
send_list(c, names, items) ==
  /\ cmd = "" /\ cmd' = c
  /\ given' = items
  /\ consumer' = bt_list_consumer(bt_serialize(<<"l", [i \in DOMAIN names |-> items[names[i]]]>>))
  /\ UNCHANGED <<step, got>>

add_timer(squelch, thread) ==
  send_list("TIMER", <<"id", "func", "interval", "squelch", "thread">>,
            [id |-> Number(1), func |-> Number(9), interval |-> Number(200),
             squelch |-> Number(squelch), thread |-> Number(thread)])
update_active_sns == send_list("UPDATE_SNS", <<"added", "removed">>, [added |-> Number(5), removed |-> Number(6)])

-----------------------------------------------------------------------------
(* The handlers: the keys in the order in which they are looked for.  A    *)
(* key that must be there is an exception if it is not.                    *)

Boolean == 0 .. 1
Unsigned == 0 .. 2^Width - 1
Signed == -(2^(Width - 1)) .. 2^(Width - 1) - 1

May(key, type) == [key |-> key, type |-> type, must |-> FALSE]
Must(key, type) == [key |-> key, type |-> type, must |-> TRUE]
Integer(range) == [kind |-> "i", range |-> range]
String == [kind |-> "s", range |-> {}]
List == [kind |-> "l", range |-> {}]

\* Where to send, and a variant that looks for the hint before the route.
send_where_unordered ==
  <<May("conn_id", Integer(Signed)), May("conn_pubkey", String), May("hint", String), May("conn_route", String)>>
send_where ==
  <<May("conn_id", Integer(Signed)), May("conn_pubkey", String), May("conn_route", String), May("hint", String)>>

proxy_send(requesting) ==
  send_where
  \o <<May("incoming", Integer(Boolean)), May("keep_alive", Integer(Unsigned)), May("optional", Integer(Boolean)),
       May("outgoing", Integer(Boolean)), May("request", Integer(Boolean))>>
  \o (IF requesting
      THEN <<Must("request_callback", Integer(Unsigned)), Must("request_tag", String),
             May("request_timeout", Integer(Unsigned))>>
      ELSE <<>>)
  \o <<Must("send", List), May("send_fail", Integer(Unsigned)), May("send_full_q", Integer(Unsigned))>>

proxy_connect_sn ==
  <<May("ephemeral_rid", Integer(Boolean)), May("hint", String), May("incoming", Integer(Boolean)),
    May("keep_alive", Integer(Unsigned)), May("optional", Integer(Boolean)),
    May("outgoing_only", Integer(Boolean)), Must("pubkey", String)>>

\* Without conn_id or remote, the code throws after the last key.
proxy_connect_remote ==
  <<May("auth_level", Integer(Signed)), Must("conn_id", Integer(Signed)), May("connect", Integer(Unsigned)),
    May("ephemeral_rid", Integer(Boolean)), May("failure", Integer(Unsigned)), May("pubkey", String),
    Must("remote", String), May("timeout", Integer(Unsigned))>>

proxy_disconnect ==
  <<May("conn_id", Integer(Signed)), May("linger_ms", Integer(Signed)), May("pubkey", String)>>

proxy_timer ==
  <<Must("id", Integer(Signed)), Must("func", Integer(Unsigned)), Must("interval", Integer(Unsigned)),
    Must("squelch", Integer(Boolean)), Must("thread", Integer(Signed))>>

proxy_update_active_sns == <<Must("added", Integer(Unsigned)), Must("removed", Integer(Unsigned))>>

script ==
  CASE cmd = "SEND" -> proxy_send("request" \in DOMAIN got /\ got.request = Number(1))
    [] cmd = "CONNECT_SN" -> proxy_connect_sn
    [] cmd = "CONNECT_REMOTE" -> proxy_connect_remote
    [] cmd = "DISCONNECT" -> proxy_disconnect
    [] cmd = "TIMER" -> proxy_timer
    [] cmd = "UPDATE_SNS" -> proxy_update_active_sns
    [] OTHER -> <<>>

\* The parts to send are read from a list that was passed over as a whole.
RECURSIVE string_parts(_, _)
string_parts(s, parts) ==
  IF s[1] = "e" THEN Read(<<"l", parts>>, <<>>)
  ELSE Then(consume_string(s), LAMBDA part : string_parts(part.rest, Append(parts, <<"s", part.value>>)))

build_send_parts(c) ==
  Then(next_list_data(c), LAMBDA list :
    Then(string_parts(bt_list_consumer(list.value).data, <<>>), LAMBDA parts :
      [list EXCEPT !.value = parts.value]))

consume(c, type) ==
  CASE type.kind = "i" -> next_integer(c, type.range)
    [] type.kind = "s" -> next_string(c)
    [] type.kind = "l" -> build_send_parts(c)

\* proxy_send wants exactly one of conn_id, other than -1, and conn_pubkey;
\* proxy_disconnect a key if there is no other conn_id than -1.
sn_id(read) == "conn_id" \in DOMAIN read => read.conn_id = Number(-1)
Contradicts(read) ==
  \/ /\ cmd = "SEND" /\ script[step].key = "conn_pubkey"
     /\ \/ ("conn_pubkey" \in DOMAIN read) = ("conn_id" \in DOMAIN read)
        \/ "conn_id" \in DOMAIN read /\ sn_id(read)
  \/ /\ cmd = "DISCONNECT" /\ step = Len(script)
     /\ sn_id(read) /\ ("pubkey" \in DOMAIN read => read.pubkey = Empty)

\* One look for a key, and the value if it is there.
Now(c, read) == IF Contradicts(read) THEN Invalid ELSE [ok |-> TRUE, consumer |-> c, got |-> read]
Looked(s) ==
  Then(skip_until(consumer, <<s.key>>), LAMBDA c :
    IF found(c, <<s.key>>)
    THEN Then(consume(c, s.type), LAMBDA r : Now(r.consumer, got @@ (s.key :> r.value)))
    ELSE IF s.must THEN Invalid ELSE Now(c, got))

look ==
  /\ cmd \notin {"TIMER", "UPDATE_SNS"}
  /\ step \in DOMAIN script /\ consumer.ok
  /\ step' = step + 1
  /\ \E now \in {Looked(script[step])} :
       /\ consumer' = IF now.ok THEN now.consumer ELSE Invalid
       /\ got' = IF now.ok THEN now.got ELSE got
  /\ UNCHANGED <<cmd, given>>

\* The next item of a list; after its last one proxy_timer wants the end.
next_item ==
  LET s == script[step]
      r == consume_integer(consumer.data, s.type.range)
      fails == ~r.ok \/ (cmd = "TIMER" /\ step = Len(script) /\ r.rest[1] # "e")
  IN  /\ cmd \in {"TIMER", "UPDATE_SNS"}
      /\ step \in DOMAIN script /\ consumer.ok
      /\ step' = step + 1
      /\ consumer' = IF fails THEN Invalid ELSE [consumer EXCEPT !.data = r.rest]
      /\ got' = IF fails THEN got ELSE got @@ (s.key :> r.value)
      /\ UNCHANGED <<cmd, given>>

ControlNext ==
  \/ \E to \in Destination, chosen \in SUBSET DOMAIN send_options : send(to, chosen) \/ request(to, chosen)
  \/ \E key \in {<<>>, [pubkey |-> Str]}, chosen \in SUBSET DOMAIN remote_options : connect_remote(key, chosen)
  \/ \E chosen \in SUBSET DOMAIN sn_options : connect_sn(chosen)
  \/ \E id \in ConnectionID : disconnect(id)
  \/ \E squelch \in Boolean, thread \in {-1, 0, 2} : add_timer(squelch, thread)
  \/ update_active_sns
  \/ look
  \/ next_item

-----------------------------------------------------------------------------
\* Options of a plain send() that its handler does not look for.
Ignored == IF cmd = "SEND" /\ "request" \notin DOMAIN given THEN {"request_timeout"} ELSE {}

\* OptionsArrive: the handler of a control message never throws on what a caller
\* built, and at the end has every option that was given, with its value: items
\* of lists are read in the order in which they were written, and the keys of a
\* dict are looked for in the order in which bt_serialize writes them, so that
\* skip_until, which cannot go back, passes over none that is wanted later
\* ("Alphabetical order", connections.cpp:167).
OptionsArrive ==
  cmd # "" => /\ consumer.ok
              /\ step > Len(script) => got = Chosen(given, DOMAIN given \ Ignored)
=============================================================================
