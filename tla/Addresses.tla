----------------------------- MODULE Addresses ------------------------------
(***************************************************************************)
(* The address class (address.h, address.cpp): an object made by the       *)
(* constructor or a factory, changed by set_pubkey and printed in several  *)
(* forms that the constructor reads back.  An address text is the pair of  *)
(* what stands before and after the first "://"; the part after it is a    *)
(* sequence of characters.  A public key is a sequence of KeyLen bytes, 32 *)
(* in the code; the lengths of its encodings follow from KeyLen.           *)
(***************************************************************************)
EXTENDS Encodings

CONSTANTS KeyLen,     \* bytes of a public key
          Hosts,      \* host names given to the factories
          Ports,      \* port numbers given to the factories
          Sockets,    \* socket paths given to the factories
          Keys,       \* public keys given to the factories and to set_pubkey
          MaxEdits    \* bound: characters a person adds to or takes off a text

VARIABLES addr,       \* the address object
          text,       \* an address text outside of the program
          edits       \* how often the text was edited

address_vars == <<addr, text, edits>>

Encoding == {"hex", "base32z", "BASE32Z", "base64"}
Protocol == {"tcp", "tcp_curve", "ipc", "ipc_curve"}
curve(a) == a.protocol \in {"tcp_curve", "ipc_curve"}
tcp(a) == a.protocol \in {"tcp", "tcp_curve"}

Unparsable == [ok |-> FALSE]
Parsed(v) == [ok |-> TRUE, value |-> v]

\* 64, 43 and 52 for a key of 32 bytes; base64 may have a padding byte more.
enc_length(enc) == CASE enc = "hex" -> 2 * KeyLen
                     [] enc = "base64" -> (8 * KeyLen + 5) \div 6
                     [] OTHER -> (8 * KeyLen + 4) \div 5
hex_len == enc_length("hex")
b64_len == enc_length("base64")
b32z_len == enc_length("base32z")

-----------------------------------------------------------------------------
\* The key at the start of a text and what follows it.  Each encoding is tried
\* where the text is long enough; a base64 key may have a padding byte.
Taken(in, n, key) == Parsed(<<key, Drop(in, n)>>)
starts_hex(in) == Len(in) >= hex_len /\ is_hex(Prefix(in, hex_len))
starts_base32z(in) == Len(in) >= b32z_len /\ is_base32z(Prefix(in, b32z_len))
starts_base64(in) == Len(in) >= b64_len /\ is_base64(Prefix(in, b64_len))
take_hex(in) == Taken(in, hex_len, from_hex(Prefix(in, hex_len)))
take_base32z(in) == Taken(in, b32z_len, from_base32z(Prefix(in, b32z_len)))
take_base64(in) ==
  Taken(in, IF Len(in) > b64_len /\ in[b64_len + 1] = "=" THEN b64_len + 1 ELSE b64_len,
        from_base64(Prefix(in, b64_len)))

\* A variant that tries base64 before base32z.
decode_base64_first(in, qr) ==
  IF starts_hex(in) THEN take_hex(in)
  ELSE IF ~qr /\ starts_base64(in) THEN take_base64(in)
  ELSE IF starts_base32z(in) THEN take_base32z(in)
  ELSE Unparsable

decode_pubkey(in, qr) ==
  IF starts_hex(in) THEN take_hex(in)
  ELSE IF starts_base32z(in) THEN take_base32z(in)
  ELSE IF ~qr /\ starts_base64(in) THEN take_base64(in)
  ELSE Unparsable

\* How many characters of the text are the host; 0 if there is no valid one.
ipv6_chars == {":", "."} \union Range(Digit) \union Range(SubSeq(Lower, 1, 6)) \union Range(SubSeq(Upper, 1, 6))
host_length(s, qr) ==
  LET first(Stop(_)) == LET at == {i \in 2..Len(s) : Stop(s[i])}
                        IN  IF at = {} THEN 0 ELSE CHOOSE i \in at : \A j \in at : i <= j
      close == first(LAMBDA c : c \notin ipv6_chars)
      colon == first(LAMBDA c : c = ":")
  IN  IF s[1] = "[" \/ (qr /\ s[1] = "$")
      THEN IF close # 0 /\ (s[close] = "]" \/ (qr /\ s[close] = "$")) THEN close ELSE 0
      ELSE IF s[1] = ":" \/ colon = 0 THEN 0 ELSE colon - 1

parsed_host(h, qr) ==
  IF ~qr THEN h
  ELSE LET v6 == h[1] = "$"
       IN  Map([i \in DOMAIN h |-> IF v6 /\ i = 1 THEN "[" ELSE IF v6 /\ i = Len(h) /\ h[i] = "$" THEN "]" ELSE h[i]],
               LowerOf)

\* The host, port and key of a tcp address.  A port above 65535 is refused, by
\* the code or, beyond an int, by std::stoi.
parse_tcp(s, qr, expect_pubkey) ==
  LET h == host_length(s, qr)
      after == Drop(s, h)
      digits == LeadingDigits(Drop(after, 1))
      port == Loop(LAMBDA v, c : IF v > 65535 THEN v ELSE 10 * v + digit_value[c], 0,
                        Prefix(Drop(after, 1), digits))
      left == Drop(after, 1 + digits)
      key == decode_pubkey(Drop(left, 1), qr)
      min == 1 + enc_length(IF qr THEN "base32z" ELSE "base64")
      found(k) == Parsed([host |-> parsed_host(Prefix(s, h), qr), port |-> port, pubkey |-> k])
  IN  IF \/ h = 0 \/ Len(after) < 2 \/ after[1] # ":" \/ digits = 0
         \/ port \notin 1..65535
      THEN Unparsable
      ELSE IF ~expect_pubkey
      THEN IF left = <<>> THEN found(<<>>) ELSE Unparsable
      ELSE IF Len(left) < min \/ left[1] # "/" \/ ~key.ok THEN Unparsable
      ELSE IF key.value[2] # <<>> THEN Unparsable
      ELSE found(key.value[1])

\* The path and key of an ipc address: the key stands behind the last n
\* characters and a slash.
parse_unix(s, expect_pubkey) ==
  LET padded == IF Last(s) = "=" THEN b64_len + 1 ELSE b64_len
      behind(n) == Drop(s, Len(s) - n)
      slash(n) == Len(s) > n /\ s[Len(s) - n] = "/"
      found(n, key) == Parsed([socket |-> Prefix(s, Len(s) - n - 1), pubkey |-> key])
  IN  IF ~expect_pubkey THEN Parsed([socket |-> s, pubkey |-> <<>>])
      ELSE IF slash(hex_len) /\ is_hex(behind(hex_len)) THEN found(hex_len, from_hex(behind(hex_len)))
      ELSE IF slash(b32z_len) /\ is_base32z(behind(b32z_len)) THEN found(b32z_len, from_base32z(behind(b32z_len)))
      ELSE IF slash(padded) /\ is_base64(behind(padded)) THEN found(padded, from_base64(behind(padded)))
      ELSE Unparsable

\* The protocol a text names; the upper-case names are the QR forms.
proto_of == [p \in {"tcp", "tcp+curve", "curve", "ipc", "ipc+curve", "TCP", "CURVE"} |->
               CASE p \in {"tcp", "TCP"} -> "tcp" [] p \in {"tcp+curve", "curve", "CURVE"} -> "tcp_curve"
                 [] p = "ipc" -> "ipc" [] p = "ipc+curve" -> "ipc_curve"]
qr_chars == Range(Upper) \union Range(Digit) \union {"$", ":", "/", ".", "-"}

\* The default member values, and the constructor.
unusable == [protocol |-> "tcp", host |-> <<>>, port |-> 0, socket |-> <<>>, pubkey |-> <<>>]
With(a, fields) == [f \in DOMAIN a |-> IF f \in DOMAIN fields THEN fields[f] ELSE a[f]]

address(t) ==
  LET qr == t.pro \in {"TCP", "CURVE"}
      a == [unusable EXCEPT !.protocol = proto_of[t.pro]]
      r == IF tcp(a) THEN parse_tcp(t.rest, qr, curve(a)) ELSE parse_unix(t.rest, curve(a))
  IN  IF \/ t.pro \notin DOMAIN proto_of
         \/ t.rest = <<>>
         \/ qr /\ ~(Range(t.rest) \subseteq qr_chars)
      THEN Unparsable
      ELSE IF r.ok THEN Parsed(With(a, r.value)) ELSE Unparsable

-----------------------------------------------------------------------------
\* Printing.
encode_pubkey(a, enc) ==
  CASE enc = "hex" -> to_hex(a.pubkey)
    [] enc = "base32z" -> to_base32z(a.pubkey)
    [] enc = "BASE32Z" -> Map(to_base32z(a.pubkey), UpperOf)
    [] enc = "base64" -> LET pk == to_base64(a.pubkey)
                         IN  IF Len(pk) = b64_len + 1 /\ Last(pk) = "=" THEN Front(pk) ELSE pk

where(a) == IF tcp(a) THEN a.host \o <<":">> \o to_string(a.port) ELSE a.socket

full_address(a, enc) ==
  [pro |-> CASE a.protocol = "tcp_curve" -> "curve" [] a.protocol = "ipc_curve" -> "ipc+curve"
             [] OTHER -> a.protocol,
   rest |-> where(a) \o (IF curve(a) THEN <<"/">> \o encode_pubkey(a, enc) ELSE <<>>)]

zmq_address(a) == [pro |-> IF tcp(a) THEN "tcp" ELSE "ipc", rest |-> where(a)]

\* Throws on a unix socket address or without a host.
qr_address(a) ==
  LET up == Map(a.host, UpperOf)
      v6 == up[1] = "[" /\ Last(up) = "]"
      host == [i \in DOMAIN up |-> IF v6 /\ i \in {1, Len(up)} THEN "$" ELSE up[i]]
  IN  [pro |-> IF curve(a) THEN "CURVE" ELSE "TCP",
       rest |-> host \o <<":">> \o to_string(a.port)
                \o (IF curve(a) THEN <<"/">> \o encode_pubkey(a, "BASE32Z") ELSE <<>>)]

\* operator==: members the protocol does not use are ignored.
Same(a, b) ==
  /\ a.protocol = b.protocol
  /\ IF tcp(a) THEN a.host = b.host /\ a.port = b.port ELSE a.socket = b.socket
  /\ curve(a) => a.pubkey = b.pubkey

-----------------------------------------------------------------------------
NoText == [pro |-> "", rest |-> <<>>]
AddressInit == addr = unusable /\ text = NoText /\ edits = 0

\* The factories make the first address.
Make(a) == addr = unusable /\ addr' = a /\ UNCHANGED <<text, edits>>
make_tcp(h, p) == Make([unusable EXCEPT !.host = h, !.port = p])
make_tcp_curve(h, p, k) ==
  Make([unusable EXCEPT !.protocol = "tcp_curve", !.host = h, !.port = p, !.pubkey = k])
make_ipc(s) == Make([unusable EXCEPT !.protocol = "ipc", !.socket = s])
make_ipc_curve(s, k) ==
  Make([unusable EXCEPT !.protocol = "ipc_curve", !.socket = s, !.pubkey = k])

\* set_pubkey with a whole key or with none.  The second test of the
\* code's first branch repeats the first, so an ipc_curve address keeps its
\* protocol when its key is taken away.
set_pubkey(pk) ==
  /\ addr # unusable /\ text = NoText
  /\ addr' = [addr EXCEPT
       !.protocol = IF pk = <<>>
                    THEN IF @ = "tcp_curve" THEN "tcp" ELSE @
                    ELSE CASE @ = "tcp" -> "tcp_curve" [] @ = "ipc" -> "ipc_curve" [] OTHER -> @,
       !.pubkey = pk]
  /\ UNCHANGED <<text, edits>>

\* The address is printed, a person may edit the text, and an address is
\* constructed from it.
print(t) == addr # unusable /\ text = NoText /\ text' = t /\ UNCHANGED <<addr, edits>>
edit == /\ edits < MaxEdits /\ text # NoText
        /\ \/ text' = [text EXCEPT !.rest = Append(@, "=")]
           \/ text' = [text EXCEPT !.rest = Append(@, "7")]
           \/ text.rest # <<>> /\ text' = [text EXCEPT !.rest = Front(@)]
        /\ edits' = edits + 1 /\ UNCHANGED addr
construct == /\ text # NoText /\ text' = NoText
             /\ addr' = IF address(text).ok THEN address(text).value ELSE addr
             /\ UNCHANGED edits

AddressNext ==
  \/ \E h \in Hosts, p \in Ports : make_tcp(h, p) \/ \E k \in Keys : make_tcp_curve(h, p, k)
  \/ \E s \in Sockets : make_ipc(s) \/ \E k \in Keys : make_ipc_curve(s, k)
  \/ \E k \in Keys \union {<<>>} : set_pubkey(k)
  \/ \E enc \in Encoding : print(full_address(addr, enc))
  \/ tcp(addr) /\ print(qr_address(addr))
  \/ print(zmq_address(addr))
  \/ edit
  \/ construct

-----------------------------------------------------------------------------
\* An ipc_curve address without a whole key: set_pubkey("") leaves one behind,
\* and parse_unix takes "/" with a key text that is one character short and
\* two padding bytes for a key of KeyLen - 1 bytes.
NoWholeKey(a) == a.protocol = "ipc_curve" /\ Len(a.pubkey) # KeyLen

RoundTrips(a) ==
  /\ \A enc \in Encoding :
       LET back == address(full_address(a, enc)) IN back.ok /\ Same(back.value, a)
  /\ tcp(a) => LET back == address(qr_address(a))
               IN  back.ok /\ Same(back.value, [a EXCEPT !.host = Map(@, LowerOf)])

\* AddressRoundTrip: whatever the constructor accepts, the factories make and
\* set_pubkey leaves behind, full_address in any encoding is a text the
\* constructor reads back to an equal address, and qr_address one it reads back
\* to the address with a lower-case host (address.h:142-147).  Excepted are
\* the ipc_curve addresses of NoWholeKey.
AddressRoundTrip == addr = unusable \/ NoWholeKey(addr) \/ RoundTrips(addr)
=============================================================================
