------------------------------ MODULE MCCodecs ------------------------------
(***************************************************************************)
(* One instance of the modules about texts.  They share no state, so each  *)
(* behaviour exercises one of them: byte strings, bt texts, dictionaries   *)
(* of control messages, or an address object.                              *)
(***************************************************************************)
EXTENDS Addresses, ControlMessages

VARIABLE exercised

Init == /\ exercised \in {"bytes", "text", "control", "address"}
        /\ BytesInit /\ TextInit /\ ControlInit /\ AddressInit

Next ==
  /\ UNCHANGED exercised
  /\ \/ exercised = "bytes" /\ BytesNext /\ UNCHANGED <<received, control_vars, address_vars>>
     \/ exercised = "text" /\ TextNext /\ UNCHANGED <<bytes, control_vars, address_vars>>
     \/ exercised = "control" /\ ControlNext /\ UNCHANGED <<bytes, received, address_vars>>
     \/ exercised = "address" /\ AddressNext /\ UNCHANGED <<bytes, received, control_vars>>

Spec == Init /\ [][Next]_<<exercised, bytes, received, control_vars, address_vars>>

-----------------------------------------------------------------------------
\* Byte values with bits at both ends, and enough bytes for every fill of the
\* buffers: 5 bytes are 40 bits, a multiple of 5 and not of 6.
MCBytes == {0, 1, 90, 128, 255}

\* A host name with an upper-case letter, an IPv6 literal, a path that ends
\* like one with a key, and keys at the ends of the alphabets ("/" in base64).
MCHosts == {<<"A", ".", "b">>, <<"[", ":", "f", "1", "]">>}
MCPorts == {1, 65535}
MCKeys == {[i \in 1..KeyLen |-> 255], [i \in 1..KeyLen |-> (37 * i) % 256]}
MCSockets == {<<"s">>, <<"/", "s", "/">> \o [i \in 1..hex_len |-> "a"]}

\* Words and the beginnings and ends of containers.
MCChunks == {<<"d">>, <<"l">>, <<"e">>, <<"i", "0", "e">>, <<"i", "-", "1">>, <<"1", ":", "a">>, <<"0", ":">>}

\* Characters and the names of options, in ASCII order among themselves.
MCAlphabet ==
  <<"-">> \o Digit \o
  <<":", "a", "b", "d", "e", "i", "l",
    "auth_level", "conn_id", "conn_pubkey", "conn_route", "connect", "ephemeral_rid", "failure", "hint",
    "incoming", "keep_alive", "linger_ms", "optional", "outgoing", "outgoing_only", "pubkey", "remote",
    "request", "request_callback", "request_tag", "request_timeout", "send", "send_fail", "send_full_q",
    "timeout">>
=============================================================================
