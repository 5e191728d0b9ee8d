---------------------------- MODULE BtSerialize -----------------------------
(***************************************************************************)
(* bt encoding (bt_serialize.h, bt_serialize.cpp): the reader that makes   *)
(* values, the consumers that walk over the data in place, and the writer. *)
(*                                                                         *)
(* A string is a sequence of symbols.  A symbol is a character, or a whole *)
(* word where the letters of it do not matter; Alphabet has all symbols in *)
(* the order in which the code compares them.  A value is <<"i", n>>,      *)
(* <<"s", string>>, <<"l", sequence>> or <<"d", function>>.  Integers have *)
(* Width bits, 64 in the code.                                             *)
(***************************************************************************)
EXTENDS Text, Integers, TLC

CONSTANTS Alphabet,   \* the symbols, in ascending order
          Width,      \* bits of an integer
          Chunks,     \* pieces of text
          MaxChunks   \* bound: pieces of a text

VARIABLES received   \* a text from outside, piece by piece

ASSUME BtAssumption == Width \in Nat \ {0} /\ IsInjective(Alphabet)

\* What a reader makes of a text: a value and the rest, or an exception.
Invalid == [ok |-> FALSE]
Read(v, rest) == [ok |-> TRUE, value |-> v, rest |-> rest]

\* What is done with the outcome of a reader that did not throw.
Then(r, use(_)) == IF r.ok THEN use(r) ELSE Invalid

IsString(s) == IsDigit(s[1])

-----------------------------------------------------------------------------
(* Reading values.                                                         *)

\* One digit of the loop: the sum wraps around, and is refused if it is smaller
\* than the number so far.
next_digit(u, c) ==
  LET bigger == (u.value * 10 + digit_value[c]) % 2^Width
  IN  IF ~u.ok \/ bigger < u.value THEN [ok |-> FALSE, value |-> 0]
      ELSE [ok |-> TRUE, value |-> bigger]

extract_unsigned(s) ==
  LET n == LeadingDigits(s)
  IN  IF n = 0 THEN Invalid
      ELSE Then(Loop(next_digit, [ok |-> TRUE, value |-> 0], Prefix(s, n)),
                LAMBDA u : Read(u.value, Drop(s, n)))

bt_string(s) ==
  IF Len(s) < 2 THEN Invalid
  ELSE Then(extract_unsigned(s), LAMBDA len :
         IF len.rest = <<>> THEN Invalid
         ELSE IF len.rest[1] # ":" \/ len.value > Len(len.rest) - 1 THEN Invalid
         ELSE Read(SubSeq(len.rest, 2, len.value + 1), Drop(len.rest, len.value + 1)))

\* The sign is a flag in the code; "-0" is 0.
bt_deserialize_integer(s) ==
  LET negative == s[2] = "-"
  IN  IF Len(s) < 3 \/ s[1] # "i" THEN Invalid
      ELSE Then(extract_unsigned(Drop(s, IF negative THEN 2 ELSE 1)), LAMBDA u :
             IF u.rest = <<>> THEN Invalid
             ELSE IF u.rest[1] # "e" \/ (negative /\ u.value > 2^(Width - 1)) THEN Invalid
             ELSE Read(IF negative THEN -u.value ELSE u.value, Tail(u.rest)))

Tagged(tag, r) == Then(r, LAMBDA v : Read(<<tag, v.value>>, v.rest))

RECURSIVE bt_value(_), list_items(_, _), dict_items(_, _)

\* The loops of the list and dict readers; insert keeps the first of equal keys.
list_items(s, items) ==
  IF s = <<>> THEN Invalid
  ELSE IF s[1] = "e" THEN Read(items, Tail(s))
  ELSE Then(bt_value(s), LAMBDA v : list_items(v.rest, Append(items, v.value)))

dict_items(s, dict) ==
  IF s = <<>> THEN Invalid
  ELSE IF s[1] = "e" THEN Read(dict, Tail(s))
  ELSE Then(bt_string(s), LAMBDA k :
         Then(bt_value(k.rest), LAMBDA v : dict_items(v.rest, dict @@ (k.value :> v.value))))

bt_value(s) ==
  IF Len(s) < 2 THEN Invalid
  ELSE IF s[1] = "d" THEN Tagged("d", dict_items(Tail(s), <<>>))
  ELSE IF s[1] = "l" THEN Tagged("l", list_items(Tail(s), <<>>))
  ELSE IF s[1] = "i" THEN Tagged("i", bt_deserialize_integer(s))
  ELSE IF IsString(s) THEN Tagged("s", bt_string(s))
  ELSE Invalid

-----------------------------------------------------------------------------
(* Writing values.  bt_dict is an ordered map: keys come out sorted.       *)

rank == Positions(Alphabet)
Less(a, b) ==
  \E n \in 0 .. Len(b) - 1 :
    /\ n <= Len(a) /\ Prefix(a, n) = Prefix(b, n)
    /\ n = Len(a) \/ (n < Len(a) /\ rank[a[n + 1]] < rank[b[n + 1]])

Sorted(keys) ==
  [i \in 1 .. Cardinality(keys) |->
     CHOOSE k \in keys : Cardinality({x \in keys : Less(x, k)}) = i - 1]

write_string(s) == to_string(Len(s)) \o <<":">> \o s
\* A variant that writes the magnitude only.
write_magnitude(n) == <<"i">> \o to_string(IF n < 0 THEN -n ELSE n) \o <<"e">>

write_integer(n) == <<"i">> \o (IF n < 0 THEN <<"-">> \o to_string(-n) ELSE to_string(n)) \o <<"e">>

RECURSIVE bt_serialize(_)
bt_serialize(v) ==
  CASE v[1] = "i" -> write_integer(v[2])
    [] v[1] = "s" -> write_string(v[2])
    [] v[1] = "l" -> <<"l">> \o FlattenSeq([i \in DOMAIN v[2] |-> bt_serialize(v[2][i])]) \o <<"e">>
    [] v[1] = "d" -> LET keys == Sorted(DOMAIN v[2])
                     IN  <<"d">> \o FlattenSeq([i \in DOMAIN keys |->
                                      write_string(keys[i]) \o bt_serialize(v[2][keys[i]])]) \o <<"e">>

-----------------------------------------------------------------------------
(* The list consumer: what is left of the data after a value.              *)

RECURSIVE skip_value(_), skip_list(_), skip_dict(_)

skip_list(s) ==
  IF s[1] = "e" THEN Read("list", Tail(s))
  ELSE Then(skip_value(s), LAMBDA v : IF v.rest = <<>> THEN Invalid ELSE skip_list(v.rest))

\* A variant that takes any value for a key.
skip_dict_any_key(s) ==
  IF s[1] = "e" THEN Read("dict", Tail(s))
  ELSE Then(skip_value(s), LAMBDA k :
         IF k.rest = <<>> THEN Invalid
         ELSE Then(skip_value(k.rest), LAMBDA v : IF v.rest = <<>> THEN Invalid ELSE skip_dict(v.rest)))

skip_dict(s) ==
  IF s[1] = "e" THEN Read("dict", Tail(s))
  ELSE Then(bt_string(s), LAMBDA k :
         IF k.rest = <<>> THEN Invalid
         ELSE Then(skip_value(k.rest), LAMBDA v : IF v.rest = <<>> THEN Invalid ELSE skip_dict(v.rest)))

consume_list_data(s) == IF Len(s) < 2 \/ s[1] # "l" THEN Invalid ELSE skip_list(Tail(s))
consume_dict_data(s) == IF Len(s) < 2 \/ s[1] # "d" THEN Invalid ELSE skip_dict(Tail(s))

skip_value(s) ==
  IF IsString(s) THEN bt_string(s)
  ELSE IF s[1] = "i" THEN bt_deserialize_integer(s)
  ELSE IF s[1] = "l" THEN consume_list_data(s)
  ELSE IF s[1] = "d" THEN consume_dict_data(s)
  ELSE Invalid

-----------------------------------------------------------------------------
(* The dict consumer: the data left, and the key read ahead of its value.  *)

NoKey == <<"none">>
Key(k) == <<"key", k>>
bt_dict_consumer(s) == IF Len(s) < 2 \/ s[1] # "d" THEN Invalid ELSE [ok |-> TRUE, data |-> Tail(s), key |-> NoKey]

\* The consumer after consume_key: without a key only at the end.
consume_key(c) ==
  IF c.key # NoKey THEN c
  ELSE IF c.data = <<>> THEN Invalid
  ELSE IF c.data[1] = "e" THEN c
  ELSE Then(bt_string(c.data), LAMBDA k :
         IF k.rest = <<>> THEN Invalid
         ELSE IF k.rest[1] = "e" THEN Invalid
         ELSE [c EXCEPT !.data = k.rest, !.key = Key(k.value)])

RECURSIVE skip_until(_, _)
skip_until(c, find) ==
  Then(consume_key(c), LAMBDA k :
    IF k.key = NoKey THEN k
    ELSE IF ~Less(k.key[2], find) THEN k
    ELSE Then(skip_value(k.data), LAMBDA v : skip_until([k EXCEPT !.data = v.rest, !.key = NoKey], find)))

\* The value of skip_until: a missing key compares equal to the empty string.
found(c, find) == c.key = Key(find) \/ (c.key = NoKey /\ find = <<>>)

\* The consumer behind the key, as is_string and its like leave it; an exception
\* if there is none.
at_value(c) == Then(consume_key(c), LAMBDA k : IF k.key = NoKey THEN Invalid ELSE k)

\* The value that was read there, and the consumer after it, with the key flushed.
flush_key(k, read) ==
  Then(read, LAMBDA r :
    [ok |-> TRUE, value |-> r.value, consumer |-> [k EXCEPT !.data = r.rest, !.key = NoKey]])

IsList(s) == s[1] = "l"
IsDict(s) == s[1] = "d"
IsInteger(s) == s[1] = "i"

\* An integer type, as the range of its values.
bt_integer(s, range) ==
  Then(bt_deserialize_integer(s), LAMBDA r :
    IF r.value \in range THEN Read(<<"i", r.value>>, r.rest) ELSE Invalid)

next_string(c) ==
  Then(at_value(c), LAMBDA k : flush_key(k, IF IsString(k.data) THEN Tagged("s", bt_string(k.data)) ELSE Invalid))
next_integer(c, range) ==
  Then(at_value(c), LAMBDA k : flush_key(k, IF IsInteger(k.data) THEN bt_integer(k.data, range) ELSE Invalid))
next_list(c) == Then(at_value(c), LAMBDA k : flush_key(k, IF IsList(k.data) THEN bt_value(k.data) ELSE Invalid))
next_dict(c) == Then(at_value(c), LAMBDA k : flush_key(k, IF IsDict(k.data) THEN bt_value(k.data) ELSE Invalid))

\* The text of a whole list, without a look at its items; consume_list_data
\* refuses what is no list.
next_list_data(c) ==
  Then(at_value(c), LAMBDA k :
    flush_key(k, Then(consume_list_data(k.data), LAMBDA r :
      Read(Prefix(k.data, Len(k.data) - Len(r.rest)), r.rest))))

\* The list consumer, and its consume_string and consume_integer.
bt_list_consumer(s) == IF s = <<>> \/ s[1] # "l" THEN Invalid ELSE [ok |-> TRUE, data |-> Tail(s)]
consume_string(s) == IF s = <<>> \/ ~IsString(s) THEN Invalid ELSE bt_string(s)
consume_integer(s, range) == IF ~IsInteger(s) THEN Invalid ELSE bt_integer(s, range)

AnyInteger == -(2^(Width - 1)) .. 2^Width - 1
next_value(c) ==
  IF IsString(c.data) THEN next_string(c)
  ELSE IF IsInteger(c.data) THEN next_integer(c, AnyInteger)
  ELSE IF IsList(c.data) THEN next_list(c) ELSE next_dict(c)

-----------------------------------------------------------------------------
TextInit == received = <<>>
Receive(chunk) == Len(received) < MaxChunks /\ received' = Append(received, chunk)
TextNext == \E chunk \in Chunks : Receive(chunk)

AllReceived == FlattenSeq(received)

\* ParsersAgree: the consumers skip exactly the texts that the reader accepts,
\* and stop at the same place: a value that a handler passes over is one that
\* it could have read, and what follows it is not shifted (skip_value against
\* bt_deserialize<bt_value>).
ParsersAgree ==
  LET v == bt_value(AllReceived)
      s == skip_value(AllReceived)
  IN  received # <<>> => v.ok = s.ok /\ (v.ok => v.rest = s.rest)

\* Whether a consumer finds every key of a dict, with its value, and no other.
LooksUp(dict, keys) ==
  \A k \in keys :
    LET c == skip_until(bt_dict_consumer(bt_serialize(<<"d", dict>>)), k)
    IN  /\ c.ok /\ found(c, k) = (k \in DOMAIN dict)
        /\ k \in DOMAIN dict => next_value(c).ok /\ next_value(c).value = dict[k]

\* BtRoundTrip: whatever is accepted is written out, sorted and without
\* duplicate keys, as a text that reads back as the same value and leaves what
\* stood behind it; and skip_until finds in a written dict the keys it has, and
\* those only.  The empty key is left out: skip_until finds it in every dict
\* whose end it reaches.
BtRoundTrip ==
  LET r == bt_value(AllReceived)
  IN  r.ok => /\ bt_value(bt_serialize(r.value) \o r.rest) = r
              /\ r.value[1] = "d" => LooksUp(r.value[2], {<<"a">>, <<"b">>, <<"a", "a">>})
=============================================================================
