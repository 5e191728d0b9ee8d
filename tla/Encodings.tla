----------------------------- MODULE Encodings ------------------------------
(***************************************************************************)
(* The hex, base32z and base64 conversions of byte strings (hex.h,         *)
(* base32z.h and base64.h).  A byte is a number, a character a string of   *)
(* length one, and the shifts and masks of the code are the divisions and  *)
(* remainders by powers of two that they compute.                          *)
(***************************************************************************)
EXTENDS Text

CONSTANTS Bytes,      \* byte values
          MaxBytes    \* bound: the length of a byte string

VARIABLES bytes       \* a byte string, growing

to_hex_lut == Digit \o SubSeq(Lower, 1, 6)
to_b32z_lut ==
  <<"y", "b", "n", "d", "r", "f", "g", "8", "e", "j", "k", "m", "c", "p", "q", "x",
    "o", "t", "1", "u", "w", "i", "s", "z", "a", "3", "4", "5", "h", "7", "6", "9">>
to_b64_lut == Upper \o Lower \o Digit \o <<"+", "/">>

\* Reading ignores the case of hex and base32z digits.
from_hex_lut == LET p == Positions(to_hex_lut)
                IN  [c \in DOMAIN p \union Range(SubSeq(Upper, 1, 6)) |->
                       IF c \in DOMAIN p THEN p[c] ELSE p[LowerOf[c]]]
from_b32z_lut == LET p == Positions(to_b32z_lut)
                 IN  [c \in DOMAIN p \union {UpperOf[x] : x \in DOMAIN p \intersect Range(Lower)} |->
                        IF c \in DOMAIN p THEN p[c] ELSE p[LowerOf[c]]]
from_b64_lut == Positions(to_b64_lut)

-----------------------------------------------------------------------------
to_hex(x) ==
  [i \in 1..(2 * Len(x)) |->
     LET b == x[(i + 1) \div 2] IN to_hex_lut[(IF i % 2 = 1 THEN b \div 16 ELSE b % 16) + 1]]

is_hex(s) == Len(s) % 2 = 0 /\ \A i \in DOMAIN s : s[i] \in DOMAIN from_hex_lut

from_hex(s) ==
  [i \in 1..(Len(s) \div 2) |-> 16 * from_hex_lut[s[2 * i - 1]] + from_hex_lut[s[2 * i]]]

-----------------------------------------------------------------------------
\* One turn of the loop: 8 bits come in, 5 or 10 go out, st.bits of st.r stay.
b32z_in(st, byte) ==
  LET r == st.r * 256 + byte
      bits == st.bits + 3
      left == r % 2^bits
      one == Append(st.out, to_b32z_lut[(r \div 2^bits) + 1])
  IN  IF bits >= 5
      THEN [bits |-> bits - 5, r |-> left % 2^(bits - 5),
            out |-> Append(one, to_b32z_lut[(left \div 2^(bits - 5)) + 1])]
      ELSE [bits |-> bits, r |-> left, out |-> one]

\* A variant of the last character that leaves the bits on the right.
to_base32z_unshifted(x) ==
  LET st == Loop(b32z_in, [bits |-> 0, r |-> 0, out |-> <<>>], x)
  IN  IF st.bits > 0 THEN Append(st.out, to_b32z_lut[st.r + 1]) ELSE st.out

to_base32z(x) ==
  LET st == Loop(b32z_in, [bits |-> 0, r |-> 0, out |-> <<>>], x)
  IN  IF st.bits > 0 THEN Append(st.out, to_b32z_lut[st.r * 2^(5 - st.bits) + 1]) ELSE st.out

is_base32z(s) == \A i \in DOMAIN s : s[i] \in DOMAIN from_b32z_lut

b32z_out(st, c) ==
  LET curr == st.curr * 32 + from_b32z_lut[c]
  IN  IF st.bits >= 3
      THEN [bits |-> st.bits - 3, curr |-> curr % 2^(st.bits - 3),
            out |-> Append(st.out, (curr \div 2^(st.bits - 3)) % 256)]
      ELSE [bits |-> st.bits + 5, curr |-> curr, out |-> st.out]

from_base32z(s) == Loop(b32z_out, [bits |-> 0, curr |-> 0, out |-> <<>>], s).out

-----------------------------------------------------------------------------
b64_in(st, byte) ==
  LET r == st.r * 256 + byte
      bits == st.bits + 2
      left == r % 2^bits
      one == Append(st.out, to_b64_lut[(r \div 2^bits) + 1])
  IN  IF bits = 6
      THEN [bits |-> 0, r |-> 0, out |-> Append(one, to_b64_lut[left + 1])]
      ELSE [bits |-> bits, r |-> left, out |-> one]

to_base64(x) ==
  LET st == Loop(b64_in, [bits |-> 0, r |-> 0, out |-> <<>>], x)
  IN  CASE st.bits = 0 -> st.out
        [] st.bits = 2 -> st.out \o <<to_b64_lut[st.r * 16 + 1], "=", "=">>
        [] st.bits = 4 -> st.out \o <<to_b64_lut[st.r * 4 + 1], "=">>

\* Padding is allowed when it fills the text up to a multiple of 4.
unpadded(s) ==
  IF s = <<>> \/ Len(s) % 4 # 0 \/ Last(s) # "=" THEN s
  ELSE IF s[Len(s) - 1] = "=" THEN SubSeq(s, 1, Len(s) - 2) ELSE Front(s)

is_base64(s) == \A i \in DOMAIN unpadded(s) : s[i] \in DOMAIN from_b64_lut

b64_out(st, c) ==
  LET curr == st.curr * 64 + from_b64_lut[c]
  IN  IF c = "=" THEN st
      ELSE IF st.bits = 0 THEN [bits |-> 6, curr |-> curr, out |-> st.out]
      ELSE [bits |-> st.bits - 2, curr |-> curr % 2^(st.bits - 2),
            out |-> Append(st.out, (curr \div 2^(st.bits - 2)) % 256)]

from_base64(s) == Loop(b64_out, [bits |-> 0, curr |-> 0, out |-> <<>>], s).out

-----------------------------------------------------------------------------
\* What the encodings mean, without a buffer: the bits of the bytes, most
\* significant first, cut into groups of n and filled up with zeros.
Bits(x) == [i \in 1..(8 * Len(x)) |->
                  (x[((i - 1) \div 8) + 1] \div 2^(7 - ((i - 1) % 8))) % 2]
Groups(x, n, lut) ==
  LET b == Bits(x)
      bit(i) == IF i \in DOMAIN b THEN b[i] ELSE 0
      value(g) == Loop(LAMBDA v, k : 2 * v + bit(n * (g - 1) + k), 0, [k \in 1..n |-> k])
  IN  [g \in 1..((Len(b) + n - 1) \div n) |-> lut[value(g) + 1]]

BytesInit == bytes = <<>>
BytesNext == Len(bytes) < MaxBytes /\ \E b \in Bytes : bytes' = Append(bytes, b)

\* EncodingsExact: each encoder writes exactly the bits of its input, in groups
\* of 4, 5 or 6 bits from the left, and base64 pads to whole groups of 4
\* characters; its own checker accepts the text and its decoder gives the input
\* back, also in the other case for hex and base32z and without padding for
\* base64.  No bit is lost or doubled in the buffers between bytes and groups.
EncodingsExact ==
  LET h == to_hex(bytes)
      z == to_base32z(bytes)
      b == to_base64(bytes)
  IN  /\ h = Groups(bytes, 4, to_hex_lut) /\ is_hex(h)
      /\ z = Groups(bytes, 5, to_b32z_lut) /\ is_base32z(z)
      /\ unpadded(b) = Groups(bytes, 6, to_b64_lut) /\ is_base64(b) /\ Len(b) % 4 = 0
      /\ from_hex(h) = bytes /\ from_hex(Map(h, UpperOf)) = bytes
      /\ from_base32z(z) = bytes /\ from_base32z(Map(z, UpperOf)) = bytes
      /\ from_base64(b) = bytes /\ from_base64(unpadded(b)) = bytes
=============================================================================
