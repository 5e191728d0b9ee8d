-------------------------------- MODULE Text --------------------------------
(***************************************************************************)
(* Characters and decimal numbers, shared by the modules about texts.  A   *)
(* text is a sequence of characters, a character a string of length one.   *)
(***************************************************************************)
EXTENDS Naturals, Sequences, SequencesExt

Digit == <<"0", "1", "2", "3", "4", "5", "6", "7", "8", "9">>
Lower == <<"a", "b", "c", "d", "e", "f", "g", "h", "i", "j", "k", "l", "m",
           "n", "o", "p", "q", "r", "s", "t", "u", "v", "w", "x", "y", "z">>
Upper == <<"A", "B", "C", "D", "E", "F", "G", "H", "I", "J", "K", "L", "M",
           "N", "O", "P", "Q", "R", "S", "T", "U", "V", "W", "X", "Y", "Z">>

\* The position of every character of an alphabet, counted from 0.
Positions(s) == [c \in Range(s) |-> (CHOOSE i \in DOMAIN s : s[i] = c) - 1]

UpperOf == [c \in Range(Lower) |-> Upper[Positions(Lower)[c] + 1]]
LowerOf == [c \in Range(Upper) |-> Lower[Positions(Upper)[c] + 1]]
Map(s, f) == [i \in DOMAIN s |-> IF s[i] \in DOMAIN f THEN f[s[i]] ELSE s[i]]

\* A loop over a text: step applied to the state and each character in turn.
Loop(step(_, _), first, s) ==
  LET after[i \in 0..Len(s)] == IF i = 0 THEN first ELSE step(after[i - 1], s[i])
  IN  after[Len(s)]

digit_value == Positions(Digit)
IsDigit(c) == c \in DOMAIN digit_value

\* std::to_string of a natural number below 10^9: its digits without leading zeros.
to_string(n) ==
  LET k == CHOOSE j \in 1..9 : n < 10^j /\ (j = 1 \/ n >= 10^(j - 1))
  IN  [i \in 1..k |-> Digit[((n \div 10^(k - i)) % 10) + 1]]

\* The digits at the start of a text, and the text without its first n characters.
LeadingDigits(s) ==
  LET stop == {i \in DOMAIN s : ~IsDigit(s[i])}
  IN  IF stop = {} THEN Len(s) ELSE (CHOOSE i \in stop : \A j \in stop : i <= j) - 1
Prefix(s, n) == SubSeq(s, 1, n)
Drop(s, n) == SubSeq(s, n + 1, Len(s))
=============================================================================
