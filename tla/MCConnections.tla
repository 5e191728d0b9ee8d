--------------------------- MODULE MCConnections ---------------------------
(* Small instances of Connections for TLC. *)
EXTENDS Connections

Plain == [optional |-> FALSE, incoming |-> FALSE, outgoing |-> FALSE, fail |-> FALSE, full |-> FALSE]
Routes == {"r1"}

\* Any connection, an outgoing one, an incoming one, and with callbacks.
AllOptions == {Plain, [Plain EXCEPT !.outgoing = TRUE], [Plain EXCEPT !.incoming = TRUE],
               [Plain EXCEPT !.optional = TRUE, !.fail = TRUE, !.full = TRUE]}
OutOptions == {[Plain EXCEPT !.outgoing = TRUE], [Plain EXCEPT !.outgoing = TRUE, !.fail = TRUE]}
InOptions == {[Plain EXCEPT !.outgoing = TRUE], [Plain EXCEPT !.incoming = TRUE]}
PlainOption == {Plain}
=============================================================================
