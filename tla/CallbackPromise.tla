-------------------------- MODULE CallbackPromise ---------------------------
(***************************************************************************)
(* What the callers of request() and connect_remote() are promised: from   *)
(* the call on there is someone waiting, the callback is called once, with *)
(* an outcome of its kind, and then nobody waits any more.  Only a connect *)
(* may be abandoned without a call, by a disconnect() or by the remote.    *)
(***************************************************************************)
EXTENDS Sequences

CONSTANTS Request, Connect

VARIABLES asked,     \* the calls made
          waiting,   \* those whose callback is still to come
          called     \* the outcomes each callback was called with

Outcome(x) == IF x \in Connect THEN {"success", "failure"} ELSE {"reply", "error", "TIMEOUT"}

Init == asked = {} /\ waiting = {} /\ called = [x \in Request \cup Connect |-> <<>>]

Ask(x) ==
  /\ x \notin asked
  /\ asked' = asked \cup {x} /\ waiting' = waiting \cup {x}
  /\ UNCHANGED called

Answer(x) ==
  /\ x \in waiting
  /\ waiting' = waiting \ {x}
  /\ \E r \in Outcome(x) : called' = [called EXCEPT ![x] = Append(@, r)]
  /\ UNCHANGED asked

\* Asked and answered at once.
Refuse(x) ==
  /\ x \notin asked
  /\ asked' = asked \cup {x}
  /\ \E r \in Outcome(x) : called' = [called EXCEPT ![x] = Append(@, r)]
  /\ UNCHANGED waiting

Abandon(x) ==
  /\ x \in waiting \cap Connect
  /\ waiting' = waiting \ {x}
  /\ UNCHANGED <<asked, called>>

Next == \E x \in Request \cup Connect : Ask(x) \/ Answer(x) \/ Refuse(x) \/ Abandon(x)

Spec == Init /\ [][Next]_<<asked, waiting, called>>
=============================================================================
