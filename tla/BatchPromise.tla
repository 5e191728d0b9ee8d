---------------------------- MODULE BatchPromise ----------------------------
(***************************************************************************)
(* What a batch promises, whoever runs it: each of its jobs runs once, in  *)
(* any order, then its completion function, if it has one, runs once, and  *)
(* the batch ends after all of that and is never heard of again.           *)
(***************************************************************************)
EXTENDS Naturals, Sequences, Functions

CONSTANTS Batch,        \* 1 .. n
          Completion    \* stands for the completion function among the calls

VARIABLES plan,     \* jobs and completion function of each batch handed over
          calls,    \* what has been run of each batch, in order
          ended     \* batches that are over

HandedOver == DOMAIN plan
Jobs(b) == 1 .. plan[b].jobs
JobsRun(b) == Jobs(b) \subseteq Range(calls[b])
Over(b) == JobsRun(b) /\ (plan[b].completes <=> Completion \in Range(calls[b]))

Init == plan = <<>> /\ calls = [b \in Batch |-> <<>>] /\ ended = {}

\* The next batch, with at least one job.
HandOver ==
  /\ Len(plan') = Len(plan) + 1 /\ SubSeq(plan', 1, Len(plan)) = plan
  /\ plan'[Len(plan')] \in [jobs : Nat \ {0}, completes : BOOLEAN]
  /\ UNCHANGED <<calls, ended>>

Call(b, x) == calls' = [calls EXCEPT ![b] = Append(@, x)]

Run(b) ==
  /\ b \notin ended
  /\ \E i \in Jobs(b) \ Range(calls[b]) : Call(b, i)
  /\ UNCHANGED <<plan, ended>>

Complete(b) ==
  /\ b \notin ended /\ JobsRun(b) /\ plan[b].completes /\ Completion \notin Range(calls[b])
  /\ Call(b, Completion)
  /\ UNCHANGED plan
  /\ ended' \in {ended, ended \cup {b}}

End(b) ==
  /\ b \notin ended /\ Over(b)
  /\ ended' = ended \cup {b}
  /\ UNCHANGED <<plan, calls>>

Next == HandOver \/ \E b \in HandedOver : Run(b) \/ Complete(b) \/ End(b)

Spec == Init /\ [][Next]_<<plan, calls, ended>>
=============================================================================
