----------------------------- MODULE MCBatches -----------------------------
(* Small instances of Batches for TLC. *)
EXTENDS Batches, TLC

\* Clients can be renamed: nothing tells them apart.
ClientSymmetry == Permutations(Client)
=============================================================================
