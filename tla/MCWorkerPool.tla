---------------------------- MODULE MCWorkerPool ----------------------------
(***************************************************************************)
(* Small instances of WorkerPool: category `a` reserves a thread, `b` does *)
(* not.                                                                    *)
(***************************************************************************)
EXTENDS WorkerPool

CONSTANTS a, b, t1, t2

OneReserved == [c \in Category |-> IF c = a THEN 1 ELSE 0]

\* the value that leaves a thread count to start()
Unset == -1

\* `a` may queue one command, `b` any number
Queues == [c \in Category |-> IF c = a THEN 1 ELSE -1]
=============================================================================
