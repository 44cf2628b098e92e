------------------------------ MODULE LogQueue ------------------------------
(***************************************************************************)
(* What the request channel of the log engine promises its users, with    *)
(* the mutex, the condition variable and the `waitting` flag of the       *)
(* implementation left out: requests are queued in arrival order, and the *)
(* log worker removes ALL queued requests in one step (the group commit   *)
(* batch).  Nothing is lost, duplicated or reordered.                     *)
(*                                                                         *)
(* Channel.tla is the implementation; it is shown to implement this       *)
(* module under the mapping queue <- requests, batches <- taken.          *)
(***************************************************************************)
EXTENDS Sequences

CONSTANT Items          \* what may be queued

VARIABLES
    queue,              \* the requests not yet handed to the worker
    batches             \* every batch handed to the worker so far, in order

vars == <<queue, batches>>

Init ==
    /\ queue = <<>>
    /\ batches = <<>>

\* A producer queues one item behind all the earlier ones.
Enqueue(item) ==
    /\ queue' = Append(queue, item)
    /\ UNCHANGED batches

\* The worker takes everything that is queued; it never takes an empty batch.
TakeAll ==
    /\ queue # <<>>
    /\ batches' = Append(batches, queue)
    /\ queue' = <<>>

Next ==
    \/ \E item \in Items : Enqueue(item)
    \/ TakeAll

Spec == Init /\ [][Next]_vars

=============================================================================
