---------------------------- MODULE KVQueueSpec ----------------------------
(***************************************************************************)
(* What the job queue of src/kvstore/kvstore.c promises its users: a FIFO *)
(* of jobs.  Jobs join at the back and leave from the front, one at a     *)
(* time, and nothing else changes the queue.                               *)
(***************************************************************************)
EXTENDS Sequences

CONSTANT Jobs

VARIABLE queue

Init == queue = <<>>

Enqueue(j) == queue' = Append(queue, j)

Dequeue == /\ queue # <<>>
           /\ queue' = Tail(queue)

Next == (\E j \in Jobs : Enqueue(j)) \/ Dequeue

Spec == Init /\ [][Next]_queue
=============================================================================
