---------------------------- MODULE KVJobQueue -----------------------------
(***************************************************************************)
(* The job queue of src/kvstore/kvstore.c: a singly linked list of job_t   *)
(* with front and rear pointers.  A queue is a record [front, rear, next]  *)
(* where next maps every job_t to its next field.                          *)
(***************************************************************************)
EXTENDS Naturals, Sequences, FiniteSets

CONSTANTS NULL, Jobs

Link == Jobs \cup {NULL}

(* init_job_queue *)
EmptyQueue == [front |-> NULL, rear |-> NULL, next |-> [j \in Jobs |-> NULL]]

(* Mutant: the new job is linked to the job after the rear one. *)
JobEnqueueOffByOne(q, j) ==
  IF q.rear = NULL THEN [q EXCEPT !.front = j, !.rear = j]
  ELSE [q EXCEPT !.next[q.rear] = j + 1, !.rear = j]

(* Mutant: the new job is pushed at the front. *)
JobEnqueueAtFront(q, j) ==
  IF q.rear = NULL THEN [q EXCEPT !.front = j, !.rear = j]
  ELSE [q EXCEPT !.next[j] = q.front, !.front = j]

(* job_enqueue, after main has set new_job->next = NULL. *)
JobEnqueue(q, j) ==
  IF q.rear = NULL THEN [q EXCEPT !.front = j, !.rear = j, !.next[j] = NULL]
  ELSE [q EXCEPT !.next[q.rear] = j, !.rear = j, !.next[j] = NULL]

(* Mutant: rear is left pointing at the job just taken. *)
JobDequeueNoRearReset(q) ==
  IF q.front = NULL THEN [job |-> NULL, q |-> q]
  ELSE [job |-> q.front, q |-> [q EXCEPT !.front = q.next[q.front]]]

(* job_dequeue: [job, q], job NULL when the queue is empty. *)
JobDequeue(q) ==
  IF q.front = NULL THEN [job |-> NULL, q |-> q]
  ELSE LET rest == q.next[q.front]
       IN [job |-> q.front,
           q |-> [q EXCEPT !.front = rest,
                           !.rear = IF rest = NULL THEN NULL ELSE @]]

(* The jobs met walking next from x, at most n of them. *)
RECURSIVE ChainFrom(_, _, _)
ChainFrom(q, x, n) ==
  IF x = NULL \/ n = 0 THEN <<>>
  ELSE <<x>> \o ChainFrom(q, q.next[x], n - 1)

(* The sequence of jobs the list holds, front first.  A cycle shows up as *)
(* a job repeated, the walk being cut after one more job than exist.      *)
Chain(q) == ChainFrom(q, q.front, Cardinality(Jobs) + 1)
=============================================================================
