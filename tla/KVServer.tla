----------------------------- MODULE KVServer ------------------------------
(***************************************************************************)
(* The thread structure of src/kvstore/kvstore.c: main accepts            *)
(* connections and enqueues one job per connection; worker threads take   *)
(* jobs off the queue and serve them.  The queue is guarded by the mutex  *)
(* mtx and workers sleep on the condition variable cond.                   *)
(*                                                                         *)
(* Every critical section (main's lock/enqueue/signal/unlock, a worker's  *)
(* lock/cond_wait, and its relock/dequeue/unlock on return from           *)
(* cond_wait) touches only state the mutex protects, so each is one       *)
(* atomic step and the mutex itself is left implicit.                     *)
(***************************************************************************)
EXTENDS Naturals, Sequences, FiniteSets, SequencesExt

CONSTANTS
  NULL,             \* the null pointer
  Workers,          \* the threads of thread_pool (MAX_WORKERS of them)
  MaxJobs,          \* connections main accepts
  SpuriousWakeups   \* whether pthread_cond_wait may return unsignalled

Jobs == 1 .. MaxJobs

INSTANCE KVJobQueue

VARIABLES
  q,          \* job_pool
  pc,         \* where each worker is in its loop
  job,        \* the job each worker has taken
  accepted,   \* connections main has accepted (the last job's id)
  served,     \* jobs whose connection main_job has served
  crashed     \* a worker dereferenced the NULL returned by job_dequeue

vars == <<q, pc, job, accepted, served, crashed>>

(* Worker program counter:                                                 *)
(*   "lock"    top of the for loop, before pthread_mutex_lock             *)
(*   "blocked" inside pthread_cond_wait                                    *)
(*   "woken"   returning from pthread_cond_wait, reacquiring mtx           *)
(*   "serve"   in main_job                                                 *)
PC == {"lock", "blocked", "woken", "serve"}

Init ==
  /\ q = EmptyQueue
  /\ pc = [w \in Workers |-> "lock"]
  /\ job = [w \in Workers |-> NULL]
  /\ accepted = 0
  /\ served = {}
  /\ crashed = FALSE

(* Lines 289-293: lock mtx and wait on cond without looking at the queue. *)
WorkerWait(w) ==
  /\ ~crashed
  /\ pc[w] = "lock"
  /\ pc' = [pc EXCEPT ![w] = "blocked"]
  /\ UNCHANGED <<q, job, accepted, served, crashed>>

(* pthread_cond_wait returning without a signal, which POSIX allows. *)
SpuriousWake(w) ==
  /\ SpuriousWakeups
  /\ ~crashed
  /\ pc[w] = "blocked"
  /\ pc' = [pc EXCEPT ![w] = "woken"]
  /\ UNCHANGED <<q, job, accepted, served, crashed>>

(* Lines 293-300: mtx reacquired, job_dequeue(job_pool)->connection, unlock.*)
(* On an empty queue the dereference of NULL kills the server.           *)
WorkerFetch(w) ==
  /\ ~crashed
  /\ pc[w] = "woken"
  /\ LET r == JobDequeue(q)
     IN IF r.job = NULL
        THEN /\ crashed' = TRUE
             /\ UNCHANGED <<q, pc, job>>
        ELSE /\ q' = r.q
             /\ job' = [job EXCEPT ![w] = r.job]
             /\ pc' = [pc EXCEPT ![w] = "serve"]
             /\ UNCHANGED crashed
  /\ UNCHANGED <<accepted, served>>

(* Line 303: main_job serves the connection, then the loop starts over. *)
WorkerServe(w) ==
  /\ ~crashed
  /\ pc[w] = "serve"
  /\ served' = served \cup {job[w]}
  /\ pc' = [pc EXCEPT ![w] = "lock"]
  /\ job' = [job EXCEPT ![w] = NULL]
  /\ UNCHANGED <<q, accepted, crashed>>

(* pthread_cond_signal: one blocked worker, if any, leaves cond_wait.   *)
(* With no worker blocked the signal is lost.                            *)
Signal ==
  \/ \E w \in Workers : /\ pc[w] = "blocked"
                        /\ pc' = [pc EXCEPT ![w] = "woken"]
  \/ /\ \A w \in Workers : pc[w] # "blocked"
     /\ UNCHANGED pc

(* Lines 328-348: accept a connection, then under mtx enqueue a job for   *)
(* it and signal cond.  A failed accept changes nothing and is omitted.  *)
ProducerAccept ==
  /\ ~crashed
  /\ accepted < MaxJobs
  /\ accepted' = accepted + 1
  /\ q' = JobEnqueue(q, accepted + 1)
  /\ Signal
  /\ UNCHANGED <<job, served, crashed>>

Worker(w) == WorkerWait(w) \/ SpuriousWake(w) \/ WorkerFetch(w) \/ WorkerServe(w)

Next == ProducerAccept \/ \E w \in Workers : Worker(w)

Spec == Init /\ [][Next]_vars

(* Worker threads are always scheduled again; clients need not connect, *)
(* so main gets no fairness.                                             *)
FairSpec == Spec /\ \A w \in Workers : WF_vars(Worker(w))

-----------------------------------------------------------------------------
(* Properties.                                                             *)

TypeOK ==
  /\ q \in [front : Link, rear : Link, next : [Jobs -> Link]]
  /\ pc \in [Workers -> PC]
  /\ job \in [Workers -> Link]
  /\ accepted \in 0 .. MaxJobs
  /\ served \subseteq Jobs
  /\ crashed \in BOOLEAN

(* No worker ever takes a job from an empty queue: the job_dequeue at     *)
(* line 298 returns a job, so the ->connection dereference is safe.      *)
NoNullDequeue == ~crashed

(* Each accepted connection's job is in exactly one place: once in the    *)
(* list, held by one worker in main_job, or served; no other job is       *)
(* anywhere.  job_enqueue and job_dequeue neither lose nor duplicate one.*)
JobsConserved ==
  LET inQueue == Chain(q)
      held    == {job[w] : w \in {v \in Workers : pc[v] = "serve"}}
  IN /\ IsInjective(inQueue)
     /\ Cardinality(held) = Cardinality({w \in Workers : pc[w] = "serve"})
     /\ ToSet(inQueue) \cap held = {}
     /\ ToSet(inQueue) \cap served = {}
     /\ held \cap served = {}
     /\ ToSet(inQueue) \cup held \cup served = 1 .. accepted

(* The linked list behaves as the FIFO of KVQueueSpec: read front to      *)
(* rear it changes only by a job joining at the rear or leaving at the    *)
(* front.                                                                  *)
QueueSpec == INSTANCE KVQueueSpec WITH queue <- Chain(q)
QueueRefinement == QueueSpec!Spec

(* Every connection main accepts is eventually served by a worker, given *)
(* that workers keep running.                                             *)
EveryJobServed == \A j \in Jobs : (j <= accepted) ~> (j \in served)
=============================================================================
