----------------------------- MODULE MCKVStore -----------------------------
(***************************************************************************)
(* The two halves of src/kvstore/kvstore.c checked in one model: the      *)
(* thread structure around the job queue (KVServer), the hash table      *)
(* under the requests the workers serve (KVHashTable), and one worker's   *)
(* request loop over the connections it serves (KVSession).  They share   *)
(* no variable, so Init picks one of them (active) and only that one      *)
(* takes steps; each keeps its own worker set.                            *)
(***************************************************************************)
EXTENDS Naturals, Sequences, SequencesExt

CONSTANTS
  Active,                                  \* halves to explore
  NULL,
  SrvWorkers, MaxJobs, SpuriousWakeups,    \* KVServer
  HtWorkers, Keys, Vals, MaxOps,           \* KVHashTable
  SessKeys, NConns, SizeWidth              \* KVSession

VARIABLES
  active,
  q, srvPc, job, accepted, served, crashed,
  head, item, freed, fault, htPc, req, target, new, oldHead, branch, ops,
  store, script, nextConn, conn, stream, sessPc, sessReq, closeFlag, len,
  buf, errno, resp

(* What a client of the session may send: up to two of the common        *)
(* requests, or one of the requests the server rejects or cannot finish; *)
(* and whether it leaves without reading the answers.                    *)
CommonRequests ==
  [kind : {"SET"}, key : SessKeys, val : Vals]
    \cup [kind : {"GET", "DEL"}, key : SessKeys, val : {NULL}]
    \cup [kind : {"PING"}, key : {NULL}, val : {NULL}]
OddRequests ==
  [kind : {"SETCUT", "HUGE"}, key : SessKeys, val : {NULL}]
    \cup [kind : {"RESET", "BAD", "EMPTY", "LONG"}, key : {NULL}, val : {NULL}]
SessScripts ==
  [reqs : SeqOf(CommonRequests, 2) \cup {<<r>> : r \in OddRequests},
   gone : BOOLEAN]

Srv == INSTANCE KVServer WITH Workers <- SrvWorkers, pc <- srvPc
HT  == INSTANCE KVHashTable WITH Workers <- HtWorkers, pc <- htPc
Sess == INSTANCE KVSession WITH Keys <- SessKeys, Scripts <- SessScripts,
                                pc <- sessPc, req <- sessReq

srvVars == <<q, srvPc, job, accepted, served, crashed>>
htVars  == <<head, item, freed, fault, htPc, req, target, new, oldHead, branch, ops>>
sessVars == <<store, script, nextConn, conn, stream, sessPc, sessReq,
             closeFlag, len, buf, errno, resp>>
vars    == <<active, srvVars, htVars, sessVars>>

(* The clients' scripts are chosen only for the session; the other halves *)
(* keep one empty script per connection.                                 *)
Init ==
  /\ active \in Active
  /\ Srv!Init /\ HT!Init /\ Sess!Init
  /\ active # "session" => script = [c \in 1 .. NConns |-> [reqs |-> <<>>, gone |-> FALSE]]

SrvStep(A) == active = "server" /\ A /\ UNCHANGED <<active, htVars, sessVars>>
HtStep(A)  == active = "table" /\ A /\ UNCHANGED <<active, srvVars, sessVars>>
SessStep(A) == active = "session" /\ A /\ UNCHANGED <<active, srvVars, htVars>>

Next ==
  \/ SrvStep(Srv!ProducerAccept)
  \/ \E w \in SrvWorkers : SrvStep(Srv!WorkerWait(w))
  \/ \E w \in SrvWorkers : SrvStep(Srv!SpuriousWake(w))
  \/ \E w \in SrvWorkers : SrvStep(Srv!WorkerFetch(w))
  \/ \E w \in SrvWorkers : SrvStep(Srv!WorkerServe(w))
  \/ \E w \in HtWorkers : HtStep(HT!Receive(w))
  \/ \E w \in HtWorkers : HtStep(HT!SetWrite(w))
  \/ \E w \in HtWorkers : HtStep(HT!SetAlloc(w))
  \/ \E w \in HtWorkers : HtStep(HT!SetReadHead(w))
  \/ \E w \in HtWorkers : HtStep(HT!SetLink(w))
  \/ \E w \in HtWorkers : HtStep(HT!SetPublish(w))
  \/ \E w \in HtWorkers : HtStep(HT!GetSend(w))
  \/ \E w \in HtWorkers : HtStep(HT!DelTest(w))
  \/ \E w \in HtWorkers : HtStep(HT!DelW1(w))
  \/ \E w \in HtWorkers : HtStep(HT!DelW2(w))
  \/ \E w \in HtWorkers : HtStep(HT!DelFree(w))
  \/ SessStep(Sess!Fetch)
  \/ SessStep(Sess!RecvEOF)
  \/ SessStep(Sess!RecvLong)
  \/ SessStep(Sess!RecvHeader)
  \/ SessStep(Sess!ReadPayload)
  \/ SessStep(Sess!SetFinish)
  \/ SessStep(Sess!Get)
  \/ SessStep(Sess!Del)
  \/ SessStep(Sess!Close)

Spec == Init /\ [][Next]_vars

(* The session's worker thread is scheduled whenever it can run. *)
FairSpec == Spec /\ WF_vars(Next)

TypeOK == active \in Active /\ Srv!TypeOK /\ HT!TypeOK /\ Sess!TypeOK

\* Each accepted connection's job is in exactly one place: queued once,
\* held by one worker in main_job, or served (job_enqueue, job_dequeue and
\* the worker loop of kvstore.c).
JobsConserved == Srv!JobsConserved

\* The job list read front to rear behaves as a FIFO (job_enqueue and
\* job_dequeue of kvstore.c).
QueueRefinement == Srv!QueueRefinement

\* Between requests the bucket is a well formed doubly linked list of live
\* items (set_request, del_item of kvstore.c).
BucketWellFormed == HT!BucketWellFormed

\* The table read through get_item behaves as a map (set_request,
\* get_request, del_request of kvstore.c).
StoreRefinement == HT!StoreRefinement

\* Each response main_job writes answers the request in the same position
\* of the client's stream (parse_header, read_payload, check_payload and
\* the handlers keep the byte stream framed).
AnsweredInOrder == Sess!AnsweredInOrder

\* Every connection the session's worker takes is eventually closed: the
\* main_job loop ends on EOF, a bad header or a cut payload, the last by
\* set_request's size_t wrap of len.
ConnectionsClosed == active = "session" => Sess!ConnectionsClosed

\* A client that reads its answers and sends only well-formed requests
\* gets every one answered (parse_header's errno test after strtoul).
EveryRequestAnswered == Sess!EveryRequestAnswered
=============================================================================
