----------------------------- MODULE KVSession ------------------------------
(***************************************************************************)
(* One worker thread of src/kvstore running main_job (kvstore.c) on the    *)
(* connections it takes off the job queue, one after the other: the      *)
(* header parser (parser.c), recv_request and the payload readers         *)
(* (server_utils.c), the dispatcher and send_response                     *)
(* (request_dispatcher.c), and the SET/GET/DEL/RESET handlers.            *)
(*                                                                         *)
(* The bytes a client sends are a sequence of items: a header line given  *)
(* by its space-separated words, a line longer than MSG_SIZE - 1, one     *)
(* payload byte standing for a value, and the '\n' that ends a payload.   *)
(* The end of the sequence is the client's EOF.  A client that is gone    *)
(* (closed its socket without reading) makes any write fail with EPIPE;   *)
(* SIGPIPE is ignored (server_utils.c:145).                               *)
(*                                                                         *)
(* errno is thread-local and nothing in the loop clears it, so it is one  *)
(* variable of the thread, kept from one connection to the next.  The     *)
(* table is an abstract map here: races between workers on it are         *)
(* KVHashTable's subject, and with one worker every handler runs alone.   *)
(***************************************************************************)
EXTENDS Naturals, Sequences, SequencesExt

CONSTANTS
  NULL,        \* the null pointer
  Keys,        \* keys clients use
  Vals,        \* one-byte values clients store
  NConns,      \* connections this worker serves
  Scripts,     \* what a client may send: records [reqs, gone]
  SizeWidth    \* bits of size_t

Conns == 1 .. NConns

SIZE_MAX == 2^SizeWidth - 1

(* size_t arithmetic: modulo 2^SizeWidth. *)
SizeT(x) == x % (2^SizeWidth)

(* Linux errno values the loop can meet. *)
EPIPE == 32
ERANGE == 34

(* The request kinds a client script is made of. *)
ReqKinds == {"SET", "SETCUT", "HUGE", "GET", "DEL", "PING", "RESET",
             "BAD", "EMPTY", "LONG"}

(* The response codes of common.h that these handlers send. *)
Codes == {"OK", "KEY_ERROR", "PARSING_ERROR"}

(* Stream items. *)
Line(ws) == [t |-> "line", words |-> ws]
LongLine == [t |-> "long"]
Byte(v) == [t |-> "byte", v |-> v]
NL == [t |-> "nl"]

(* The bytes a client sends for one request.  A SET sends one value byte: *)
(* "SET k 1\n" v "\n".  SETCUT stops after the header; HUGE gives a       *)
(* length strtoul cannot represent.                                       *)
Encode(r) ==
  CASE r.kind = "SET"    -> <<Line(<<"SET", r.key, "1">>), Byte(r.val), NL>>
    [] r.kind = "SETCUT" -> <<Line(<<"SET", r.key, "1">>)>>
    [] r.kind = "HUGE"   -> <<Line(<<"SET", r.key, "huge">>)>>
    [] r.kind = "GET"    -> <<Line(<<"GET", r.key>>)>>
    [] r.kind = "DEL"    -> <<Line(<<"DEL", r.key>>)>>
    [] r.kind = "PING"   -> <<Line(<<"PING">>)>>
    [] r.kind = "RESET"  -> <<Line(<<"RESET">>)>>
    [] r.kind = "BAD"    -> <<Line(<<"FOO">>)>>
    [] r.kind = "EMPTY"  -> <<Line(<<>>)>>
    [] r.kind = "LONG"   -> <<LongLine>>

Bytes(reqs) == FlattenSeq([i \in 1 .. Len(reqs) |-> Encode(reqs[i])])

(* method_to_enum: the method_conversion table, UNK otherwise. *)
method_to_enum(w) ==
  IF w \in {"UNK", "SET", "GET", "DEL", "PING", "DUMP", "RESET", "EXIT", "SETOPT"}
  THEN w ELSE "UNK"

(* strtoul on the length words clients send, with the errno it sets. *)
Strtoul(w) == IF w = "huge" THEN SIZE_MAX ELSE 1
StrtoulErrno(w, e) == IF w = "huge" THEN ERANGE ELSE e

VARIABLES
  store,      \* the table, as a map from keys to values
  script,     \* what each connection's client sends
  nextConn,   \* the next connection the worker dequeues
  conn,       \* the connection main_job serves, 0 between connections
  stream,     \* bytes of conn not yet read
  pc,         \* where the worker is in main_job
  req,        \* *request: method, key, msg_len
  closeFlag,  \* request->connection_close
  len,        \* set_request's len
  buf,        \* set_request's buf: the value byte read, NULL if none
  errno,      \* the worker thread's errno
  resp        \* responses written on each connection, in order

vars == <<store, script, nextConn, conn, stream, pc, req, closeFlag, len,
          buf, errno, resp>>

Resp == [code : Codes, val : Vals \cup {NULL}, delivered : BOOLEAN]

Init ==
  /\ store = [k \in Keys |-> NULL]
  /\ script \in [Conns -> Scripts]
  /\ nextConn = 1
  /\ conn = 0
  /\ stream = <<>>
  /\ pc = "idle"
  /\ req = [method |-> "UNK", key |-> NULL, msg_len |-> 0]
  /\ closeFlag = FALSE
  /\ len = 0
  /\ buf = NULL
  /\ errno = 0
  /\ resp = [c \in Conns |-> <<>>]

-----------------------------------------------------------------------------
(* send_response (request_dispatcher.c) on conn: the status line and, for  *)
(* a GET hit, the value and its '\n'.  To a gone client any of the three  *)
(* writes may fail with EPIPE; the rest are then skipped and the caller   *)
(* ignores the -1.  e is errno before the call.                           *)
send_response(code, val, e) ==
  \/ /\ resp' = [resp EXCEPT ![conn] =
                   Append(@, [code |-> code, val |-> val, delivered |-> TRUE])]
     /\ errno' = e
  \/ /\ script[conn].gone
     /\ resp' = [resp EXCEPT ![conn] =
                   Append(@, [code |-> code, val |-> val, delivered |-> FALSE])]
     /\ errno' = EPIPE

(* main_job's loop test: another recv_request or close_connection. *)
LoopTest(close) == pc' = IF close THEN "close" ELSE "recv"

(* worker (kvstore.c) dequeues the next connection and calls main_job,   *)
(* which allocates the request and clears connection_close.              *)
Fetch ==
  /\ pc = "idle"
  /\ nextConn <= NConns
  /\ conn' = nextConn
  /\ nextConn' = nextConn + 1
  /\ stream' = Bytes(script[nextConn].reqs)
  /\ closeFlag' = FALSE
  /\ pc' = "recv"
  /\ UNCHANGED <<store, script, req, len, buf, errno, resp>>

(* Mutant: receive_header returns -1 at EOF without setting              *)
(* connection_close.                                                      *)
RecvEOFNoClose ==
  /\ pc = "recv"
  /\ stream = <<>>
  /\ req' = [method |-> "UNK", key |-> NULL, msg_len |-> 0]
  /\ LoopTest(closeFlag)
  /\ UNCHANGED <<store, script, nextConn, conn, stream, closeFlag, len, buf, errno, resp>>

(* recv_request at EOF: connection_ready returns 0 (a readable socket, or *)
(* the 60 s timeout, which is not -1), parse_header resets the request     *)
(* and read_line returns -1; receive_header sets connection_close and the *)
(* loop ends.                                                             *)
RecvEOF ==
  /\ pc = "recv"
  /\ stream = <<>>
  /\ req' = [method |-> "UNK", key |-> NULL, msg_len |-> 0]
  /\ closeFlag' = TRUE
  /\ LoopTest(TRUE)
  /\ UNCHANGED <<store, script, nextConn, conn, stream, len, buf, errno, resp>>

(* recv_request on a line with no '\n' in MSG_SIZE - 1 bytes: read_line   *)
(* returns -2, receive_header answers PARSING_ERROR and closes.           *)
RecvLong ==
  /\ pc = "recv"
  /\ stream # <<>>
  /\ Head(stream).t = "long"
  /\ stream' = Tail(stream)
  /\ req' = [method |-> "UNK", key |-> NULL, msg_len |-> 0]
  /\ closeFlag' = TRUE
  /\ send_response("PARSING_ERROR", NULL, errno)
  /\ LoopTest(TRUE)
  /\ UNCHANGED <<store, script, nextConn, conn, len, buf>>

(* The words read_line returns for a line; a lone '\n' is an empty line. *)
LineWords(item) == IF item.t = "nl" THEN <<>> ELSE item.words

(* parse_header after read_line: the method; the key only after a known  *)
(* method; the length only after a key.                                   *)
HasKey(ws) == Len(ws) >= 2 /\ method_to_enum(ws[1]) # "UNK"
HasLen(ws) == Len(ws) >= 3 /\ HasKey(ws)
Header(ws) ==
  [method  |-> IF ws = <<>> THEN "UNK" ELSE method_to_enum(ws[1]),
   key     |-> IF HasKey(ws) THEN ws[2] ELSE NULL,
   msg_len |-> IF HasLen(ws) THEN Strtoul(ws[3]) ELSE 0]

(* errno after parse_header: strtoul may set it and nothing clears it. *)
ParseErrno(ws) == IF HasLen(ws) THEN StrtoulErrno(ws[3], errno) ELSE errno

(* parse_header returns -1 when errno is nonzero after strtoul. *)
ParseFails(ws) == HasLen(ws) /\ ParseErrno(ws) # 0

(* The dispatcher's answer to the methods it handles itself, and main_job's *)
(* to RST; the handlers main_job calls after it.                            *)
DispatchCode == [m \in {"UNK", "PING", "RESET"} |->
                   IF m = "UNK" THEN "PARSING_ERROR" ELSE "OK"]
Handler == [SET |-> "payload", GET |-> "get", DEL |-> "del"]

(* recv_request on a header line, request_dispatcher, main_job's switch   *)
(* for the methods answered here, free(request->key) and the loop test.   *)
RecvHeader ==
  /\ pc = "recv"
  /\ stream # <<>>
  /\ Head(stream).t \in {"line", "nl"}
  /\ LET ws == LineWords(Head(stream))
         h  == Header(ws)
     IN /\ stream' = Tail(stream)
        /\ req' = h
        /\ \/ /\ ParseFails(ws)
              /\ closeFlag' = TRUE
              /\ errno' = ParseErrno(ws)
              /\ LoopTest(TRUE)
              /\ UNCHANGED <<resp, len, buf>>
           \/ /\ ~ParseFails(ws)
              /\ h.method \in DOMAIN DispatchCode
              /\ send_response(DispatchCode[h.method], NULL, ParseErrno(ws))
              /\ LoopTest(closeFlag)
              /\ UNCHANGED <<closeFlag, len, buf>>
           \/ /\ ~ParseFails(ws)
              /\ h.method \in DOMAIN Handler
              /\ errno' = ParseErrno(ws)
              /\ pc' = Handler[h.method]
              /\ len' = 0
              /\ buf' = NULL
              /\ UNCHANGED <<closeFlag, resp>>
  /\ UNCHANGED <<store, script, nextConn, conn>>

(* One call of read_payload in set_request's while (len < expected_len):  *)
(* it reads expected_len bytes, or returns -1 at EOF after setting        *)
(* connection_close; len is a size_t, so len += -1 wraps to SIZE_MAX and  *)
(* the loop ends.  Payloads are one byte: msg_len is 1 here (a HUGE       *)
(* length always fails in parse_header).                                  *)
ReadPayload ==
  LET received == IF stream # <<>> /\ Head(stream).t = "byte" THEN 1 ELSE -1
  IN /\ pc = "payload"
     /\ len < req.msg_len
     /\ len' = SizeT(len + received)
     /\ IF received = 1
          THEN /\ buf' = Head(stream).v
               /\ stream' = Tail(stream)
               /\ UNCHANGED closeFlag
          ELSE /\ closeFlag' = TRUE
               /\ UNCHANGED <<buf, stream>>
     /\ UNCHANGED <<store, script, nextConn, conn, pc, req, errno, resp>>

(* check_payload: for a nonempty payload one more byte must be '\n'.     *)
PayloadTerminated == req.msg_len = 0 \/ (stream # <<>> /\ Head(stream) = NL)

(* Mutant: check_payload tests the terminator without consuming it. *)
SetFinishPeek ==
  /\ pc = "payload"
  /\ len >= req.msg_len
  /\ \/ /\ PayloadTerminated
        /\ store' = [store EXCEPT ![req.key] = buf]
        /\ send_response("OK", NULL, errno)
        /\ LoopTest(closeFlag)
        /\ UNCHANGED closeFlag
     \/ /\ ~PayloadTerminated
        /\ closeFlag' = TRUE
        /\ LoopTest(TRUE)
        /\ UNCHANGED <<store, errno, resp>>
  /\ UNCHANGED <<stream, script, nextConn, conn, req, len, buf>>

(* The rest of set_request once the loop ends: check_payload (which reads *)
(* one byte when msg_len > 0), then the item's value is set or a new item *)
(* is linked and OK is sent; on a bad terminator it closes without a      *)
(* response.  Then main_job frees the key and tests the loop.             *)
SetFinish ==
  /\ pc = "payload"
  /\ len >= req.msg_len
  /\ stream' = IF req.msg_len > 0 /\ stream # <<>> THEN Tail(stream) ELSE stream
  /\ \/ /\ PayloadTerminated
        /\ store' = [store EXCEPT ![req.key] = buf]
        /\ send_response("OK", NULL, errno)
        /\ LoopTest(closeFlag)
        /\ UNCHANGED closeFlag
     \/ /\ ~PayloadTerminated
        /\ closeFlag' = TRUE
        /\ LoopTest(TRUE)
        /\ UNCHANGED <<store, errno, resp>>
  /\ UNCHANGED <<script, nextConn, conn, req, len, buf>>

(* get_request: OK with the value when get_item finds the key, KEY_ERROR *)
(* otherwise; then main_job's loop test.                                 *)
Get ==
  /\ pc = "get"
  /\ IF store[req.key] # NULL
       THEN send_response("OK", store[req.key], errno)
       ELSE send_response("KEY_ERROR", NULL, errno)
  /\ LoopTest(closeFlag)
  /\ UNCHANGED <<store, script, nextConn, conn, stream, req, closeFlag, len, buf>>

(* del_request: del_item and OK when the key is there, KEY_ERROR         *)
(* otherwise; then main_job's loop test.                                 *)
Del ==
  /\ pc = "del"
  /\ IF store[req.key] # NULL
       THEN /\ store' = [store EXCEPT ![req.key] = NULL]
            /\ send_response("OK", NULL, errno)
       ELSE /\ send_response("KEY_ERROR", NULL, errno)
            /\ UNCHANGED store
  /\ LoopTest(closeFlag)
  /\ UNCHANGED <<script, nextConn, conn, stream, req, closeFlag, len, buf>>

(* close_connection and the end of main_job; the worker goes back to the *)
(* queue.                                                                *)
Close ==
  /\ pc = "close"
  /\ pc' = "idle"
  /\ conn' = 0
  /\ stream' = <<>>
  /\ UNCHANGED <<store, script, nextConn, req, closeFlag, len, buf, errno, resp>>

Next ==
  \/ Fetch
  \/ RecvEOF
  \/ RecvLong
  \/ RecvHeader
  \/ ReadPayload
  \/ SetFinish
  \/ Get
  \/ Del
  \/ Close

Spec == Init /\ [][Next]_vars

(* The worker thread is scheduled whenever it can run. *)
FairSpec == Spec /\ WF_vars(Next)

-----------------------------------------------------------------------------
TypeOK ==
  /\ store \in [Keys -> Vals \cup {NULL}]
  /\ nextConn \in 1 .. NConns + 1
  /\ conn \in Conns \cup {0}
  /\ pc \in {"idle", "recv", "payload", "get", "del", "close"}
  /\ req.method \in {"UNK", "SET", "GET", "DEL", "PING", "RESET"}
  /\ req.key \in Keys \cup {NULL}
  /\ req.msg_len \in 0 .. SIZE_MAX
  /\ closeFlag \in BOOLEAN
  /\ len \in 0 .. SIZE_MAX
  /\ buf \in Vals \cup {NULL}
  /\ errno \in {0, EPIPE, ERANGE}
  /\ resp \in [Conns -> Seq(Resp)]

(* The codes a well-behaved server answers each request kind with; a     *)
(* request it cannot read whole (HUGE, SETCUT) gets none.                 *)
Answers(kind) ==
  CASE kind \in {"SET", "PING", "RESET"}    -> {"OK"}
    [] kind \in {"GET", "DEL"}              -> {"OK", "KEY_ERROR"}
    [] kind \in {"BAD", "EMPTY", "LONG"}    -> {"PARSING_ERROR"}
    [] kind \in {"HUGE", "SETCUT"}          -> {}

(* The i-th response main_job writes on a connection answers the client's *)
(* i-th request, and only a GET hit carries a value: the header parser,   *)
(* the payload readers and check_payload keep the byte stream framed, so  *)
(* no request's bytes are read as part of another's.                      *)
AnsweredInOrder ==
  \A c \in Conns :
    /\ Len(resp[c]) <= Len(script[c].reqs)
    /\ \A i \in 1 .. Len(resp[c]) :
         LET r == script[c].reqs[i] IN
         /\ resp[c][i].code \in Answers(r.kind)
         /\ (resp[c][i].val # NULL) <=> (r.kind = "GET" /\ resp[c][i].code = "OK")

(* Every connection the worker takes is eventually closed and the worker *)
(* returns to the queue: main_job's loop ends on EOF, on a bad header and *)
(* on a truncated payload (set_request's loop ends by the size_t wrap).   *)
ConnectionsClosed == <>(nextConn = NConns + 1 /\ pc = "idle")

(* A connection closed by the server, whose client stayed to read and sent *)
(* only well-formed requests, got one response per request (receive_header *)
(* and parse_header: a header is rejected only when it cannot be parsed).  *)
EveryRequestAnswered ==
  \A c \in Conns :
    (c < nextConn /\ c # conn /\ ~script[c].gone
       /\ \A i \in 1 .. Len(script[c].reqs) :
            script[c].reqs[i].kind \in {"SET", "GET", "DEL", "PING", "RESET"})
    => Len(resp[c]) = Len(script[c].reqs)
=============================================================================
