------------------------------- MODULE Proxy -------------------------------
(***************************************************************************)
(* The reverse proxy of hoplb (proxy.rs, http.rs): one connection of a     *)
(* client, request after request, each passed to a backend on a connection *)
(* of its own.                                                             *)
(*                                                                         *)
(* A stream is a sequence of tokens, not bytes: the head of a message, one *)
(* piece of a body, and the lines of the chunked coding.  Every token      *)
(* carries the number of the request it belongs to, which the code does    *)
(* not see: only the properties read it.  The client writes its requests   *)
(* as it likes, pipelined or not; the backend follows a script it may cut  *)
(* off.  Both may stall, and every wait of the proxy may run out.          *)
(*                                                                         *)
(* The client's stream is counted, not copied: of its tokens the first     *)
(* `used' have been consumed, the first `fetched' are in the reader's      *)
(* buffer or consumed, and the first `sent' have been sent.  `start' is    *)
(* the place in the buffer of the first token not consumed.                *)
(***************************************************************************)
EXTENDS Integers, Sequences, FiniteSets, SequencesExt

CONSTANTS
  Requests,   \* what a client may ask
  Responses,  \* what a backend may answer
  MaxRequests,\* bound: requests of the connection
  BUF,        \* tokens the buffer of a reader holds
  MaxCuts     \* bound: clients that leave and backends that cut off

VARIABLES
  asks,     \* the requests of this client, in order
  sent, fetched, used, start,
  left,     \* the client is gone
  px,       \* the worker: its step, its request, and the copy under way
  backend,  \* the connection to a backend, or NoBackend
  told,     \* what the client was sent
  chosen,   \* request -> the script of its backend, or NoScript
  recs,     \* the records sent to the metrics: <<request, code>>
  cuts

pxVars == <<asks, sent, fetched, used, start, left, px, backend, told, chosen, recs, cuts>>

-----------------------------------------------------------------------------
(* The streams.                                                            *)

Token(k, t, n) == [k |-> k, t |-> t, n |-> n]
Pieces(k, n) == [i \in 1..n |-> Token(k, "data", 0)]
Chunks(k, n) == <<Token(k, "size", n)>> \o Pieces(k, n)
                  \o <<Token(k, "line", 0), Token(k, "size", 0), Token(k, "line", 0)>>

RequestTokens(k, r) ==
  <<Token(k, "head", 0)>>
    \o (IF r.te = "chunked" THEN Chunks(k, 1) ELSE IF r.cl > 0 THEN Pieces(k, r.cl) ELSE <<>>)

Stream == FlattenSeq([k \in DOMAIN asks |-> RequestTokens(k, asks[k])])

Bodiless(method, status) == method = "HEAD" \/ status < 200 \/ status \in {204, 304}

ScriptTokens(k, s) ==
  [i \in DOMAIN s.before |-> Token(k, "head", s.before[i])] \o <<Token(k, "head", s.status)>>
    \o (CASE Bodiless(asks[k].method, s.status) -> <<>>
          [] s.te = "chunked" -> Chunks(k, s.n)
          [] OTHER -> Pieces(k, s.n))

-----------------------------------------------------------------------------
(* Framing.                                                                *)

Empty == [f |-> "empty", phase |-> "done", n |-> 0]
Length(n) == [f |-> "length", phase |-> IF n = 0 THEN "done" ELSE "data", n |-> n]
Chunked == [f |-> "chunked", phase |-> "size", n |-> 0]
Eof == [f |-> "eof", phase |-> "data", n |-> 0]
Refuse == [f |-> "refuse", phase |-> "done", n |-> 0]

\* request_framing: a length beside a coding is refused, and so is a coding
\* that is not chunked.
request_framing(r) ==
  CASE r.te # "none" /\ r.cl >= 0 -> [Refuse EXCEPT !.n = 400]
    [] r.te = "chunked" -> Chunked
    [] r.te = "other" -> [Refuse EXCEPT !.n = 501]
    [] r.cl > 0 -> Length(r.cl)
    [] OTHER -> Empty

\* response_framing: a status or a method without a body first.
response_framing(method, s) ==
  CASE Bodiless(method, s.status) -> Empty
    [] s.te # "none" /\ s.cl >= 0 -> Refuse
    [] s.te = "chunked" -> Chunked
    [] s.te = "none" /\ s.cl >= 0 -> Length(s.cl)
    [] OTHER -> Eof

wants_close(r) == r.conn = "close" \/ (r.minor = 0 /\ r.conn # "keep-alive")

\* check_request and the errors of parse_request: the status of a refusal,
\* or 0.  A token that is no head is a body the proxy takes for one.
Refusal(tok) ==
  IF tok.t # "head" THEN 400
  ELSE LET r == asks[tok.k]
       IN  CASE r.odd # "no" -> CASE r.odd = "huge" -> 431 [] r.odd = "version" -> 505
                                  [] r.odd = "CONNECT" -> 501 [] OTHER -> 400
             [] request_framing(r).f = "refuse" -> request_framing(r).n
             [] OTHER -> 0

\* One token of a body (copy_exact, copy_to_eof, copy_chunked and its
\* trailers): the copy after it, what is written, and whether it was legal.
Copied(c, tok, dechunk) ==
  LET pass == IF dechunk /\ tok.t # "data" THEN <<>> ELSE <<tok>>
      next(phase, n) == [copy |-> [c EXCEPT !.phase = phase, !.n = n], out |-> pass, ok |-> TRUE]
      fault == [copy |-> c, out |-> <<>>, ok |-> FALSE]
  IN  CASE c.f = "eof" -> next("data", 0)
        [] c.f = "length" -> next(IF c.n = 1 THEN "done" ELSE "data", c.n - 1)
        [] c.phase = "size" -> IF tok.t # "size" THEN fault
                               ELSE next(IF tok.n = 0 THEN "trailer" ELSE "data", tok.n)
        [] c.phase = "data" -> next(IF c.n = 1 THEN "line" ELSE "data", c.n - 1)
        [] OTHER -> IF tok.t # "line" THEN fault
                    ELSE next(IF c.phase = "trailer" THEN "done" ELSE "size", 0)

-----------------------------------------------------------------------------
(* The state.                                                              *)

NoScript == [status |-> 0]
NoBackend == [open |-> FALSE, got |-> <<>>, put |-> 0, read |-> 0, ended |-> TRUE]
NoCopy == Empty

PxStarts ==
  /\ sent = 0 /\ fetched = 0 /\ used = 0 /\ start = 0 /\ left = FALSE /\ cuts = 0
  /\ px = [pc |-> "head", k |-> 0, copy |-> NoCopy, status |-> 0, keep |-> FALSE, dechunk |-> FALSE]
  /\ backend = NoBackend
  /\ told = <<>> /\ recs = <<>>
  /\ chosen = [k \in DOMAIN asks |-> NoScript]

PxInit == asks \in UNION {[1..n -> Requests] : n \in 1..MaxRequests} /\ PxStarts

Ask == asks[px.k]
Script == ScriptTokens(px.k, chosen[px.k])
Told(toks) == IF left THEN told ELSE told \o toks

PxClose == px' = [px EXCEPT !.pc = "closed"]

\* reply_error: a status with a body of one piece.
ErrorReply(k, status, close) ==
  <<[k |-> k, t |-> "head", n |-> status, te |-> FALSE, cl |-> 1, close |-> close, own |-> TRUE],
    Token(k, "data", 0)>>

\* The end of an exchange: the backend closed, one record, and the next
\* head or the end of the connection.
Exchanged(code, toks, keep) ==
  /\ told' = Told(toks)
  /\ recs' = Append(recs, <<px.k, code>>)
  /\ px' = [px EXCEPT !.pc = IF keep THEN "head" ELSE "closed", !.copy = NoCopy]
  /\ backend' = NoBackend

\* What becomes of a failure (Stage): before the head of the answer went to
\* the client, after it, or of the client itself.
BeforeFails == Exchanged(502, ErrorReply(px.k, 502, TRUE), FALSE)

AfterFails == Exchanged(px.status, <<>>, FALSE)

ClientFails == Exchanged(502, <<>>, FALSE)

-----------------------------------------------------------------------------
(* The client.                                                             *)

ClientSends ==
  /\ ~left /\ sent < Len(Stream)
  /\ sent' = sent + 1
  /\ UNCHANGED <<asks, fetched, used, start, left, px, backend, told, chosen, recs, cuts>>

ClientLeaves ==
  /\ ~left /\ cuts < MaxCuts /\ px.pc # "closed"
  /\ left' = TRUE /\ cuts' = cuts + 1
  /\ UNCHANGED <<asks, sent, fetched, used, start, px, backend, told, chosen, recs>>

-----------------------------------------------------------------------------
(* The reader of the client's side.                                        *)

Least(a, b) == IF a < b THEN a ELSE b

\* The end of what is in the buffer, and the end of the buffer itself.
BufferEnd == start + (fetched - used)
Full == BufferEnd = BUF

\* fill: what was sent, as far as there is room behind what is there.  It
\* moves what is there to the front only for a line or a head that came in
\* part, and a token comes whole.
Filled == Least(sent, fetched + (BUF - BufferEnd))

\* consume: an empty buffer begins at the front again.
Consumed(upto) == used' = used + 1 /\ fetched' = upto /\ start' = IF upto = used + 1 THEN 0 ELSE start + 1

\* read_head, read_line, read_some: one token, from the buffer if there is
\* one.  For a head or a line the buffer is filled first; the piece of a
\* body comes from the socket and passes the buffer by.
Takes ==
  /\ used < sent
  /\ Consumed(CASE fetched > used -> fetched
                [] px.pc = "upload" /\ px.copy.phase = "data" -> used + 1
                [] OTHER -> Filled)

\* peer_gone: one look under a short deadline.  Bytes that came in stay in
\* the buffer.  With the end of the buffer reached nothing is read, also
\* when what is at its front was consumed, and the peer counts as present.
PeerGone == ~Full /\ fetched = sent /\ left

Looks == fetched' = IF Full THEN fetched ELSE Filled

-----------------------------------------------------------------------------
(* One request.                                                            *)

ReadHead ==
  /\ px.pc = "head" /\ Takes
  /\ LET tok == Stream[used + 1]
     IN  IF Refusal(tok) # 0
         THEN told' = Told(ErrorReply(tok.k, Refusal(tok), FALSE)) /\ PxClose
         ELSE /\ px' = [px EXCEPT !.pc = "pick", !.k = tok.k]
              /\ UNCHANGED told
  /\ UNCHANGED <<asks, sent, left, backend, chosen, recs, cuts>>

\* The end of the stream, or a deadline: head on a fresh connection, idle
\* after a request.
HeadEnds ==
  /\ px.pc = "head" /\ used = sent
  /\ PxClose
  /\ UNCHANGED <<asks, sent, fetched, used, start, left, backend, told, chosen, recs, cuts>>

CleanAlways == ~wants_close(Ask)

\* A body still on the wire, or a client that wants it, closes after an error.
Clean == request_framing(Ask) = Empty /\ ~wants_close(Ask)

NoBackendFound ==
  /\ px.pc = "pick"
  /\ \E status \in {502, 503} : Exchanged(status, ErrorReply(px.k, status, ~Clean), Clean)
  /\ UNCHANGED <<asks, sent, fetched, used, start, left, chosen, cuts>>

Picked ==
  /\ px.pc = "pick"
  /\ px' = [px EXCEPT !.pc = "dial"]
  /\ UNCHANGED <<asks, sent, fetched, used, start, left, backend, told, chosen, recs, cuts>>

DialBreaks ==
  /\ px.pc = "dial"
  /\ \/ Exchanged(502, ErrorReply(px.k, 502, ~Clean), Clean)
     \/ Exchanged(503, ErrorReply(px.k, 503, TRUE), FALSE)     \* no memory for a reader
  /\ UNCHANGED <<asks, sent, fetched, used, start, left, chosen, cuts>>

DialWorks ==
  /\ px.pc = "dial"
  /\ backend' = [NoBackend EXCEPT !.open = TRUE, !.ended = FALSE]
  /\ \E s \in Responses : chosen' = [chosen EXCEPT ![px.k] = s]
  /\ px' = [px EXCEPT !.pc = "forward"]
  /\ UNCHANGED <<asks, sent, fetched, used, start, left, told, recs, cuts>>

\* The head that the backend gets: the client's fields but those of its own hop.
request_head == Token(px.k, "head", 0)

\* The request's head goes out with the framing, a hundred-continue of our
\* own to the client that expects one, and then the body.
ForwardHead ==
  /\ px.pc = "forward"
  /\ \/ /\ backend' = [backend EXCEPT !.got = <<request_head>>]
        /\ told' = IF request_framing(Ask) # Empty /\ Ask.expect
                   THEN Told(<<Token(px.k, "head", 100)>>) ELSE told
        /\ px' = [px EXCEPT !.pc = IF request_framing(Ask) = Empty THEN "await" ELSE "upload",
                            !.copy = request_framing(Ask)]
        /\ UNCHANGED recs
     \/ backend.ended /\ BeforeFails
     \/ left /\ request_framing(Ask) # Empty /\ Ask.expect /\ ClientFails
  /\ UNCHANGED <<asks, sent, fetched, used, start, left, chosen, cuts>>

Upload ==
  /\ px.pc = "upload" /\ px.copy.phase # "done" /\ Takes
  /\ LET c == Copied(px.copy, Stream[used + 1], FALSE)
     IN  \/ /\ c.ok
            /\ backend' = [backend EXCEPT !.got = @ \o c.out]
            /\ px' = [px EXCEPT !.copy = c.copy]
            /\ UNCHANGED <<told, recs>>
         \/ c.ok /\ backend.ended /\ BeforeFails
         \/ ~c.ok /\ ClientFails
  /\ UNCHANGED <<asks, sent, left, chosen, cuts>>

UploadEnds ==
  /\ px.pc = "upload" /\ px.copy.phase = "done"
  /\ px' = [px EXCEPT !.pc = "await"]
  /\ UNCHANGED <<asks, sent, fetched, used, start, left, backend, told, chosen, recs, cuts>>

\* The client's end inside a body, or its silence.
UploadStalls ==
  /\ px.pc = "upload" /\ px.copy.phase # "done" /\ used = sent
  /\ ClientFails
  /\ UNCHANGED <<asks, sent, fetched, used, start, left, chosen, cuts>>

\* The head that the client gets: the backend's, but for the framing and the
\* connection, which are the proxy's own.
response_head(s, framing, dechunk, keep) ==
  [k |-> px.k, t |-> "head", n |-> s.status, te |-> framing = Chunked /\ ~dechunk,
   cl |-> IF framing.f = "length" \/ framing = Empty THEN s.cl ELSE -1,
   close |-> ~keep, own |-> FALSE]

\* read_response and the head for the client.  `keep' says whether the
\* connection stays, and the head tells the client.
Answers ==
  /\ px.pc = "await" /\ backend.read < backend.put
  /\ LET s == chosen[px.k]
         tok == Script[backend.read + 1]
         framing == response_framing(Ask.method, s)
         dechunk == framing = Chunked /\ Ask.minor = 0
     IN  \/ /\ tok.n < 200 /\ tok.n # 101
            /\ backend' = [backend EXCEPT !.read = @ + 1]
            /\ UNCHANGED <<px, told, recs>>
         \/ (tok.n = 101 \/ framing = Refuse) /\ BeforeFails
         \/ /\ tok.n >= 200 /\ framing # Refuse
            /\ \E crowded \in BOOLEAN :
                 LET keep == ~wants_close(Ask) /\ Ask.minor = 1 /\ framing # Eof /\ ~dechunk /\ ~crowded
                 IN  /\ px' = [px EXCEPT !.pc = "download", !.copy = framing, !.status = s.status,
                                         !.keep = keep, !.dechunk = dechunk]
                     /\ told' = Told(<<response_head(s, framing, dechunk, keep)>>)
            /\ backend' = [backend EXCEPT !.read = @ + 1]
            /\ UNCHANGED recs
         \/ /\ tok.n >= 200 /\ framing # Refuse /\ left
            /\ Exchanged(s.status, <<>>, FALSE)
  /\ UNCHANGED <<asks, sent, fetched, used, start, left, chosen, cuts>>

\* One token of the answer.  Before each write the proxy looks whether the
\* client is still there.
Download ==
  /\ px.pc = "download" /\ px.copy.phase # "done" /\ backend.read < backend.put
  /\ LET c == Copied(px.copy, Script[backend.read + 1], px.dechunk)
     IN  \/ /\ c.ok /\ ~(c.out # <<>> /\ PeerGone)
            /\ IF c.out = <<>> THEN UNCHANGED fetched ELSE Looks
            /\ told' = Told(c.out)
            /\ backend' = [backend EXCEPT !.read = @ + 1]
            /\ px' = [px EXCEPT !.copy = c.copy]
            /\ UNCHANGED recs
         \/ (~c.ok \/ (c.out # <<>> /\ left)) /\ AfterFails /\ UNCHANGED fetched
  /\ UNCHANGED <<asks, sent, used, start, left, chosen, cuts>>

DownloadEnds ==
  /\ px.pc = "download"
  /\ \/ px.copy.phase = "done"
     \/ px.copy = Eof /\ backend.read = backend.put /\ backend.ended
  /\ \/ Exchanged(px.status, <<>>, px.keep)
     \/ left /\ AfterFails
  /\ UNCHANGED <<asks, sent, fetched, used, start, left, chosen, cuts>>

\* A slice of silence of the backend: a look at the client.
SilenceLook ==
  /\ px.pc = "await" \/ (px.pc = "download" /\ px.copy.phase # "done")
  /\ backend.read = backend.put /\ ~backend.ended
  /\ IF PeerGone THEN (IF px.pc = "await" THEN ClientFails ELSE AfterFails) /\ UNCHANGED fetched
     ELSE Looks /\ fetched' # fetched /\ UNCHANGED <<told, recs, px, backend>>
  /\ UNCHANGED <<asks, sent, used, start, left, chosen, cuts>>

\* The backend's end, or its silence for longer than backend_idle.
BackendEnds ==
  /\ backend.read = backend.put
  /\ \/ px.pc = "await" /\ BeforeFails
     \/ px.pc = "download" /\ px.copy.phase # "done" /\ ~(px.copy = Eof /\ backend.ended) /\ AfterFails
  /\ UNCHANGED <<asks, sent, fetched, used, start, left, chosen, cuts>>

-----------------------------------------------------------------------------
(* The backend: its script, at its own pace, and perhaps cut off.          *)

BackendSends ==
  /\ backend.open /\ ~backend.ended /\ backend.put < Len(Script)
  /\ backend' = [backend EXCEPT !.put = @ + 1]
  /\ UNCHANGED <<asks, sent, fetched, used, start, left, px, told, chosen, recs, cuts>>

BackendCloses ==
  /\ backend.open /\ ~backend.ended
  /\ IF backend.put = Len(Script) THEN UNCHANGED cuts ELSE cuts < MaxCuts /\ cuts' = cuts + 1
  /\ backend' = [backend EXCEPT !.ended = TRUE]
  /\ UNCHANGED <<asks, sent, fetched, used, start, left, px, told, chosen, recs>>

-----------------------------------------------------------------------------
\* What the proxy does without a deadline running out.
PxWorks ==
  \/ ReadHead \/ NoBackendFound \/ Picked \/ DialBreaks \/ DialWorks \/ ForwardHead \/ Upload
  \/ UploadEnds \/ Answers \/ Download \/ DownloadEnds \/ SilenceLook
  \/ left /\ (HeadEnds \/ UploadStalls)
  \/ backend.ended /\ BackendEnds

PxDeadline ==
  \/ ~left /\ (HeadEnds \/ UploadStalls)
  \/ ~backend.ended /\ BackendEnds

PxDone == px.pc = "closed" /\ UNCHANGED pxVars

PxNext ==
  \/ PxWorks \/ PxDeadline \/ PxDone
  \/ ClientSends \/ ClientLeaves
  \/ BackendSends \/ BackendCloses

PxSpec == PxInit /\ [][PxNext]_pxVars

-----------------------------------------------------------------------------
(* What the client makes of what it was told: its answers, in order.  A    *)
(* token that starts no answer ends the reading as junk, and an answer     *)
(* that announces the end of the connection is the last.                   *)

Closed == px.pc = "closed"
ChunkedEnd(i) == {e \in (i + 2)..Len(told) : told[e].t = "line" /\ told[e - 1] = Token(told[e].k, "size", 0)}

\* The last token of the answer that starts at i, or 0 while it is not whole.
LastOf(i, j) ==
  LET h == told[i]
  IN  CASE Bodiless(asks[j].method, h.n) -> i
        [] h.te -> IF ChunkedEnd(i) = {} THEN 0 ELSE CHOOSE e \in ChunkedEnd(i) : \A d \in ChunkedEnd(i) : e <= d
        [] h.cl >= 0 -> IF i + h.cl <= Len(told) THEN i + h.cl ELSE 0
        [] OTHER -> IF Closed THEN Len(told) ELSE 0

Junk(i) == [from |-> i, last |-> i, ok |-> FALSE]

RECURSIVE AnswersFrom(_, _)
AnswersFrom(i, j) ==
  IF i > Len(told) THEN <<>>
  ELSE IF told[i].t # "head" \/ j > Len(asks) THEN <<Junk(i)>>
  ELSE IF told[i].n < 200 THEN AnswersFrom(i + 1, j)
  ELSE IF LastOf(i, j) = 0 THEN <<>>
  ELSE <<[from |-> i, last |-> LastOf(i, j), ok |-> TRUE]>>
         \o (IF told[i].close THEN <<>> ELSE AnswersFrom(LastOf(i, j) + 1, j + 1))

Heard == AnswersFrom(1, 1)
InOrder ==
  LET heard == Heard
  IN  \A j \in DOMAIN heard : heard[j].ok /\ \A i \in heard[j].from..heard[j].last : told[i].k = j

PxTypeOK ==
  /\ sent \in 0..Len(Stream) /\ used \in 0..fetched /\ fetched \in 0..sent
  /\ start \in 0..BUF /\ BufferEnd <= BUF /\ (used = fetched => start = 0)
  /\ px.pc \in {"head", "pick", "dial", "forward", "upload", "await", "download", "closed"}
  /\ px.k \in 0..Len(asks)
  /\ backend.read <= backend.put
  /\ backend.open <=> px.pc \in {"forward", "upload", "await", "download"}
  /\ px.pc \in {"head", "closed"} => Len(recs) = px.k

\* A backend gets the head and the body of one request, never a token of
\* the next one, and the answer is awaited only when it has all of it.
ForwardsOneRequest ==
  backend.open =>
    LET whole == RequestTokens(px.k, Ask)
    IN  /\ IsPrefix(backend.got, whole)
        /\ px.pc \in {"await", "download"} => backend.got = whole

\* On a connection that stays open the client finds the answer to its k-th
\* request in the k-th place, each token in its own answer (clean, keep,
\* the framing of the copy); the reply to a HEAD that found no backend is
\* the exception AnswersInOrder speaks of.
ErrorToHead == \E i \in DOMAIN told :
  told[i].t = "head" /\ told[i].n >= 200 /\ asks[told[i].k].method = "HEAD" /\ told[i].own /\ ~told[i].close

AnswersStayApart == ErrorToHead \/ InOrder

\* The client finds the k-th answer in the k-th place, whatever it asked.
AnswersInOrder == Closed \/ InOrder

\* An answer the proxy or the backend broke off is not taken for a whole
\* one: an answer that ended by its own framing has all the pieces the
\* backend meant to send.
CutIsSeen ==
  InOrder => \A j \in DOMAIN Heard :
    LET a == Heard[j]
        h == told[a.from]
    IN  (~h.own /\ (h.te \/ h.cl >= 0)) =>
          Cardinality({i \in a.from..a.last : told[i].t = "data"})
            = (IF Bodiless(asks[j].method, h.n) THEN 0 ELSE chosen[j].n)

\* The metrics hold one record for each request that was accepted, in
\* order, and the code the client saw.
RecordsTellTheTruth ==
  /\ \A i \in DOMAIN recs : recs[i][1] = i
  /\ InOrder => \A j \in DOMAIN Heard : j <= Len(recs) => recs[j][2] = told[Heard[j].from].n

\* A client that leaves gives the worker back without waiting for the
\* backend's deadline, unless what it pipelined reached the end of the
\* buffer (consumed or not: a look makes no room): there is always a step
\* the proxy takes by itself (PxWorks), and each one brings it nearer to
\* the end.
GoneFreesTheWorker == (left /\ ~ENABLED PxWorks) => (Closed \/ Full)

\* What holds of a connection through the proxy at any time, whatever either side
\* sends and wherever it is cut.
ProxyInv ==
  /\ PxTypeOK
  /\ ForwardsOneRequest
  /\ AnswersStayApart
  /\ CutIsSeen
  /\ RecordsTellTheTruth
  /\ GoneFreesTheWorker
=============================================================================
