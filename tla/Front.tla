------------------------------- MODULE Front -------------------------------
(***************************************************************************)
(* One HTTP port of a node: the connections, the fixed pool of workers,    *)
(* the owner of the node's state that answers their questions, and the     *)
(* count of open streams.                                                  *)
(*                                                                         *)
(* On HopOS (agentd-hopos) one acceptor task gives connections to workers  *)
(* (Handoff), and a connection that may stay goes back to it and waits in  *)
(* a Park without a worker.  On the host (agentd) every worker thread      *)
(* accepts for itself, keeps its connection until it closes, and gives up  *)
(* on an owner that does not answer in time.  `build' says which.          *)
(*                                                                         *)
(* A socket holds the number of requests the client sent; the worker that  *)
(* reads one learns its kind: answered by the owner ("plain"), passed on by    *)
(* the worker ("forward"), a stream the owner is polled for ("stream"), or *)
(* a stream passed on ("relay").  A stream may last forever.               *)
(***************************************************************************)
EXTENDS Integers, Sequences, FiniteSets, SequencesExt

CONSTANTS
  CONNS,        \* bound: connections the clients open, numbered in that order
  WORKERS,      \* workers of the port; also the size of the mailbox back
  MAX_STREAMS,  \* streams the owner admits at once
  PARK_CAP,     \* connections that may wait in the park
  Builds,       \* the platforms of this instance
  MaxSays       \* bound: what the clients send in all, requests and ends

ASSUME FrontAssumption ==
  /\ CONNS \in Nat /\ WORKERS \in Nat /\ MAX_STREAMS \in Nat /\ PARK_CAP \in Nat /\ MaxSays \in Nat
  /\ Builds \subseteq {"HopOS", "host"}

VARIABLES
  build,    \* "HopOS" or "host"
  conn,     \* connection -> what its socket holds and who closed it
  backlog,  \* accepted by the stack, by nobody else yet
  due,      \* the acceptor's connections for a worker, in order
  park,     \* quiet connections, served before
  gone,     \* connections the acceptor will close
  back,     \* what workers returned, not yet parked
  wk,       \* worker -> its step, its connection and whether it closes after
  inbox,    \* the owner's questions <<worker or 0, kind>>; 0: nobody listens
  reply,    \* worker -> the answer that waits for it
  streams,  \* the owner's count
  deaf,     \* streams whose answer was sent to a worker that had given up
  says      \* requests and ends sent so far

frontVars == <<build, conn, backlog, due, park, gone, back, wk, inbox, reply, streams, deaf, says>>

Conn == 1..CONNS
Worker == 1..WORKERS
Kinds == {"plain", "forward", "stream", "relay"}
Streaming == {"stream", "relay"}
NoConn == 0
None == "none"

FrontTypeOK ==
  /\ conn \in [Conn -> [state : {"new", "open", "closed"}, said : 0..MaxSays, fin : BOOLEAN,
                        served : BOOLEAN]]
  /\ \A s \in {backlog, due, back} : ToSet(s) \subseteq Conn
  /\ park \subseteq Conn /\ Cardinality(park) <= PARK_CAP
  /\ gone \subseteq Conn
  /\ wk \in [Worker -> [pc : {"idle", "accepted", "read", "asked", "gaveup", "forward", "stream",
                              "polled", "over", "relay", "write"},
                        conn : Conn \cup {NoConn}, close : BOOLEAN]]
  /\ \A i \in DOMAIN inbox : inbox[i] \in (0..WORKERS) \X (Kinds \cup {"poll", "done"})
  /\ reply \in [Worker -> Kinds \cup {None, "more", "end"}]
  /\ streams \in 0..MAX_STREAMS
  /\ deaf \in Nat

FrontInit ==
  /\ build \in Builds
  /\ conn = [c \in Conn |-> [state |-> "new", said |-> 0, fin |-> FALSE, served |-> FALSE]]
  /\ backlog = <<>> /\ due = <<>> /\ back = <<>> /\ park = {} /\ gone = {}
  /\ wk = [w \in Worker |-> [pc |-> "idle", conn |-> NoConn, close |-> FALSE]]
  /\ inbox = <<>> /\ reply = [w \in Worker |-> None]
  /\ streams = 0 /\ deaf = 0 /\ says = 0

-----------------------------------------------------------------------------
(* The clients.                                                            *)

Dial(c) ==
  /\ conn[c].state = "new" /\ \A b \in 1..(c - 1) : conn[b].state # "new"
  /\ conn' = [conn EXCEPT ![c].state = "open"]
  /\ backlog' = Append(backlog, c)
  /\ UNCHANGED <<build, due, park, gone, back, wk, inbox, reply, streams, deaf, says>>

Say(c) ==
  /\ conn[c].state = "open" /\ ~conn[c].fin /\ says < MaxSays
  /\ conn' = [conn EXCEPT ![c].said = @ + 1]
  /\ says' = says + 1
  /\ UNCHANGED <<build, backlog, due, park, gone, back, wk, inbox, reply, streams, deaf>>

HangUp(c) ==
  /\ conn[c].state = "open" /\ ~conn[c].fin /\ says < MaxSays
  /\ conn' = [conn EXCEPT ![c].fin = TRUE]
  /\ says' = says + 1
  /\ UNCHANGED <<build, backlog, due, park, gone, back, wk, inbox, reply, streams, deaf>>

Client == \E c \in Conn : Dial(c) \/ HangUp(c) \/ Say(c)

-----------------------------------------------------------------------------
(* The acceptor of HopOS.                                                  *)

\* Busy as Handoff and as the host's counter see it: Handoff marks a worker
\* when it gives it a connection, the host's thread after it accepted.
Busy(w) == wk[w].pc \notin {"idle", "accepted"}
none_free == \A w \in Worker : Busy(w)
Readable(c) == conn[c].said > 0 \/ conn[c].fin
Shut(cs) == [c \in Conn |-> IF c \in cs THEN [state |-> "closed", said |-> 0, fin |-> FALSE, served |-> FALSE]
                            ELSE conn[c]]

\* Park::take_back: what fits is parked, in the order it was returned.
Fits == LET room == PARK_CAP - Cardinality(park)
        IN ToSet(SubSeq(back, 1, IF Len(back) < room THEN Len(back) ELSE room))
Overflow == ToSet(back) \ Fits

give(c) ==
  LET free == CHOOSE w \in Worker : ~Busy(w) /\ \A v \in Worker : ~Busy(v) => w <= v
  IN wk' = [wk EXCEPT ![free] = [pc |-> "read", conn |-> c, close |-> FALSE]]

\* One round that moves something: returned connections are parked, new ones
\* accepted, and the park swept: silent too long (quiet) before readable.
accept_round(quiet) ==
  LET parked == park \cup Fits
      heard == {c \in parked \ quiet : Readable(c)}
  IN /\ build = "HopOS" /\ due = <<>>
     /\ back # <<>> \/ backlog # <<>> \/ quiet # {} \/ heard # {}
     /\ park' = parked \ (quiet \cup heard)
     /\ due' = backlog \o SetToSeq(heard)
     /\ conn' = Shut(gone \cup Overflow \cup quiet)
     /\ back' = <<>> /\ backlog' = <<>> /\ gone' = {}
     /\ UNCHANGED <<build, wk, inbox, reply, streams, deaf, says>>

\* Mutation of place: an overflow forgotten.
place_forgets ==
  /\ due # <<>>
  /\ ~none_free \/ back # <<>>
  /\ park' = park \cup Fits
  /\ back' = <<>>
  /\ IF none_free THEN UNCHANGED <<due, wk>> ELSE give(Head(due)) /\ due' = Tail(due)
  /\ UNCHANGED <<build, conn, backlog, gone, inbox, reply, streams, deaf, says>>

\* Park::place: while every worker is busy, what they return is parked.
place ==
  /\ due # <<>>
  /\ ~none_free \/ back # <<>>
  /\ park' = park \cup Fits
  /\ gone' = gone \cup Overflow
  /\ back' = <<>>
  /\ IF none_free THEN UNCHANGED <<due, wk>> ELSE give(Head(due)) /\ due' = Tail(due)
  /\ UNCHANGED <<build, conn, backlog, inbox, reply, streams, deaf, says>>

-----------------------------------------------------------------------------
(* A worker.                                                               *)

To(w, pc) == wk' = [wk EXCEPT ![w].pc = pc]
Idle == [pc |-> "idle", conn |-> NoConn, close |-> FALSE]

\* The host's thread accepts for itself, and counts itself busy a step later.
worker_accept(w) ==
  /\ build = "host" /\ wk[w].pc = "idle" /\ backlog # <<>>
  /\ wk' = [wk EXCEPT ![w] = [pc |-> "accepted", conn |-> Head(backlog), close |-> FALSE]]
  /\ backlog' = Tail(backlog)
  /\ UNCHANGED <<build, conn, due, park, gone, back, inbox, reply, streams, deaf, says>>

counted(w) ==
  /\ wk[w].pc = "accepted"
  /\ To(w, "read")
  /\ UNCHANGED <<build, conn, backlog, due, park, gone, back, inbox, reply, streams, deaf, says>>

\* read_request, the first look at the pool, and the question to the owner.
read_request(w, k) ==
  LET c == wk[w].conn
  IN /\ wk[w].pc = "read" /\ conn[c].said > 0
     /\ inbox' = Append(inbox, <<w, k>>)
     /\ conn' = [conn EXCEPT ![c].said = @ - 1, ![c].served = TRUE]
     /\ wk' = [wk EXCEPT ![w].pc = "asked", ![w].close = none_free]
     /\ UNCHANGED <<build, backlog, due, park, gone, back, reply, streams, deaf, says>>

\* Mutation: no READ_CAP, so only a client that leaves ends the read.
read_waits(w) ==
  /\ wk[w].pc = "read" /\ conn[wk[w].conn].said = 0 /\ conn[wk[w].conn].fin
  /\ conn' = Shut({wk[w].conn})
  /\ wk' = [wk EXCEPT ![w] = Idle]
  /\ UNCHANGED <<build, backlog, due, park, gone, back, inbox, reply, streams, deaf, says>>

\* The client left or said nothing within READ_CAP.
read_fails(w) ==
  /\ wk[w].pc = "read" /\ conn[wk[w].conn].said = 0
  /\ conn' = Shut({wk[w].conn})
  /\ wk' = [wk EXCEPT ![w] = Idle]
  /\ UNCHANGED <<build, backlog, due, park, gone, back, inbox, reply, streams, deaf, says>>

\* What a worker does with an answer: write it, pass the request on, or stream.
execute(r) == IF r = "plain" THEN "write" ELSE r

\* The answer of the owner, and on HopOS the second look at the pool.
answered(w) ==
  /\ wk[w].pc = "asked" /\ reply[w] # None
  /\ wk' = [wk EXCEPT ![w].pc = execute(reply[w]),
                      ![w].close = @ \/ (build = "HopOS" /\ none_free)]
  /\ reply' = [reply EXCEPT ![w] = None]
  /\ UNCHANGED <<build, conn, backlog, due, park, gone, back, inbox, streams, deaf, says>>

\* to_leader, to_agent and the round of /v1/tasks end in an answer: the other
\* node's, or 502 within their timeouts.
forwarded(w) ==
  /\ wk[w].pc = "forward"
  /\ To(w, "write")
  /\ UNCHANGED <<build, conn, backlog, due, park, gone, back, inbox, reply, streams, deaf, says>>

\* Pump::next asks the owner what came since, and naps when nothing did.
poll(w) ==
  /\ wk[w].pc = "stream"
  /\ inbox' = Append(inbox, <<w, "poll">>)
  /\ To(w, "polled")
  /\ UNCHANGED <<build, conn, backlog, due, park, gone, back, reply, streams, deaf, says>>

\* A chunk; the stream ends with it when it is the last or the reader left.
chunk(w) ==
  /\ wk[w].pc = "polled" /\ reply[w] # None
  /\ reply' = [reply EXCEPT ![w] = None]
  /\ IF reply[w] = "end" \/ conn[wk[w].conn].fin
     THEN To(w, "write") /\ inbox' = Append(inbox, <<w, "done">>)
     ELSE To(w, "stream") /\ UNCHANGED inbox
  /\ UNCHANGED <<build, conn, backlog, due, park, gone, back, streams, deaf, says>>

\* On the host OWNER_TIMEOUT passes for a poll too (poll_owner): that is the
\* end of the stream, and what the owner still answers is heard by nobody.
poll_fails(w) ==
  /\ build = "host" /\ wk[w].pc = "polled" /\ reply[w] = None
  /\ To(w, "over")
  /\ inbox' = [i \in DOMAIN inbox |-> IF inbox[i] = <<w, "poll">> THEN <<0, "poll">> ELSE inbox[i]]
  /\ UNCHANGED <<build, conn, backlog, due, park, gone, back, reply, streams, deaf, says>>

stream_over(w) ==
  /\ wk[w].pc = "over"
  /\ To(w, "write")
  /\ inbox' = Append(inbox, <<w, "done">>)
  /\ UNCHANGED <<build, conn, backlog, due, park, gone, back, reply, streams, deaf, says>>

\* A relayed stream ends: its source refused, closed, or the reader left.
relayed(w) ==
  /\ wk[w].pc = "relay"
  /\ To(w, "write")
  /\ inbox' = Append(inbox, <<w, "done">>)
  /\ UNCHANGED <<build, conn, backlog, due, park, gone, back, reply, streams, deaf, says>>

\* On the host OWNER_TIMEOUT passes: recv_timeout returns, and only then is
\* the channel dropped.
gives_up(w) ==
  /\ build = "host" /\ wk[w].pc = "asked" /\ reply[w] = None
  /\ To(w, "gaveup")
  /\ UNCHANGED <<build, conn, backlog, due, park, gone, back, inbox, reply, streams, deaf, says>>

drops(w) ==
  /\ wk[w].pc = "gaveup"
  /\ To(w, "write")
  /\ inbox' = [i \in DOMAIN inbox |-> IF inbox[i][1] = w /\ inbox[i][2] \in Kinds
                                      THEN <<0, inbox[i][2]>> ELSE inbox[i]]
  /\ UNCHANGED <<build, conn, backlog, due, park, gone, back, reply, streams, deaf, says>>

\* The answer is out.  A connection that may stay is read on by the same
\* worker on the host; on HopOS only when its next request is already in the
\* buffer, and else it goes back to the acceptor (a full mailbox closes it).
written(w) ==
  LET c == wk[w].conn
      stays == ~wk[w].close /\ ~conn[c].fin
      again == stays /\ (build = "host" \/ conn[c].said > 0)
  IN /\ wk[w].pc = "write"
     /\ \/ again /\ wk' = [wk EXCEPT ![w].pc = "read", ![w].close = FALSE] /\ UNCHANGED <<conn, back>>
        \/ /\ build = "HopOS" /\ stays
           /\ wk' = [wk EXCEPT ![w] = Idle]
           /\ IF Len(back) < WORKERS
              THEN back' = Append(back, c) /\ UNCHANGED conn
              ELSE conn' = Shut({c}) /\ UNCHANGED back
        \/ /\ ~stays
           /\ wk' = [wk EXCEPT ![w] = Idle] /\ conn' = Shut({c}) /\ UNCHANGED back
     /\ UNCHANGED <<build, backlog, due, park, gone, inbox, reply, streams, deaf, says>>

WorkerStep(w) ==
  \/ worker_accept(w) \/ counted(w) \/ (\E k \in Kinds : read_request(w, k)) \/ read_fails(w) \/ answered(w)
  \/ forwarded(w) \/ poll(w) \/ chunk(w) \/ stream_over(w) \/ drops(w) \/ written(w)

-----------------------------------------------------------------------------
(* The owner of the node's state.                                          *)

\* A stream is admitted while there is room; anything else is only routed.
admits(k) == k \in Streaming => streams < MAX_STREAMS

\* One question.  On the host an answer whose channel is dropped comes back,
\* and a stream in it is counted off again; an answer to a worker that gave
\* up but has not dropped its channel yet is accepted and read by nobody.
owner_http(w, k) ==
  LET stream == k \in Streaming /\ admits(k)
      heard == w # 0 /\ wk[w].pc = "asked"
      unread == w # 0 /\ wk[w].pc = "gaveup"
  IN /\ reply' = IF heard THEN [reply EXCEPT ![w] = IF admits(k) THEN k ELSE "plain"] ELSE reply
     /\ streams' = IF stream /\ (heard \/ unread) THEN streams + 1 ELSE streams
     /\ deaf' = IF stream /\ unread THEN deaf + 1 ELSE deaf

owner_poll(w) ==
  /\ IF w = 0 THEN UNCHANGED reply
     ELSE \E more \in {"more", "end"} : reply' = [reply EXCEPT ![w] = more]
  /\ UNCHANGED <<streams, deaf>>

stream_done ==
  /\ streams' = IF streams > 0 THEN streams - 1 ELSE 0
  /\ UNCHANGED <<reply, deaf>>

Owner ==
  /\ inbox # <<>>
  /\ inbox' = Tail(inbox)
  /\ LET w == Head(inbox)[1]
         q == Head(inbox)[2]
     IN CASE q = "poll" -> owner_poll(w)
          [] q = "done" -> stream_done
          [] OTHER -> owner_http(w, q)
  /\ UNCHANGED <<build, conn, backlog, due, park, gone, back, wk, says>>

-----------------------------------------------------------------------------
FrontNext ==
  \/ Client
  \/ \E quiet \in SUBSET park : accept_round(quiet)
  \/ place
  \/ \E w \in Worker : WorkerStep(w) \/ relayed(w) \/ gives_up(w) \/ poll_fails(w)
  \/ Owner

(* Every task of the executor (every thread on the host) runs again, each  *)
(* await of a worker has a timeout, and a quiet connection reaches the end *)
(* of its silence.  A relayed stream need never end, and clients owe       *)
(* nothing.                                                                *)
FrontFair ==
  /\ WF_frontVars(place \/ \E quiet \in SUBSET park : accept_round(quiet))
  /\ WF_frontVars(park # {} /\ accept_round(park))
  /\ WF_frontVars(Owner)
  /\ \A w \in Worker : WF_frontVars(WorkerStep(w))

FrontSpec == FrontInit /\ [][FrontNext]_frontVars /\ FrontFair

-----------------------------------------------------------------------------
(* Every open connection is in exactly one place: nobody drops one without *)
(* closing it, and no two tasks hold the same one (Park, Handoff, work).   *)
Places(c) ==
  Cardinality({w \in Worker : wk[w].conn = c})
  + Cardinality({i \in DOMAIN backlog : backlog[i] = c})
  + Cardinality({i \in DOMAIN due : due[i] = c})
  + Cardinality({i \in DOMAIN back : back[i] = c})
  + (IF c \in park THEN 1 ELSE 0) + (IF c \in gone THEN 1 ELSE 0)

NoneLost == \A c \in Conn : Places(c) = IF conn[c].state = "open" THEN 1 ELSE 0

(* The owner's count of streams is the number of streams that run, whose   *)
(* admission or whose end is on its way, and the ones it sent to a worker  *)
(* that had stopped listening (on_msg of agentd counts those off only when *)
(* the channel is already dropped).                                        *)
Admitted(w) ==
  \/ wk[w].pc \in {"stream", "polled", "over", "relay"}
  \/ wk[w].pc = "asked" /\ reply[w] \in Streaming

StreamsCounted ==
  streams = Cardinality({w \in Worker : Admitted(w)}) + deaf
            + Cardinality({i \in DOMAIN inbox : inbox[i][2] = "done"})

(* On HopOS a connection that was served before holds a worker only while  *)
(* its next request, or its end, is already there (the point of the park). *)
QuietHoldsNoWorker ==
  build = "HopOS" => \A w \in Worker :
    wk[w].pc = "read" /\ conn[wk[w].conn].served => Readable(wk[w].conn)

(* The answer in a worker's slot is the answer to what that worker asked   *)
(* last: no older question of it can still fill the one slot it has in     *)
(* Hub.                                                                    *)
Asked(w) == Cardinality({i \in DOMAIN inbox : inbox[i][1] = w /\ inbox[i][2] # "done"})
            + (IF reply[w] = None THEN 0 ELSE 1)

AnswersFit ==
  \A w \in Worker :
    /\ Asked(w) <= IF wk[w].pc \in {"asked", "polled", "gaveup"} THEN 1 ELSE 0
    /\ reply[w] # None => wk[w].pc = IF reply[w] \in Kinds THEN "asked" ELSE "polled"

(* No worker ever finds the mailbox back to the acceptor full, so no good  *)
(* connection is closed for that: each return needs a hand-over before it, *)
(* and place empties the mailbox with every hand-over.                     *)
BackHasRoom ==
  \A w \in Worker : build = "HopOS" /\ wk[w].pc = "write" => Len(back) < WORKERS

(* A connection with a request gets a worker, or is closed, even           *)
(* when every admitted stream lasts forever: MAX_STREAMS keeps a worker    *)
(* free, and a connection held back in gone is closed when the park moves. *)
Unheard(c) == conn[c].said > 0 /\ \A w \in Worker : wk[w].conn # c

RequestsRead == []<>(\A c \in Conn : ~Unheard(c))

\* What holds of every connection, worker and stream at any time.
FrontInv ==
  /\ FrontTypeOK
  /\ NoneLost
  /\ StreamsCounted
  /\ QuietHoldsNoWorker
  /\ AnswersFit
  /\ BackHasRoom
============================================================================
