----------------------------- MODULE Balancer ------------------------------
(***************************************************************************)
(* hoplb around the proxy: the pool of workers, the table of routes, and   *)
(* the owner of the metrics.                                               *)
(*                                                                         *)
(* On HopOS (bin/hoplb-hopos/slot.rs) an acceptor hands each connection to *)
(* a free worker, the watcher replaces one shared table, and the metrics   *)
(* are a task with a mailbox.  On the host (bin/hoplb/server.rs, owner.rs) *)
(* every worker thread accepts for itself and keeps a copy of the table,   *)
(* which it asks of the owner when the generation moved on; the owner has  *)
(* the metrics and the table and one inbox for all.  `lb' says which.      *)
(*                                                                         *)
(* An exchange (Proxy) is one step here.  A host name is a sequence of     *)
(* labels; a pattern may start with "*".  The tables come in the order in  *)
(* which the watcher publishes them, and a table is its routes as they     *)
(* came, a pattern perhaps twice.                                          *)
(***************************************************************************)
EXTENDS Integers, Sequences, FiniteSets, SequencesExt, FiniteSetsExt

CONSTANTS
  LB_WORKERS,  \* workers of the traffic port
  LBConns,     \* bound: connections the clients open, numbered in that order
  LB_INBOX,    \* messages the owner's inbox holds
  MAX_SERIES, MAX_SAMPLES,
  Tables,      \* the tables the watcher publishes, in order
  HostNames,   \* what clients ask for
  LBScenarios  \* bounds: the build, and how many connections, requests in
               \* all and scrapes of the admin port a behaviour has

VARIABLES
  lb,        \* the scenario
  line,      \* connections nobody accepted yet
  held,      \* the connection in the acceptor's hand, or 0
  client,    \* connection -> requests not yet read, and whether it hung up
  worker,    \* worker -> its step, connection, table and last pick
  marked,    \* workers that count as busy
  inbox2,    \* the owner's messages
  gen,       \* the generation of the owner's table (HopOS: of the shared one)
  published, \* tables the watcher handed over
  series,    \* <<domain, backend>> -> its count, its samples, and where the
             \* next one goes
  folded, dropped,
  asked,     \* requests so far
  done,      \* requests recorded so far
  past,      \* series -> the numbers of all its records, in order
  scrape     \* the admin worker: its step, the records counted when it asked,
             \* its slot (the records the text in it counts) and what it got

lbVars == <<lb, line, held, client, worker, marked, inbox2, gen, published, series, folded, dropped,
            asked, done, past, scrape>>

LBWorker == 1..LB_WORKERS
LBConn == 1..LBConns
Nobody == 0
NoText2 == -1
NoPick == [g |-> -1, since |-> -1, late |-> FALSE, host |-> <<>>, pattern |-> <<>>, backend |-> "none",
           n |-> 0, id |-> 0]
HopOS == lb.build = "HopOS"

-----------------------------------------------------------------------------
(* The table of routes.                                                    *)

IsWild(p) == Len(p) > 1 /\ p[1] = "*"
Patterns(t) == {t[i].pattern : i \in DOMAIN t}
Nowhere == <<>>

\* insert: a pattern that comes again adds its backends.
Backends(t, p) == FlattenSeq([i \in DOMAIN t |-> IF t[i].pattern = p THEN t[i].backends ELSE <<>>])

\* match_host: the name itself, or the wildcard for all but its first label.
Match(t, h) ==
  LET wild == <<"*">> \o Tail(h)
  IN  IF h \in Patterns(t) THEN h
      ELSE IF Len(h) > 1 /\ wild \in Patterns(t) THEN wild ELSE Nowhere

\* healthy_backend: the counter moves on and points at the backend (every
\* backend is healthy: nothing in the code says otherwise).
NextTurn(n, turn) == (turn + 1) % n

Pick(t, turns, h) ==
  LET p == Match(t, h)
      bs == IF p = Nowhere THEN <<>> ELSE Backends(t, p)
      turn == IF bs = <<>> THEN 0 ELSE NextTurn(Len(bs), turns[p])
  IN  [pattern |-> p, backend |-> IF bs = <<>> THEN "none" ELSE bs[turn + 1], n |-> Len(bs),
       turns |-> IF bs = <<>> THEN turns ELSE [turns EXCEPT ![p] = turn]]

Table(g) == IF g <= 0 THEN <<>> ELSE Tables[g]
Fresh(g) == [p \in Patterns(Table(g)) |-> 0]

-----------------------------------------------------------------------------
(* The metrics.                                                            *)

Overflow == <<<<"_other">>, "none">>

\* series_mut: its own series, or a new one while there is room, or the one
\* for the rest.
SeriesFor(key) ==
  IF key \in DOMAIN series \/ Cardinality(DOMAIN series) < MAX_SERIES THEN key ELSE Overflow

\* sample: the window grows to its limit and then goes round.
Sampled(s, x) ==
  IF Len(s.window) < MAX_SAMPLES THEN [s EXCEPT !.window = Append(@, x)]
  ELSE [s EXCEPT !.window = [@ EXCEPT ![s.head + 1] = x], !.head = (@ + 1) % MAX_SAMPLES]

NoSeries == [count |-> 0, window |-> <<>>, head |-> 0]
With(f, k, v) == [x \in DOMAIN f \cup {k} |-> IF x = k THEN v ELSE f[x]]

\* record_request.
RecordRequest(r) ==
  LET k == SeriesFor(r.key)
      s == IF k \in DOMAIN series THEN series[k] ELSE NoSeries
  IN  /\ series' = With(series, k, [Sampled(s, r.id) EXCEPT !.count = @ + 1])
      /\ past' = With(past, k, (IF k \in DOMAIN past THEN past[k] ELSE <<>>) \o <<r.id>>)
      /\ folded' = folded + (IF k = r.key THEN 0 ELSE 1)

Counted == MapThenSumSet(LAMBDA k : series[k].count, DOMAIN series)

-----------------------------------------------------------------------------
LBInit ==
  /\ lb \in LBScenarios
  /\ line = <<>> /\ held = Nobody /\ marked = {}
  /\ client = [c \in LBConn |-> [state |-> "new", due |-> 0]]
  /\ worker = [w \in LBWorker |-> [pc |-> "idle", conn |-> Nobody, gen |-> -1, turns |-> <<>>, since |-> 0,
                                   host |-> <<>>, late |-> FALSE, last |-> NoPick]]
  /\ inbox2 = <<>> /\ gen = 0 /\ published = 0
  /\ series = <<>> /\ past = <<>> /\ folded = 0 /\ dropped = 0 /\ asked = 0 /\ done = 0
  /\ scrape = [pc |-> "idle", n |-> 0, at |-> 0, slot |-> NoText2, got |-> NoText2]

Room == Len(inbox2) < LB_INBOX

-----------------------------------------------------------------------------
(* The clients.                                                            *)

Connect(c) ==
  /\ c <= lb.conns /\ client[c].state = "new" /\ \A b \in 1..(c - 1) : client[b].state # "new"
  /\ client' = [client EXCEPT ![c].state = "open"]
  /\ line' = Append(line, c)
  /\ UNCHANGED <<lb, held, worker, marked, inbox2, gen, published, series, folded, dropped, asked, done,
                 past, scrape>>

AskFor(c) ==
  /\ client[c].state = "open" /\ client[c].due = 0 /\ asked < lb.asks
  /\ client' = [client EXCEPT ![c].due = 1]
  /\ asked' = asked + 1
  /\ UNCHANGED <<lb, line, held, worker, marked, inbox2, gen, published, series, folded, dropped, done,
                 past, scrape>>

-----------------------------------------------------------------------------
(* The pool.                                                               *)

Accept ==
  /\ HopOS /\ held = Nobody /\ line # <<>>
  /\ held' = Head(line) /\ line' = Tail(line)
  /\ UNCHANGED <<lb, client, worker, marked, inbox2, gen, published, series, folded, dropped, asked, done,
                 past, scrape>>

\* hand_off: the first worker that is not busy and whose queue is empty.
FreeWorkers == {w \in LBWorker : w \notin marked /\ worker[w].pc # "handed"}

HandOff ==
  /\ held # Nobody /\ FreeWorkers # {}
  /\ LET w == Min(FreeWorkers)
     IN  /\ worker' = [worker EXCEPT ![w].pc = "handed", ![w].conn = held]
         /\ marked' = marked \cup {w}
  /\ held' = Nobody
  /\ UNCHANGED <<lb, line, client, inbox2, gen, published, series, folded, dropped, asked, done, past, scrape>>

\* A thread of the host accepts, and counts itself busy a moment later.
ThreadAccepts(w) ==
  /\ ~HopOS /\ worker[w].pc = "idle" /\ line # <<>>
  /\ worker' = [worker EXCEPT ![w].pc = "handed", ![w].conn = Head(line)]
  /\ line' = Tail(line)
  /\ UNCHANGED <<lb, held, client, marked, inbox2, gen, published, series, folded, dropped, asked, done,
                 past, scrape>>

StartsServing(w) ==
  /\ worker[w].pc = "handed"
  /\ worker' = [worker EXCEPT ![w].pc = "read"]
  /\ marked' = marked \cup {w}
  /\ UNCHANGED <<lb, line, held, client, inbox2, gen, published, series, folded, dropped, asked, done,
                 past, scrape>>

Unmarked(w) == marked \ {w}

Frees(w) ==
  /\ worker' = [worker EXCEPT ![w].pc = "idle", ![w].conn = Nobody]
  /\ marked' = Unmarked(w)
  /\ client' = [client EXCEPT ![worker[w].conn] = [state |-> "closed", due |-> 0]]

\* The client hung up, or was silent for too long.
ConnectionEnds(w) ==
  /\ worker[w].pc = "read" /\ client[worker[w].conn].due = 0
  /\ Frees(w)
  /\ UNCHANGED <<lb, line, held, inbox2, gen, published, series, folded, dropped, asked, done, past, scrape>>

ReadRequest(w) ==
  /\ worker[w].pc = "read" /\ client[worker[w].conn].due = 1
  /\ client' = [client EXCEPT ![worker[w].conn].due = 0]
  /\ \E h \in HostNames :
       worker' = [worker EXCEPT ![w].pc = "pick", ![w].host = h, ![w].since = gen, ![w].late = FALSE]
  /\ UNCHANGED <<lb, line, held, marked, inbox2, gen, published, series, folded, dropped, asked, done,
                 past, scrape>>

-----------------------------------------------------------------------------
(* The table of a host's worker: a copy that is asked for again, once in a *)
(* request, when the generation moved on.                                  *)

CurrentOnce(w) == HopOS \/ worker[w].gen >= 0

Current(w) == HopOS \/ worker[w].gen = gen

AsksSnapshot(w) ==
  /\ worker[w].pc = "pick" /\ ~Current(w) /\ Room
  /\ worker' = [worker EXCEPT ![w].pc = "snap"]
  /\ inbox2' = Append(inbox2, [m |-> "snapshot", w |-> w])
  /\ UNCHANGED <<lb, line, held, client, marked, gen, published, series, folded, dropped, asked, done,
                 past, scrape>>

\* OWNER_TIMEOUT: the worker goes on with the copy it has.  A late answer
\* finds nobody.
SnapshotLate(w) ==
  /\ worker[w].pc = "snap"
  /\ worker' = [worker EXCEPT ![w].pc = "go", ![w].late = TRUE]
  /\ inbox2' = [i \in DOMAIN inbox2 |-> IF inbox2[i] = [m |-> "snapshot", w |-> w]
                                        THEN [m |-> "snapshot", w |-> Nobody] ELSE inbox2[i]]
  /\ UNCHANGED <<lb, line, held, client, marked, gen, published, series, folded, dropped, asked, done,
                 past, scrape>>

Crowded == marked = LBWorker

\* One exchange: the pick, the proxy's work, the record and whether the
\* connection stays: the proxy's own answer to a request without a backend
\* does not ask whether it is crowded.  On HopOS every worker turns the counters of the one
\* table (here: those of worker 1).
ExchangeAndRecord(w) ==
  /\ worker[w].pc = "go" \/ (worker[w].pc = "pick" /\ Current(w))
  /\ LET copy == IF HopOS THEN 1 ELSE w
         g == IF HopOS THEN gen ELSE worker[w].gen
         pick == Pick(Table(g), worker[copy].turns, worker[w].host)
         last == [g |-> g, since |-> worker[w].since, late |-> worker[w].late, host |-> worker[w].host,
                  pattern |-> pick.pattern, backend |-> pick.backend, n |-> pick.n, id |-> done + 1]
     IN  /\ done' = done + 1
         /\ IF Room
            THEN /\ inbox2' = Append(inbox2, [m |-> "record", key |-> <<worker[w].host, pick.backend>>,
                                              id |-> done + 1])
                 /\ UNCHANGED dropped
            ELSE dropped' = dropped + 1 /\ UNCHANGED inbox2
         /\ worker' = [[worker EXCEPT ![copy].turns = pick.turns, ![copy].last = last]
                         EXCEPT ![w].pc = IF Crowded /\ pick.n > 0 THEN "close" ELSE "read"]
  /\ UNCHANGED <<lb, line, held, client, marked, gen, published, series, folded, asked, past, scrape>>

Closes(w) ==
  /\ worker[w].pc = "close"
  /\ Frees(w)
  /\ UNCHANGED <<lb, line, held, inbox2, gen, published, series, folded, dropped, asked, done, past, scrape>>

-----------------------------------------------------------------------------
(* The watcher.                                                            *)

\* publish: the shared table is replaced; or the owner gets it, and the
\* watcher waits while the inbox is full.
Publish ==
  /\ published < Len(Tables)
  /\ published' = published + 1
  /\ IF HopOS THEN /\ gen' = published + 1
                   /\ worker' = [worker EXCEPT ![1].turns = Fresh(published + 1)]
                   /\ UNCHANGED inbox2
     ELSE /\ Room /\ inbox2' = Append(inbox2, [m |-> "routes", g |-> published + 1])
          /\ UNCHANGED <<gen, worker>>
  /\ UNCHANGED <<lb, line, held, client, marked, series, folded, dropped, asked, done, past, scrape>>

-----------------------------------------------------------------------------
(* The admin port's scrape.                                                *)

\* An old answer, to a question that gave up, goes first (HopOS); a scrape
\* of the host has a channel of its own.
SlotCleared == NoText2

ScrapeAsks ==
  /\ scrape.pc = "idle" /\ scrape.n < lb.scrapes /\ Room
  /\ scrape' = [pc |-> "wait", n |-> scrape.n + 1, at |-> Counted, slot |-> SlotCleared, got |-> NoText2]
  /\ inbox2' = Append(inbox2, [m |-> "scrape", n |-> scrape.n + 1])
  /\ UNCHANGED <<lb, line, held, client, worker, marked, gen, published, series, folded, dropped, asked,
                 done, past>>

\* A full mailbox answers 503 at once on HopOS; a host waits for room.
ScrapeRefused ==
  /\ HopOS /\ scrape.pc = "idle" /\ scrape.n < lb.scrapes /\ ~Room
  /\ scrape' = [scrape EXCEPT !.n = @ + 1, !.slot = SlotCleared, !.got = NoText2]
  /\ UNCHANGED <<lb, line, held, client, worker, marked, inbox2, gen, published, series, folded, dropped,
                 asked, done, past>>

ScrapeAnswered ==
  /\ scrape.pc = "wait" /\ scrape.slot # NoText2
  /\ scrape' = [scrape EXCEPT !.pc = "idle", !.got = scrape.slot, !.slot = NoText2]
  /\ UNCHANGED <<lb, line, held, client, worker, marked, inbox2, gen, published, series, folded, dropped,
                 asked, done, past>>

ScrapeTimesOut ==
  /\ scrape.pc = "wait" /\ scrape.slot = NoText2
  /\ scrape' = [scrape EXCEPT !.pc = "idle"]
  /\ UNCHANGED <<lb, line, held, client, worker, marked, inbox2, gen, published, series, folded, dropped,
                 asked, done, past>>

-----------------------------------------------------------------------------
(* The owner (on HopOS the metrics task), one message at a time.           *)

OwnerRecords ==
  /\ Head(inbox2).m = "record"
  /\ RecordRequest(Head(inbox2))
  /\ UNCHANGED <<gen, worker, scrape>>

OwnerRoutes ==
  /\ Head(inbox2).m = "routes"
  /\ gen' = Head(inbox2).g
  /\ UNCHANGED <<worker, series, folded, past, scrape>>

OwnerSnapshots ==
  /\ Head(inbox2).m = "snapshot"
  /\ worker' = IF Head(inbox2).w = Nobody THEN worker
               ELSE [worker EXCEPT ![Head(inbox2).w].pc = "go", ![Head(inbox2).w].gen = gen,
                                   ![Head(inbox2).w].turns = Fresh(gen)]
  /\ UNCHANGED <<gen, series, folded, past, scrape>>

\* render: the text of the moment into the slot.  The channel of a host's
\* scrape that gave up is gone.
OwnerRenders ==
  /\ Head(inbox2).m = "scrape"
  /\ scrape' = IF HopOS \/ (Head(inbox2).n = scrape.n /\ scrape.pc = "wait") THEN [scrape EXCEPT !.slot = Counted]
               ELSE scrape
  /\ UNCHANGED <<gen, worker, series, folded, past>>

OwnerRuns ==
  /\ inbox2 # <<>> /\ inbox2' = Tail(inbox2)
  /\ OwnerRecords \/ OwnerRoutes \/ OwnerSnapshots \/ OwnerRenders
  /\ UNCHANGED <<lb, line, held, client, marked, published, dropped, asked, done>>

-----------------------------------------------------------------------------
WorkerRuns(w) ==
  \/ ThreadAccepts(w) \/ StartsServing(w) \/ ConnectionEnds(w) \/ ReadRequest(w)
  \/ AsksSnapshot(w) \/ SnapshotLate(w) \/ ExchangeAndRecord(w) \/ Closes(w)

\* What runs by itself; a client that is silent is one whose deadline
\* passes (Limits::idle).
LBRuns == Accept \/ HandOff \/ OwnerRuns \/ \E w \in LBWorker : WorkerRuns(w)

LBNext ==
  \/ LBRuns
  \/ \E c \in LBConn : Connect(c) \/ AskFor(c)
  \/ Publish
  \/ ScrapeAsks \/ ScrapeRefused \/ ScrapeAnswered \/ ScrapeTimesOut

LBSpec == LBInit /\ [][LBNext]_lbVars

-----------------------------------------------------------------------------
LBTypeOK ==
  /\ Len(inbox2) <= LB_INBOX
  /\ Cardinality(DOMAIN series) <= MAX_SERIES + 1
  /\ \A k \in DOMAIN series : Len(series[k].window) <= MAX_SAMPLES /\ series[k].head \in 0..(MAX_SAMPLES - 1)
  /\ marked = {w \in LBWorker : worker[w].pc \notin (IF HopOS THEN {"idle"} ELSE {"idle", "handed"})}
  /\ \A w \in LBWorker : (worker[w].conn # Nobody) <=> (worker[w].pc # "idle")
  /\ \A v, w \in LBWorker : worker[v].conn = worker[w].conn => v = w \/ worker[v].conn = Nobody

\* A request goes by a table at least as new as the one in force when its
\* head was read (GENERATION, Snapshot), unless the owner did not answer in
\* time.
PickIsCurrent ==
  \A w \in LBWorker : worker[w].last.g >= worker[w].last.since \/ worker[w].last.late

\* Which route a name gets: itself, else the wildcard that differs from it
\* in the first label only, and nothing else.
RouteIsRight ==
  \A w \in LBWorker :
    LET l == worker[w].last
        ps == Patterns(Table(l.g))
        fits(p) == IsWild(p) /\ Len(p) = Len(l.host) /\ \A i \in 2..Len(p) : p[i] = l.host[i]
    IN  l # NoPick =>
          /\ l.host \in ps => l.pattern = l.host
          /\ l.host \notin ps => IF \E p \in ps : fits(p) THEN fits(l.pattern) ELSE l.pattern = Nowhere

\* Every request that was answered is counted, waits to be counted, or was
\* dropped and counted as such, folding included.
CountsAddUp ==
  Counted + dropped + Len(SelectSeq(inbox2, LAMBDA x : x.m = "record")) = done

\* The window of a series holds the last records of it, whatever their
\* number: percentiles are over recent requests.
WindowIsRecent ==
  \A k \in DOMAIN series :
    LET n == Len(past[k])
        m == IF n < MAX_SAMPLES THEN n ELSE MAX_SAMPLES
    IN  ToSet(series[k].window) = {past[k][i] : i \in (n - m + 1)..n}

\* A scrape that gets a text gets one made after it asked, also when an
\* earlier scrape gave up and its answer came late.
ScrapeIsFresh == scrape.got # NoText2 => scrape.got >= scrape.at

\* When nothing can run by itself any more, every connection had a worker,
\* however quiet the clients of the others were, and every table the watcher
\* handed over is in force.  (No step of LBRuns can repeat forever, so this
\* is what would otherwise be asked of fair behaviours.)
NobodyWaits == (line = <<>> /\ held = Nobody /\ gen = published) \/ ENABLED LBRuns

\* What holds of picks, counts and scrapes while tables change.
BalancerInv ==
  /\ LBTypeOK
  /\ PickIsCurrent
  /\ RouteIsRight
  /\ CountsAddUp
  /\ WindowIsRecent
  /\ ScrapeIsFresh
  /\ NobodyWaits
=============================================================================
