-------------------------------- MODULE Watch --------------------------------
(***************************************************************************)
(* How a change in the cluster reaches the name server (hopdns) and the    *)
(* load balancer (hoplb).  The leader queues what changed                  *)
(* (leader/src/events.rs), its node logs it in a ring (api/src/stream.rs), *)
(* a stream carries the ring to a subscriber (hoplib), and the subscriber  *)
(* (apps/hopdns/src/watcher.rs, apps/hoplb/src/watch.rs) fetches the state *)
(* again and publishes a view of it.  An event only says that something    *)
(* changed: every fetch is a call of its own, so what a view shows is      *)
(* pieced together from several moments.                                   *)
(***************************************************************************)
EXTENDS Integers, Sequences, SequencesExt, FiniteSets

CONSTANTS
  Agents,         \* the agents of the cluster
  Jobs,           \* the job names
  Daemon,         \* the jobs that run on every agent; the others run once
  Mixed,          \* the jobs with a capital in their name
  Kinds,          \* which watcher: "dns" or "lb"
  MAX_EVENTS,     \* the events a leader queues, and the length of the ring
  MAX_PENDING,    \* the jobs hopdns lists before it fetches everything
  INBOX,          \* the events between a stream and its watcher
  MaxTrouble      \* bound: changes of the cluster, failed calls, lost
                  \* connections and lost messages

VARIABLES
  \* the cluster, as its agents and its leader know it
  defs,           \* the store: a job is absent, plain or tagged for hoplb
  runs,           \* the agents on which a job has a running task
  booked,         \* the agents on which the leader placed a job
  alive,          \* the agents that are up
  addr,           \* the endpoint of an agent, which a restart may change
  reg,            \* the endpoint under which an agent is registered
  settled,        \* the leader has waited for its agents
  notes,          \* the jobs whose notify is under way to the leader
  \* the event log of the leader's node
  next, ring,
  \* the stream and its watcher
  kind, known, conn, seq, inbox, full, pend, due, fetch, lb, updates, view,
  \* counters and history
  trouble, excused, gone

cluster == <<defs, runs, booked, alive, addr, reg, settled, notes>>
log == <<next, ring>>
stream == <<conn, seq, inbox>>
pending == <<full, pend, due>>
refreshing == <<fetch, lb, updates, excused>>
watchVars == <<cluster, log, stream, pending, refreshing, kind, known, view,
               trouble, gone>>

None == "none"
Endpoints == {"e1", "e2"}
NoHosts == [a \in Agents |-> None]
NoTasks == [j \in Jobs |-> {}]
NoDefs == [j \in Jobs |-> None]
Idle == [step |-> None, todo |-> <<>>, hosts |-> NoHosts, defs |-> NoDefs]

\* What an event says: that a job, an agent or anything at all changed.
WatchJob(j) == [kind |-> "job", of |-> j]
Task(j) == [kind |-> "task", of |-> j]
Agent(a) == [kind |-> "agent", of |-> a]
Status == [kind |-> "status", of |-> None]
Ping == [kind |-> "ping", of |-> None]
Lost == [kind |-> "lost", of |-> None]

Dns == kind # "lb"

------------------------------------------------------------------------------
(* The leader's events.                                                    *)

\* One event joins the queue, unless it is there or the queue has
\* overflowed.
PushEvent(q, e) ==
  IF q.overflowed \/ e \in Range(q.queue) THEN q
  ELSE IF Len(q.queue) >= MAX_EVENTS THEN [q EXCEPT !.overflowed = TRUE]
  ELSE [q EXCEPT !.queue = Append(@, e)]

\* A slip: an overflow goes unnoticed.
DrainKeepsQueue(es) ==
  FoldLeft(PushEvent, [queue |-> <<>>, overflowed |-> FALSE], es).queue

\* What the node takes from the queue after events es: a single status once
\* it has overflowed.
Drain(es) ==
  LET q == FoldLeft(PushEvent, [queue |-> <<>>, overflowed |-> FALSE], es)
  IN  IF q.overflowed THEN <<Status>> ELSE q.queue

\* The ring keeps the last MAX_EVENTS topics.
PushTopics(es) ==
  /\ next' = next + Len(es)
  /\ ring' = LET r == ring \o es
             IN  SubSeq(r, Len(r) - (IF Len(r) < MAX_EVENTS THEN Len(r)
                                     ELSE MAX_EVENTS) + 1, Len(r))

Emit(es) == PushTopics(Drain(es))

\* The frames a stream at position s misses: a status first when the ring
\* has lost some of them.
Since(s) ==
  LET first == next - Len(ring)
  IN  IF s < first THEN <<Status>> \o ring
      ELSE SubSeq(ring, s - first + 1, Len(ring))

------------------------------------------------------------------------------
(* The cluster.                                                            *)

\* A change of the cluster, or a fault of the network.
Trouble == trouble < MaxTrouble /\ trouble' = trouble + 1

\* The agents that the leader knows.
Registered(r) == {a \in Agents : r[a] # None}

\* Where a job is missing: a daemon on every agent without it, another job
\* on one agent when it has none.
Missing(r, d, b, j) ==
  IF d[j] = None \/ Registered(r) = {} THEN {}
  ELSE IF j \in Daemon THEN Registered(r) \ b[j]
  ELSE IF b[j] = {} THEN {CHOOSE a \in Registered(r) : TRUE} ELSE {}

\* A reconcile books what is missing and says which jobs it touched.
Reconciled(r, d, b) == [j \in Jobs |-> b[j] \cup Missing(r, d, b, j)]
ReconcileEvents(r, d, b) ==
  LET touched == SetToSeq({j \in Jobs : Missing(r, d, b, j) # {}})
  IN  [i \in 1..Len(touched) |-> WatchJob(touched[i])]

Ran(rs) == gone' = gone \cup {j \in Jobs : rs[j] = {}}

\* An agent starts a task it was given, and notifies the leader.
StartTask(a, j) ==
  /\ a \in (booked[j] \cap alive) \ runs[j]
  /\ runs' = [runs EXCEPT ![j] = @ \cup {a}]
  /\ notes' = notes \cup {j}
  /\ UNCHANGED <<defs, booked, alive, addr, reg, settled, log, stream, pending,
                 refreshing, kind, known, view, trouble, gone>>

\* A task crashes; its agent notifies the leader and starts it again.
Crash(a, j) ==
  /\ Trouble
  /\ a \in runs[j]
  /\ runs' = [runs EXCEPT ![j] = @ \ {a}]
  /\ notes' = notes \cup {j}
  /\ Ran(runs')
  /\ UNCHANGED <<defs, booked, alive, addr, reg, settled, log, stream, pending,
                 refreshing, kind, known, view>>

\* The notify reaches the leader's node, which logs it at once.
Notify(j) ==
  /\ j \in notes
  /\ notes' = notes \ {j}
  /\ PushTopics(<<Task(j)>>)
  /\ UNCHANGED <<defs, runs, booked, alive, addr, reg, settled, stream, pending,
                 refreshing, kind, known, view, trouble, gone>>

\* The notify gets lost: nobody sends it again.
NotifyLost(j) ==
  /\ Trouble
  /\ j \in notes
  /\ notes' = notes \ {j}
  /\ excused' = TRUE
  /\ UNCHANGED <<defs, runs, booked, alive, addr, reg, settled, log, stream,
                 pending, fetch, lb, updates, kind, known, view, gone>>

\* An agent goes down with its tasks.
Die(a) ==
  /\ Trouble
  /\ a \in alive
  /\ alive' = alive \ {a}
  /\ runs' = [j \in Jobs |-> runs[j] \ {a}]
  /\ Ran(runs')
  /\ UNCHANGED <<defs, booked, addr, reg, settled, notes, log, stream, pending,
                 refreshing, kind, known, view>>

\* It comes back, with nothing, at another endpoint.
Revive(a) ==
  /\ Trouble
  /\ a \notin alive
  /\ alive' = alive \cup {a}
  /\ addr' = [addr EXCEPT ![a] = CHOOSE e \in Endpoints : e # @]
  /\ UNCHANGED <<defs, runs, booked, reg, settled, notes, log, stream, pending,
                 refreshing, kind, known, view, gone>>

\* The leader misses the heartbeats of an agent.
Dead(a) ==
  LET r == [reg EXCEPT ![a] = None]
      b == [j \in Jobs |-> booked[j] \ {a}]
  IN  /\ settled
      /\ reg[a] # None
      /\ a \notin alive
      /\ reg' = r
      /\ booked' = Reconciled(r, defs, b)
      /\ Emit(<<Agent(a)>> \o ReconcileEvents(r, defs, b))
      /\ UNCHANGED <<defs, runs, alive, addr, settled, notes, stream, pending,
                     refreshing, kind, known, view, trouble, gone>>

\* An agent registers with what it runs.  A settled leader stops what it
\* placed elsewhere in the meantime, and reconciles.
RegisterAgent(a) ==
  LET r == [reg EXCEPT ![a] = addr[a]]
      has == {j \in Jobs : a \in runs[j]}
      surplus == IF settled
                 THEN {j \in has \ Daemon : booked[j] \ {a} # {}} ELSE {}
      b == [j \in Jobs |-> IF j \in has \ surplus THEN booked[j] \cup {a}
                           ELSE booked[j] \ {a}]
      trimmed == SetToSeq(surplus)
  IN  /\ a \in alive
      /\ reg[a] # addr[a]
      /\ reg' = r
      /\ runs' = [j \in Jobs |-> IF j \in surplus THEN runs[j] \ {a}
                                 ELSE runs[j]]
      /\ booked' = IF settled THEN Reconciled(r, defs, b) ELSE b
      /\ Emit([i \in 1..Len(trimmed) |-> WatchJob(trimmed[i])]
              \o (IF settled THEN ReconcileEvents(r, defs, b) ELSE <<>>)
              \o <<Agent(a)>>)
      /\ Ran(runs')
      /\ UNCHANGED <<defs, alive, addr, settled, notes, stream, pending,
                     refreshing, kind, known, view, trouble>>

\* A job arrives or gets another definition.
Apply(j, d) ==
  LET nd == [defs EXCEPT ![j] = d]
  IN  /\ Trouble
      /\ d # defs[j]
      /\ defs' = nd
      /\ booked' = IF settled
                   THEN [booked EXCEPT ![j] = Reconciled(reg, nd, booked)[j]]
                   ELSE booked
      /\ Emit(<<WatchJob(j)>>)
      /\ UNCHANGED <<runs, alive, addr, reg, settled, notes, stream, pending,
                     refreshing, kind, known, view, gone>>

\* A job is deleted where it is placed.
RemoveJob(j) ==
  /\ Trouble
  /\ defs[j] # None
  /\ defs' = [defs EXCEPT ![j] = None]
  /\ booked' = [booked EXCEPT ![j] = {}]
  /\ runs' = [runs EXCEPT ![j] = @ \ booked[j]]
  /\ Emit(<<WatchJob(j)>>)
  /\ Ran(runs')
  /\ UNCHANGED <<alive, addr, reg, settled, notes, stream, pending, refreshing,
                 kind, known, view>>

\* Leadership moves.  The new leader knows no agent until it registers.  On
\* another node the log is another one and a stream on the old node ends; a
\* node that leads again before a stream polls keeps its streams.
LeaderChanges(same) ==
  /\ Trouble
  /\ reg' = NoHosts
  /\ booked' = NoTasks
  /\ settled' = FALSE
  /\ notes' = {}
  /\ conn' = IF same \/ conn # "open" THEN conn ELSE "ending"
  /\ UNCHANGED <<defs, runs, alive, addr, log, seq, inbox, pending, refreshing,
                 kind, known, view, gone>>

\* The settle period is over.
Settle ==
  /\ ~settled
  /\ \A a \in alive : reg[a] # None
  /\ settled' = TRUE
  /\ booked' = Reconciled(reg, defs, booked)
  /\ Emit(<<Status>> \o ReconcileEvents(reg, defs, booked))
  /\ UNCHANGED <<defs, runs, alive, addr, reg, notes, stream, pending,
                 refreshing, kind, known, view, trouble, gone>>

------------------------------------------------------------------------------
(* The stream (hoplib) and the source that polls the log for it.           *)

\* A subscription starts at the end of the log, with a ping.  (hopdns on a
\* host connects only once it knows the name of its cluster; on HopOS its
\* stream does not wait for that.)
Connect ==
  /\ conn = "down"
  /\ Len(inbox) < INBOX
  /\ conn' = "open"
  /\ seq' = next
  /\ inbox' = Append(inbox, Ping)
  /\ UNCHANGED <<cluster, log, pending, refreshing, kind, known, view, trouble, gone>>

\* The source sends what came since its last poll.
PollStream ==
  /\ conn = "open"
  /\ seq # next
  /\ Len(inbox) + Len(Since(seq)) <= INBOX
  /\ inbox' = inbox \o Since(seq)
  /\ seq' = next
  /\ UNCHANGED <<cluster, log, conn, pending, refreshing, kind, known, view,
                 trouble, gone>>

\* The connection closes: what was not yet read is lost.  Only hopdns tells
\* its watcher.
DropConn ==
  /\ Len(inbox) < INBOX
  /\ \E n \in 0..Len(inbox) :
       inbox' = SubSeq(inbox, 1, n) \o (IF Dns THEN <<Lost>> ELSE <<>>)
  /\ conn' = "down"
  /\ seq' = 0
  /\ UNCHANGED <<cluster, log, pending, refreshing, kind, known, view,
                 gone>>

\* An ex-leader ends its streams.
PollDone == conn = "ending" /\ DropConn /\ UNCHANGED trouble

StreamLost == conn = "open" /\ Trouble /\ DropConn

------------------------------------------------------------------------------
(* The watcher: what it hears.                                             *)

\* hopdns asks for the name of its cluster once.
Discover ==
  /\ ~known
  /\ known' = TRUE
  /\ UNCHANGED <<cluster, log, stream, pending, refreshing, kind, view, trouble, gone>>

PendFull ==
  /\ full' = TRUE
  /\ pend' = <<>>
  /\ due' = IF due = None THEN "later" ELSE due

\* A job joins the list of hopdns, which is given up when it is full.
PendJob(j) ==
  IF full THEN UNCHANGED pending
  ELSE IF j \notin Range(pend) /\ Len(pend) >= MAX_PENDING THEN PendFull
  ELSE /\ pend' = IF j \in Range(pend) THEN pend ELSE Append(pend, j)
       /\ due' = IF due = None THEN "later" ELSE due
       /\ UNCHANGED full

\* A lost connection drops what was pending: the next ping seeds it all.
DropPending == full' = FALSE /\ pend' = <<>> /\ due' = None

\* hopdns takes an event.
DnsEvent(e) ==
  CASE e.kind = "ping" -> full' = TRUE /\ pend' = <<>> /\ due' = "now"
    [] e.kind \in {"status", "agent"} -> PendFull
    [] e.kind \in {"job", "task"} -> PendJob(e.of)
    [] e.kind = "lost" -> DropPending

\* What an event means to hoplb: a job event is about the definition and
\* asks for everything, a task event for its job unless that is known to be
\* irrelevant; an agent event means nothing.
ClassifyEvent(e) ==
  CASE e.kind = "job" -> "full"
    [] e.kind = "task" /\ lb.defs[e.of] = "plain" -> None
    [] e.kind = "task" /\ lb.defs[e.of] = None -> "full"
    [] e.kind = "task" -> "job"
    [] OTHER -> None

PushPending(j, f) ==
  /\ full' = (full \/ f)
  /\ pend' = IF j \in Range(pend) THEN pend ELSE Append(pend, j)
  /\ due' = IF due = None THEN "later" ELSE due

Begin(step, todo) == fetch' = [Idle EXCEPT !.step = step, !.todo = todo]

\* hoplb takes an event; a resync is fetched at once.
LbEvent(e) ==
  IF e.kind \in {"ping", "status"} THEN DropPending /\ Begin("agents", <<>>)
  ELSE LET c == ClassifyEvent(e)
       IN  /\ UNCHANGED fetch
           /\ IF c = None THEN UNCHANGED pending
              ELSE PushPending(e.of, c = "full")

\* The watcher hears an event.  hopdns hears nothing while a refresh is due
\* now, unless it still waits for the name of its cluster.
Hear ==
  /\ inbox # <<>>
  /\ fetch.step = None
  /\ due # "now" \/ ~known
  /\ inbox' = Tail(inbox)
  /\ IF Dns THEN DnsEvent(Head(inbox)) /\ UNCHANGED fetch
     ELSE LbEvent(Head(inbox))
  /\ excused' = (excused \/ (~Dns /\ Head(inbox).kind = "agent"))
  /\ UNCHANGED <<cluster, log, conn, seq, lb, updates, kind, known, view,
                 trouble, gone>>

------------------------------------------------------------------------------
(* The watcher: what it fetches.                                           *)

\* The wait is over: the watcher takes all that is pending.
TakePending ==
  /\ due # None
  /\ fetch.step = None
  /\ known
  /\ IF full THEN Begin("agents", <<>>) ELSE Begin("job", pend)
  /\ DropPending
  /\ UNCHANGED <<cluster, log, stream, lb, updates, excused, kind, known, view,
                 trouble, gone>>

\* The tasks that run on agents S and registered agents report.
Reported(S) == [j \in Jobs |-> {a \in runs[j] \cap S : reg[a] # None}]

\* The view that tasks ts give with hosts hs: the addresses of each job.
Addresses(ts, hs) ==
  [j \in Jobs |-> {<<a, hs[a]>> : a \in {x \in ts[j] : hs[x] # None}}]

\* hoplb routes only the jobs with a tag.
BuildRoutes(w) ==
  LET all == Addresses(w.tasks, w.hosts)
  IN  [j \in Jobs |-> IF w.defs[j] = "tagged" THEN all[j] ELSE {}]

FetchAgents ==
  /\ fetch.step = "agents"
  /\ fetch' = [fetch EXCEPT !.hosts = reg,
                            !.step = IF Dns THEN "tasks" ELSE "jobs"]
  /\ excused' = FALSE
  /\ UNCHANGED <<cluster, log, stream, pending, lb, updates, kind, known, view,
                 trouble, gone>>

FetchJobs ==
  /\ fetch.step = "jobs"
  /\ fetch' = [fetch EXCEPT !.defs = defs, !.step = "tasks"]
  /\ UNCHANGED <<cluster, log, stream, pending, lb, updates, excused, kind,
                 known, view, trouble, gone>>

\* All tasks, from every registered agent that answers; one that is silent
\* contributes nothing.  hopdns replaces its cluster, hoplb its tables.
FetchTasks(silent) ==
  LET ts == Reported(Agents \ silent)
      w == [hosts |-> fetch.hosts, defs |-> fetch.defs,
            tasks |-> [j \in Jobs |-> IF fetch.defs[j] = "tagged" THEN ts[j]
                                      ELSE {}]]
  IN  /\ fetch.step = "tasks"
      /\ Len(updates) < 2
      /\ IF silent = {} THEN UNCHANGED <<trouble, excused>>
         ELSE Trouble /\ excused' = TRUE
      /\ IF Dns THEN /\ updates' = Append(updates, Addresses(ts, fetch.hosts))
                     /\ UNCHANGED lb
         ELSE /\ lb' = w
              /\ updates' = Append(updates, BuildRoutes(w))
      /\ fetch' = Idle
      /\ UNCHANGED <<cluster, log, stream, pending, kind, known, view,
                     gone>>

\* The status of one job: the agents it is placed on and their tasks.  The
\* leader compares names exactly; hopdns asks for the name in small letters.
Placed(j) ==
  IF Dns /\ j \in Mixed THEN {} ELSE {a \in booked[j] : defs[j] # None}

FetchJobStatus(silent) ==
  LET j == Head(fetch.todo)
      on == {a \in Placed(j) : reg[a] # None}
      ts == (runs[j] \cap on) \ silent
      w == [lb EXCEPT !.hosts = [a \in Agents |-> IF a \in on THEN reg[a]
                                                  ELSE @[a]],
                      !.tasks[j] = IF lb.defs[j] = "tagged" THEN ts ELSE @]
      last == Len(fetch.todo) = 1
  IN  /\ fetch.step = "job"
      /\ Len(updates) < 2
      /\ IF silent = {} THEN UNCHANGED <<trouble, excused>>
         ELSE Trouble /\ excused' = TRUE
      /\ fetch' = IF last THEN Idle ELSE [fetch EXCEPT !.todo = Tail(@)]
      /\ IF Dns THEN /\ updates' = Append(updates,
                                      [x \in {j} |-> Addresses([NoTasks EXCEPT
                                         ![j] = ts], reg)[j]])
                     /\ UNCHANGED lb
         ELSE /\ lb' = w
              /\ updates' = IF last THEN Append(updates, BuildRoutes(w))
                            ELSE updates
      /\ UNCHANGED <<cluster, log, stream, pending, kind, known, view,
                     gone>>

\* A call fails.  A refresh of jobs becomes one of everything, at once; one
\* of everything is tried again later.
FetchFails ==
  /\ Trouble
  /\ fetch.step # None
  /\ IF fetch.step = "job" /\ ~Dns
     THEN Begin("agents", <<>>) /\ UNCHANGED pending
     ELSE /\ full' = TRUE
          /\ pend' = IF Dns THEN <<>> ELSE pend
          /\ due' = IF fetch.step = "job" THEN "now"
                    ELSE IF due = None THEN "later" ELSE due
          /\ fetch' = Idle
  /\ UNCHANGED <<cluster, log, stream, lb, updates, excused, kind, known, view, gone>>

\* The owner of the cache, or of the routes, takes the next update.
ApplyUpdate ==
  /\ updates # <<>>
  /\ view' = [j \in Jobs |-> IF j \in DOMAIN Head(updates)
                             THEN Head(updates)[j] ELSE view[j]]
  /\ updates' = Tail(updates)
  /\ UNCHANGED <<cluster, log, stream, pending, fetch, lb, excused, kind, known,
                 trouble, gone>>

------------------------------------------------------------------------------

\* A settled cluster that runs its jobs, and a watcher that starts.
WatchInit ==
  /\ defs = [j \in Jobs |-> "tagged"]
  /\ booked = Reconciled([a \in Agents |-> "e1"], defs, NoTasks)
  /\ runs = booked
  /\ alive = Agents
  /\ addr = [a \in Agents |-> "e1"]
  /\ reg = addr
  /\ settled = TRUE
  /\ notes = {}
  /\ next = 0 /\ ring = <<>>
  /\ kind \in Kinds
  /\ known = (kind = "lb")
  /\ conn = "down" /\ seq = 0 /\ inbox = <<>>
  /\ full = FALSE /\ pend = <<>> /\ due = None
  /\ fetch = Idle
  /\ lb = [hosts |-> NoHosts, defs |-> NoDefs, tasks |-> NoTasks]
  /\ updates = <<>>
  /\ view = NoTasks
  /\ trouble = 0 /\ excused = FALSE /\ gone = {}

\* What the processes do by themselves.
WatchProgress ==
  \/ \E a \in Agents : Dead(a) \/ RegisterAgent(a) \/ \E j \in Jobs : StartTask(a, j)
  \/ \E j \in Jobs : Notify(j)
  \/ Settle
  \/ Connect \/ PollStream \/ PollDone
  \/ Discover \/ Hear \/ TakePending
  \/ FetchAgents \/ FetchJobs \/ FetchTasks({}) \/ FetchJobStatus({})
  \/ ApplyUpdate

\* What happens to them.
WatchEnv ==
  \/ \E a \in Agents : Die(a) \/ Revive(a) \/ \E j \in Jobs : Crash(a, j)
  \/ \E j \in Jobs : NotifyLost(j) \/ RemoveJob(j)
                     \/ \E d \in {"plain", "tagged"} : Apply(j, d)
  \/ \E same \in BOOLEAN : LeaderChanges(same)
  \/ StreamLost \/ FetchFails
  \/ \E a \in Agents : FetchTasks({a}) \/ FetchJobStatus({a})

------------------------------------------------------------------------------
(* Properties.                                                             *)

Events == {Status, Ping, Lost} \cup {WatchJob(j) : j \in Jobs}
          \cup {Task(j) : j \in Jobs} \cup {Agent(a) : a \in Agents}
Views == [Jobs -> SUBSET (Agents \X Endpoints)]

\* Type correctness; the ring, the inbox and the list of pending jobs keep
\* to their capacities, and hopdns lists no job beside a full refresh.
WatchTypeOK ==
  /\ defs \in [Jobs -> {None, "plain", "tagged"}]
  /\ runs \in [Jobs -> SUBSET Agents] /\ booked \in [Jobs -> SUBSET Agents]
  /\ alive \subseteq Agents /\ notes \subseteq Jobs
  /\ addr \in [Agents -> Endpoints] /\ reg \in [Agents -> Endpoints \cup {None}]
  /\ settled \in BOOLEAN /\ known \in BOOLEAN
  /\ next \in Nat /\ ring \in Seq(Events) /\ Len(ring) <= MAX_EVENTS
  /\ conn \in {"down", "open", "ending"} /\ seq \in 0..next
  /\ inbox \in Seq(Events) /\ Len(inbox) <= INBOX
  /\ full \in BOOLEAN /\ due \in {None, "now", "later"}
  /\ pend \in Seq(Jobs) /\ (Dns => Len(pend) <= MAX_PENDING)
  /\ Dns /\ full => pend = <<>>
  /\ fetch.step \in {None, "agents", "jobs", "tasks", "job"}
  /\ (fetch.step = "job") => fetch.todo # <<>>
  /\ view \in Views

\* What a view ought to show.
Truth ==
  LET all == Addresses(Reported(Agents), reg)
  IN  [j \in Jobs |-> IF Dns \/ defs[j] = "tagged" THEN all[j] ELSE {}]

\* Something is still on its way that makes the watcher fetch again.
Underway ==
  \/ ~settled \/ notes # {}
  \/ \E a \in Agents : reg[a] # IF a \in alive THEN addr[a] ELSE None
  \/ conn # "open" \/ seq # next \/ inbox # <<>>
  \/ due # None \/ fetch.step # None \/ updates # <<>>

\* Nothing is left to do.  Any other state without a step is a deadlock, in
\* which everyone waits on everyone.
WatchDone == ~Underway /\ UNCHANGED watchVars

WatchNext == WatchProgress \/ WatchEnv \/ WatchDone
WatchSpec == WatchInit /\ [][WatchNext]_watchVars

\* When nothing is on its way any more, the view shows what runs: no event
\* is lost in a queue that overflows, a ring that wraps, a connection that
\* breaks, a fetch that fails or a change of leader.  Excused are a notify
\* that got lost, an agent that did not answer and, for hoplb, an agent
\* that came or went, until the next full refresh.  It is checked for names
\* in small letters (Mixed = {}): the leader compares names as they are, so
\* hopdns, which asks for the name in small letters, finds no task of a job
\* with a capital in its name until the next full refresh.
QuietIsCurrent == Underway \/ excused \/ view = Truth

\* "een failover van de leader mag DNS niet zwart maken terwijl de taken
\* doordraaien": a job that never stopped running keeps its name.
FailoverKeepsNames ==
  [][\A j \in Jobs : Dns /\ view[j] # {} /\ view'[j] = {} => j \in gone']_view

\* The watcher's queues stay bounded and its view is current when all is quiet.
WatchInv ==
  /\ WatchTypeOK
  /\ QuietIsCurrent
==============================================================================
