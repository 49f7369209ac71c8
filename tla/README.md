# Verification of Hop

TLA+ models of the Hop cluster orchestrator, the TLC runs that check them and the
TLAPS proofs about them. Paths are relative to the repository (`src/`).

Hop runs jobs on the nodes of a small cluster. Every node runs the same program.
One of them holds a lease and is the leader, the others register with it as
agents. The leader alone decides what should run; the agents hold the truth of
what does run. A node is either a host (a daemon, `agentd`) or a HopOS resident
(`agentd-hopos`); both drive the same crates `agent`, `leader` and `discovery`.

## 1. Inventory

### Components

| component | state | operations | what makes it correct |
|---|---|---|---|
| lease protocol, `discovery` | handle and generation of the last confirmed write; the object in the store | claim, renew, read, release, each a read and/or one conditional write | one holder at a time, take-over only after expiry, a late or lost request changes nothing it should not |
| lease and state stores, `store`, `hoplockserver` | the lease object with its ETag, the state blob | conditional put and delete; get and put of the blob | compare-and-swap; a confirmed put is durable |
| elector, `agent/elector.rs` | last answer of the store, flags of the operations out, `holding`, `claimed`, `displaced`, expiry | asked by the election at once, answered by the lease thread later | one operation of a kind at a time; displacement is heard |
| election, `agent/election.rs` | `leading`, `registered`, failure count, the request of the moment | tick (as leader, as agent), link replies | leads only with a lease, stops tasks only when isolated, comes to lead when nobody does |
| owner of a node, `agentd/node.rs`, `agentd-hopos/node*` | agent, optional leader half, election, inbox | one message or tick at a time; executes the election's requests | the leader half lives only while the election leads |
| committed state, `leader/persist.rs`, `agentd/persist.rs`, `agentd-hopos/lease.rs` | dirty flag and failures in the leader, a queue, the blob | mutate, snapshot, save, load, seed | nothing committed is forgotten, what is in memory is committed at last |
| leader, `leader/*` | jobs, agents with their `placed` counts, round-robin counter, settle | register, unregister, tick, apply, update (rolling, recreate, blue-green), delete, priority, hand-back, reconcile, preempt, trim | the book is backed by tasks, priorities are respected, the last instance is spared, the cluster comes to rest |
| agent, `agent/node.rs`, `agentd/{node,prep}.rs, agent/health.rs` | job definitions, task records, reservations, restart plan | run, replace, stop, delete, progress, start outcome, poll, probe, restart | no process without a record, no record stuck, no reservation beyond the node and no restart beyond the budget but by an update of the job |
| HopOS resident, `agentd-hopos/node.rs`, `hopos-runner`, `agent/handoff.rs` | records, cages, the queue of image loads, the kernel's slots, the state saved for the next Hop | start, pieces of an image, stop, poll, hand over, restore, sweep | every app has an owner, a late stop hits nobody else, apps run on through a restart of Hop, loads end |
| relay, `agentd-hopos/{relay,local,node/cluster}.rs` | optimistic book, bounded dispatch queue, inbox, remembered refusals | run, stop, ask, refuse, register, stop leading | what is booked is backed or under way, no job beyond its number, everything is placed at last |
| lease backends and `hoplockserver` | the object on disk, volume or bucket; requests under way | get, conditional put, delete, power cut, give up | compare-and-swap, an answered put is durable, one believer |
| object store of apps, `agentd-hopos/objstore*` | tickets, file, object, chunks | push, pull, drop | no mixture of two versions, every call ends |
| events and watchers, `leader/events.rs`, `api/stream.rs`, `hoplib`, `hopdns` and `hoplb` watchers | bounded queue, ring, stream, list of pending jobs, view | push, drain, send, fetch, publish | a view is current when nothing is under way |
| HTTP front, `agentd/http.rs`, `agentd-hopos/{handoff,park,hub,forward}.rs` | connections, workers, parked connections, open streams | accept, place, read, ask the owner, stream, close | no connection lost, streams leave a worker for requests, every request is read |
| API, `api/*`, `auth` | none of its own | route, verify, forward, relay, fan out | only signed requests act, answers are true, a retry is harmless |
| host runner, `runner/host/*` | task directories, process groups, containers | prepare, launch, stop with escalation, reap, probe, tick, crash | nothing is taken from under a living process, no stranger is signalled, a stop ends |
| artifacts, `runner/{artifact.rs,host/download.rs,host/extract/*}` | bytes received, names, window | download, untar, unzip, inflate | what is unpacked is what the archive holds, inside the directory |
| `hoplb` | connections, table of routes, metrics | proxy, pick, publish, record, scrape | one request is one request, answers do not mix, picks are from the current table, counts add up |
| `hopdns` | tables of names | parse, answer | answers are the tables', within the size the asker takes |
| `cloudflared-lean` | connections to the edge, rules, expressions | dial, register, back off, update rules, pass on | comes back after every mishap, rules never go back, expressions match what they mean |
| `types`, `config`, `hostnet`, `cli`, `hopprom`, `hop-gui` | none that decides | conversions and I/O | |

`PROJECT.json` lists the same components with the modules that model them.

### How the components interact

A node has one owner (a thread on a host, a task on HopOS). Everything slow is
on another thread with a FIFO queue: the lease thread, the link thread (calls to
the leader), the persist thread, four preparation workers, the prober. On HopOS
the queues are bounded (`LEASE_Q` 8, `LINK_Q` 32, `STATE_Q` 4, `DISPATCH_Q` 64,
`INBOX_Q` 64). Answers come back as mail to the owner, so between a request and
its answer the owner has handled other things.

The owner ticks every second; every 10 s it runs an election tick, and the
leader half a leader tick. A lease lasts 30 s and is renewed every 10 s. An agent
that the leader has not heard for 30 s is dead, and a new leader of a cluster
waits as long before it reconciles by itself (settle). The leader's calls to
agents block its owner, each with a time-out of 5 s, in the midst of an operation
that may make many of them. A panic aborts the process: a crash loses everything but
the store and, on other nodes, the tasks.

### What is hard

- **Answers that are late, lost or for an earlier question**: lease, link, state
  and preparation threads all answer into a state that moved on.
- **A node that does not know yet** that it lost the lease, beside one that has it.
- **Long operations of the leader** over agents that leave, return, crash, restart
  tasks and register in the meantime; a call whose answer is lost has happened.
- **Two copies of the truth**: the leader's book and the agents' records.
- **Limits**: bounded queues, the node's capacity and pools, restart budgets.
- **Something must happen at last**: a leader, a committed state, placed jobs.

The hazards, each at its line and with the properties that would catch it, are in
`PROJECT.json`.

## 2. Modules

| module | models | state |
|---|---|---|
| `LeaseLock` | what the lease promises: an abstract lock with expiry | holder, term, until, time |
| `Lease` | `discovery/src/lib.rs` and the lease thread, against a compare-and-swap store | per node a handle and generation and a thread; the store; late requests |
| `LeaseProofs`, `ElectionProofs`, `StateProofs`, `HopProofs`, `AgentProofs`, `ResidentProofs` | theorems about `Lease`, `Election`, `CommittedState`, `Hoplock`, `Agent` and `Resident` | |
| `ServiceProofs` | theorems about `Tunnel`, `Front` and `HostRunner` | |
| `QueueLemmas` | what appending, taking, joining and counting do to a queue | |
| `CasStore` | what a lease store promises: an object that changes only by a request that names it as it is | the object, the requests asked |
| `Hoplock` | the clients of both platforms, `hoplockserver` with its file and volume stores, the S3 bucket | calls, requests on the way, worker and store thread, disk |
| `ObjStore` | the object store of apps on HopOS | file, bucket, ticket, transfer |
| `Election` | `agent/src/{election,elector}.rs` and the owner's half of both platforms | `own` (election, elector, leader half), queues, mail, the store, the surroundings |
| `CommittedState` | `leader/src/persist.rs`, the persist thread, the HopOS state task | per node jobs, dirty, queue, call, mail; the blob |
| `Leader` | `leader/src/*` and the API operations on it | `leader` (jobs, agents, book, frames of the operation under way), tasks at the agents, mail |
| `Relay` | the HopOS transport of the leader | book, queue, call, inbox, refusals, tasks at the agents |
| `Agent` | `agent/src/node.rs` and the host's preparation pool and prober | `node`: jobs, tasks, queue, busy workers, processes, probes |
| `Resident` | Hop as the resident of a HopOS node | `hop` (records, loads, cages), `kern` (slots, saved state), download task |
| `HostRunner` | `runner/src/host/*` | owner and record of a task, directory, process group, container, mail |
| `Unpack`, `Inflate` | downloads and archives; DEFLATE and gzip to the bit | stream, position, files; bits, window, output |
| `Front` | the HTTP port of a node, both platforms | connections, park, workers, questions, streams |
| `Api` | a request through agent port, leader port, fan-out and streams | the leg under way, the cluster, what was done |
| `Watch` | leader events to `hopdns` and `hoplb` | queue, ring, streams, fetches, view |
| `Dns` | `hopdns` messages to the byte, CNAMEs and tables | question, answer |
| `Proxy`, `Balancer` | `hoplb`: one connection; workers, table and metrics | tokens sent, fetched, used; workers, table copies, series |
| `Tunnel`, `Regex` | `cloudflared-lean`: connections and rules; path expressions | tasks, slots, pauses, rules; pattern, program, threads |

`MC<module>` instantiates a module for TLC. Definitions keep the names of the Rust
functions where TLA+ allows it; `PROJECT.json` maps each to its lines. A definition
whose comment calls it a slip, or whose name says how it departs from the one below it
(`CurrentOnce`), is a plausible bug of that one which no action uses: it shows that
a property can fail.

**Sums.** `MCStorage`, `MCCluster`, `MCHopOS`, `MCServices`, `MCNode`, `MCNames` and `MCEdge` each
join components that share no state. A variable `part`, chosen at the start and never
changed, says which of them runs; the others stay in an initial state. TLC so explores the
sum of their states, not the product, and a property of one part is checked exactly as it
would be alone. Fairness is stated for the part that runs.

**Invariants.** Each module states its type invariant and named safety parts (such as
`NoOrphan`, `NothingStuck`), and one conjunction of them (`AgentInv`) that the run checks;
steps are restricted in the same way by one action property of named parts
(`LeaseMoves`, `SlotsRespected`, `HopKeeps`, `ObjectsAreWhole`, `HostKeeps`, `TunKeeps`,
`AgentKeeps`).

**Exceptions.** Where the code breaks a promise in a known case, the run has that case and the property names
it: a history variable or a state predicate (`own.strayed`, `hop.mistaken`, `crossed`, `unseen`, `InVain`,
`Resized`), never a restriction of the instance. Section 5 lists them.

### Lease

A lease thread serves one operation at a time. A claim reads, plans, and sends a
put on the handle it read; a renew sends a put on its own handle, or reads
first when it has none; a release sends a delete. Each is two or three steps, and
anything happens between them: another node's request is served, time passes, the
process restarts. A request that the client stopped waiting for (`SendFailed`)
joins `late`, from where it is served at any time or never; this covers a lost
request, a lost answer and a delayed one. Clocks are real time plus a skew of each
node. Handles are numbers that the store gives out in order. The stores use
a hash of the body instead; `Hoplock` has that and shows that it is still
the register which `Lease` assumes (`ImplementsCas`).

### Election

One node, host or HopOS, against an environment of other nodes that claim, lead,
go silent and answer or refuse link calls. One unit of time is one election tick.
Instants are kept as time left or passed, so time has no bound. One step of the
owner is one message or tick handled to the end, in-process requests included.
The lease behaves as `LeaseLock` has it. Left out: publication of the address and
the expiry, the self-beat counter of logs, shutdown, clock skew and late writes
(the latter two are in `Lease`). On HopOS the queue of the link task may be full, and a call
that it refuses has failed at once; a host's channel has no bound, and `MaxLink` only ends the
model. `own.strayed` remembers a leader that claims while it leads (section 5).

### CommittedState

Who leads is decided elsewhere: here a node may win at any time, also while another still
leads and writes; a leader steps down or crashes at any time. The host waits for its
load, behind its own queued saves; HopOS answers by mail, keeps only the newest
snapshot and lets a load go first. A save that fails was not applied, or was applied and its
answer lost, or is still on its way (`late`) and is applied after any number of later saves.
The state has no condition on its writes, so all of these cross. `crossed` are the nodes whose
term another node's write, a late write, or on HopOS a call of their own earlier term has
crossed; `unseen` what each of them cannot know for that reason. The properties say
that this is all that crossing costs.

### Agent

One step is one message, one expired restart or one poll of the owner. Time is a
choice: a due restart or probe may come at any step. A start passes through the
queue and a worker; the record may be stopped, replaced or deleted meanwhile, and
the launch happens only for a task that is still wanted. Host only, CPU only
(memory is the same sum without pools). A job may be sent again with another definition at any
time, also while its tasks start, run or wait for a restart. Definitions have a size, a pool, a budget,
a health check and whether there is an artifact for this node. Ids are given out in order and each
is started at once, so the queue of the preparation pool is a set whose smallest id waits longest.

### Leader

All of the leader is one thread. An operation is a stack of frames, `leader.todo`;
a step takes the head frame one blocking call, or one decision, further. Agents
move only when the leader waits in a call or is idle, because decisions take no
time. A call to an agent is served and answered, or fails unserved, or is served
and its answer lost. An agent is up, cut off, or down (its tasks gone). Its
registrations and hand-backs wait in a FIFO queue of its own, with the counts of
the moment they were sent. A tick chooses whether the settle period ended,
which of the unreachable agents are dead and whether it is the third tick; the
choice is free, so every timing is covered. The ghost variable holds what a
property must know of the past: `doubt` (agents whose book may be off because of
a lost answer, a crash or a registration overtaken by a call, until they
register again), `merged` (an agent where one instance replaced several) and
`clean` (every call of the round was answered).

A behaviour begins with any leader that begins: `Starts` gives the committed jobs
and the tasks that run. Left out: a second agent under a live id, `MAX_AGENTS`,
memory exhaustion, telemetry, events, job definitions at the agents. That the
leader's own agent is always reachable is not used, so the model allows more.

### Storage: `Hoplock`, `CasStore`, `ObjStore`

A client of `Hoplock` reads, plans a body and puts it on the ETag it read. The request
passes a worker and the single store thread; the client gives up at any time, and the
request goes on without it. The file store writes, syncs and renames; the volume
store writes one of two records; a power cut falls between any two of these. The S3
bucket keeps ghosts, which `ghost_handle` takes over after a whole term. An ETag *is*
the body, so a body that comes back brings its ETag back. `Obj`, the object between
requests, is the register of `CasStore`. HopOS clients have clocks of whole seconds. A node believes in its
lease for a whole term from the answer on (`Believes`), while the record counts the term from the request; what
lies between is named by `Covered`. A volume write may be refused; power cuts are counted apart (`cuts`), and only
they excuse a call that does not end.
A client that gave its lease back claims again only when its clock has moved (`left`): in the code it waits
`TAKEOVER_AFTER` ticks of 10 s (`election.rs:26`, `:226-237`). Without that wait a record can come back
byte for byte within one unit of its clock, and a delete that strayed from the first release would remove
it; TLC shows this with four calls.

In `ObjStore` an app asks for a push (read twice, once for the hash and once to send), a
pull through a buffer, or a drop, writes its own file at any moment, and may be stopped.

### Relay

The leader's call is answered at once: a run that fits the queue is booked and
queued, one that was refused lately is refused again. The dispatch task makes one real
call at a time; answers come back through the inbox and book off what was refused.
Agents register, fall silent and return; the node stops leading and leads again, and
answers of the former term still come in. A tick asks each remote agent for its tasks before
it places, through the same queue, and an operator may delete a job. `raced` marks the one case
in which an answer of a former term books off a real placement (section 5); `behind` the agents whose
counts are older than a call. `RightPicture` is that the leader's picture is right now, whatever was lost before.

### Resident

One step is one request, piece, poll or timer of the owner, with all it does after it.
The download task sends pieces through a bounded queue. Slots belong to the kernel and
outlive Hop: a Hop that restarts or is replaced saves its records, and the next one
restores them, asks the kernel which slots run, adopts, and sweeps strays. A kernel
that does not answer ends in a cold boot. The runner may refuse a start at once, and a load that is
refused is a failed task. The saved state may be of an earlier moment. `hop.mistaken` are the tasks under whose
record the next Hop has adopted the app of another; every property holds for their apps too, but for whose they are.

### HostRunner, Unpack, Inflate

Process groups may outlive their leader; the number of a group that is gone may be given
to a stranger at any time. TERM, grace, KILL, reap and probe are separate steps with mail
in between; unmounts, removals of a directory, kills and Docker calls fail, or do their work and fail to say so.
A crashed daemon leaves everything behind for the next life, which refuses to come up when it cannot list or
remove the containers it finds.

`Unpack` lays logical entries out as tar (long names by GNU and pax records) or zip (with
64-bit extras), cuts the stream anywhere, and lets the code's loops read it; names may
climb, links may point anywhere. A gzip stream has several members, and one that is cut between two of them
ends without an error; a file is written in pieces of `BUF`, so that a limit is met in the midst of it. `Inflate`
decodes what a reference encoder made, or other
bits, in reads of several sizes, with widths scaled down and the structure of the tables kept.

### Front, Api

`Front` has both builds: on HopOS an acceptor, a park and a hub with a slot per
worker; on the host workers that accept for themselves and give up on a slow owner, both at a request
and at a poll of a stream. A stream may last for ever. One port is modelled.

`Api` follows one request: signed or not, well formed or not, to any port of any node
(whose view of the leader may be old), cut on the way, asked again after a 5xx. A node passes a request
on by its decoded path, which the next one decodes again (`ReadAgain`); an owner that is too late answers 504 and does
the work later; a leader without room for a stream answers 503. Priorities need not be dense, as they are
not after a job that found no place.
The fan-out gives each agent its share of the time that is left.

### Watch, Dns

In `Watch` jobs and agents come and go, the leader changes, queues overflow to "all
changed", the ring wraps past a reader, streams break and fetches fail. A fetch is
several calls, each of its own moment. `excused` marks what the code does not promise
(section 5). `Dns` reads and writes real bytes: counts, pointers, truncation, EDNS.

### Proxy, Balancer, Tunnel, Regex

A stream in `Proxy` is a sequence of tokens, each with the number of the request it
belongs to, which only the properties see. Clients pipeline, stop halfway, announce one
length and send another; backends follow a script and may be cut. The buffer has a start and an end as in the
code: a look at the client makes no room in it. `Balancer` has the
workers, the published tables with their generations, and the owner of the metrics.
`Tunnel` keeps connections with backoff against an edge that does as it likes.
`Regex` parses, compiles and runs every small expression, escapes, classes and repetitions with the code's
limits included; `Ends` says what it means.

## 3. Runs

| run | instance | checks |
|---|---|---|
| `lease` | 2 nodes, TTL 1, skew 1, 3 writes, 1 late request, time 2 | `LeaseOK`, `LeaseMoves`, `ImplementsLock` |
| `election` | host and HopOS, thresholds 1 and 2, TTL 2, 1 call at the link thread, 1 late call | `ElectionInv` |
| `election_live` | as above, calls on time | `ElectionEnds` |
| `election_phantom` | HopOS | *violated*: `PhantomEnds` |
| `cluster` | `Leader`: agents of capacity 2 and 1, 2 jobs of two sizes, three starts; `CommittedState`: a host and a HopOS node, 2 jobs, 2 mutations, 1 fault, 2 terms | `LeaderInv`, `NeverTakesTheLast`, `ChurnEnds`, `Converges`; `StateInv`, `NothingForgotten`, `CommittedAtLast` |
| `hopos` | `Resident`: 1 job, 2 slots, 2 tasks, images of 2 pieces, queues of 1, 1 restart; `Relay`: own and one remote agent, 2 jobs, queue 3, inbox 1, 2 terms, 1 fault | `ResidentInv`, `SlotsRespected`, `LoadsEnd`; `RelayInv`, `PlacedAtLast` |
| `hopos_adopts` | `Resident` as above | *violated*: `AdoptsItsOwn` |
| `storage` | `Hoplock`: a host and a HopOS client, file, volume and S3, 3 calls, 1 power cut; `ObjStore`: files of 3 units in chunks of 2, 3 writes, 2 apps | `HopInv`, `HopKeeps`, `ImplementsCas`, `ObjectsAreWhole`, `CallsEnd` |
| `services` | `Front`: 3 connections, 2 workers, 1 stream, park 1; `HostRunner`: a process task and a container, 1 fault, 2 lives; `Tunnel`: 2 connections, 2 edges (one dead) | `FrontInv`, `RequestsRead`; `HostInv`, `HostKeeps`, `StopEnds`; `TunInv`, `TunKeeps`, `ComesBack` |
| `node` | `Agent`: 3 jobs with several definitions each, of which 2 at a time, 1 worker, capacity 2, 3 tasks, 4 ids; `Unpack`: archives of every kind; `Inflate`: 2-bit bytes, window of 4 | `AgentInv`, `AgentKeeps`, `UnInv`, `ZInv` |
| `names` | `Watch`: 2 agents, a daemon and a job, event queues of 1, inbox 2, 2 troubles; `Dns`: well formed and broken questions, small UDP limits | `WatchInv`, `DnsInv` |
| `edge` | `Api`: 3 nodes, 2 tries, 1 cut; `Proxy`: 2 requests, 1 cut; `Balancer`: 2 workers, 3 connections; `Regex`: small trees, texts of 2 | `ApiInv`, `ProxyInv`, `BalancerInv`, `RegexInv` |

### What the passing runs show

- **lease.** A current handle proves ownership, the lease passes only after
  it expired on the taker's clock, its expiry never moves back, only the owner's
  own delete removes it, and a node that hears "displaced" really has nothing to
  renew. Two nodes, one late request and three writes are enough for a claim, a
  take-over and a request of the first owner that arrives after it.
- **election.** The elector never doubles an operation, so its bounded queue is
  never full; the leader half never outlives leadership, whatever answer comes
  late; a node that gave the lease back has stopped before the release is served,
  unless it strayed; a HopOS leader half that waits for its state has a load under way.
- **election_live.** Once the others are silent and the store answers, the node
  comes to serve, from whatever state it was in, but for the two states named in the
  property: the phantom lease (a finding) and a HopOS term whose load did not fit
  in the state queue.
- **cluster.** Through preemption, trimming, roll-outs and agents that leave and
  return, the book promises nothing that is not there (for agents not in doubt);
  after a clean round no job is short where a less important one could make room;
  trimming and rolling out spare the last instance; and when requests and faults
  end, so does the churn, with everything placed that fits, unless a large job displaces
  smaller ones in vain for ever. No committed job is forgotten by a failed load, a coalesced or
  unconfirmed save or a crash: a leader's write drops only what was removed, or what another
  term's write kept it from knowing.
- **hopos.** At every point of a load, a stop, a hand-over and a restart each app
  that runs has one owner; a stop of an old record never reaches the next inhabitant
  of its slot, not even when that was adopted by mistake; loads end whatever the queues hold of
  loads that were given up. The optimistic book of the relay runs ahead of the agents only by what is
  under way, no job gets more than its number, and while the leader's picture is right everything is placed at
  last, unless the dispatch queue fills up again and again.
- **storage.** The stores are compare-and-swap registers however the steps of a
  request interleave; an answered put survives a power cut in the file store; no half
  record is served; two nodes believe in the lease at once only while one of them does so past the
  record it wrote, or when a volume lost a record; a call ends although writes fail. What a push leaves in the bucket
  is the file of one moment.
- **services.** No connection is lost between backlog, park, workers and owner,
  streams never take the last worker, and every request is read. A directory is not taken
  from under a living group while the daemon runs, a number proved free is not
  signalled, stops end, no container is lost without a failed call. Tunnel connections come back.
- **node.** A task may be stopped, replaced or deleted at every point of its
  start; no process is left without a record, and no record waits for something
  that is not coming. The records never come to reserve more than the node has, and no task is restarted
  beyond its budget, unless an update changed what they are counted by. An archive unpacks to its entries, inside
  the directory, or is refused; what was cut between two gzip members unpacks to the entries before the cut; the
  decoder writes what the reference encoder meant.
- **names.** Once nothing is on its way the views of both apps show what runs. Every
  answer is the tables' answer in the size the asker takes.
- **edge.** Only a signed request acts, an answer says what was done, a retried
  request does no harm to jobs other than its own, and none to its own from priorities as a reconcile leaves them. A
  client's request reaches one backend as that request and
  answers do not mix. Picks are of the current table, requests are counted once. An
  expression matches what it means or is refused for a reason.

### Bounds

Each bound is a named constant of its module. The election thresholds (4 and 7)
are scaled to 1 and 2 and the TTL to 2 ticks in the passing runs: the branches
compare the counter with the two thresholds only, and a lease still outlasts one
renew. `STATE_Q` is 1 or 2 instead of 4, so that the queue is full with few calls.
One preparation worker instead of four makes a start wait in the queue after a
single other. `MaxId` and `MaxMail` bound what is alive at a time. `Turns` is where the round-robin counter wraps: a
multiple of every
number of agents, so that the counter modulo that number is right. In `Leader`
each start brings its own bound on requests and faults: nothing running (3
requests, no fault), a pair beside a single job, and a pair in the midst of a
roll-out (1 request and 1 fault each). One of the jobs may have size 2, so that it can displace smaller ones.
Where a run says `CHECK_DEADLOCK FALSE` the system may stop: bounded clients have
asked everything, an answer is out, a daemon or an app has ended. `cluster` has no such
states and is checked for deadlock.

Queues are cut to the length at which they fill with the fewest steps: `ORDERS`,
`PIECES`, `INBOX_Q`, `MAX_EVENTS`, `MAX_PENDING` and `PARK_CAP` 1, `INBOX`, `LB_INBOX`
and `WORKERS` 2, `DISPATCH_Q` 3 (a question to the remote agent and one run of each job), `MAX_STREAMS` one below
`WORKERS` as in the code. Two lives, terms, tries or
boots are one repetition. `MaxFaults`, `MaxTrouble`, `MaxCuts`, `MaxApiCuts` and `MaxEdgeFaults` bound what
goes wrong in one behaviour, `MaxCalls`, `MaxOps`, `MaxRegs`, `MaxSays`, `MaxOpened`, `MaxWrites`, `MaxTasks`
what is asked. `SEC` is 2, so that a HopOS clock of whole
seconds is coarser than time. In `Inflate` bytes have `W` = 2 bits and the window 4
bytes: the window goes round within one output, and codes of four lengths occur. In
`Dns` `UDP_MAX` and `EDNS_MAX` are 80 and 110, so that two addresses are too many.
`BLOCK`, `LIM` and `MAX_LONG` of `Unpack` put padding, 64-bit fields and long names
within a few cells. `MAX_REPEAT` and `MAX_JUMPS` of `Regex` are 2 (64 in the code), so that three arms or a
count of 3 are too many.

### Fairness

- `Election`: weak fairness of the node's own step (its owner, its threads and
  the clock) and of the surroundings coming to rest. Threads block only in
  calls with a time-out, so they go on; that the others fall silent and the store answers is
  the hypothesis of `ServesAtLast`, not something the code brings about.
- `CommittedState`: weak fairness of each owner (it ticks every second) and each
  state thread (it takes the next operation; a call is bounded by its time-out).
  Faults are bounded, so a save that is retried succeeds at last.
- `Leader`: weak fairness of the operation under way (every call has a time-out),
  of the tick (an interval timer; with the settle period over, all unreachable agents dead and the
  third tick due, since they are at last), of the handling of mail, and of the
  registration of an agent that the leader does not know (its heartbeat is
  answered 404 and it registers).
- `Hoplock`, `ObjStore`: the server's threads and the transfer task go on (their waits have
  time-outs); a client takes an answer that is there.
- `Relay`: the owner handles mail and ticks, the dispatch task makes its calls (5 s each),
  an agent that is not registered registers, a remembered refusal expires.
- `Resident`: the owner ticks and takes pieces, the download task goes on.
- `Front`: acceptor, owner and each worker go on while they have something to do. Clients owe nothing.
- `HostRunner`: the tick comes (an interval), a killed process dies, Docker answers. Nothing else dies of itself.
- `Tunnel`: pauses end, a dial ends, the bell and `close_all` are handled, and a working
  edge opens the control stream and answers a registration; mishaps are bounded.

## 4. Proofs

`LeaseProofs` proves, for any set of nodes, any TTL, skew and bounds, from
`LeaseAssumption` (the constants are natural numbers and `NoNode` is not a node):

| theorem | statement |
|---|---|
| `TypeCorrect` | `Spec => []TypeOK` |
| `LeaseSafe` | `Spec => []LeaseInv` |
| `HandleSafe`, `LeaseBounded` | `[]CurrentHandleProvesOwnership`, `[]LeaseIsBounded` |
| `TakeoverSafe`, `ExpirySafe`, `GenerationSafe`, `DeleteSafe` | the four action properties |
| `DisplacedSafe` | `[]DisplacedHasNoLease` |
| `LeaseIsOK`, `MovesSafe` | `[]LeaseOK` and `LeaseMoves`, the conjunctions that run `lease` checks |
| `LeaseImplementsLock` | `Spec => Lock!Spec`, the refinement |

The argument. What a node may do with the lease is settled when it *sends* a
conditional request, but the request is served later, perhaps much later. So the
invariant speaks of every request that may still reach the store (`Pending`): if
its handle would still match, then it creates generation 1, renews its own
lease, takes over one that had already expired on its sender's clock, or deletes
its own (`RequestsAreOK`). Such a request stays all right because a handle, once
replaced, is never issued again (`HandlesAreIssued`), and because clocks only go
forward. `ExpiryNeverMovesBack` needs one thing more: a claim over the node's own lease
takes its time when it begins, so nothing the node wrote or left under way before
reaches further than that claim will (`ClaimReachesFurthest`).
`CurrentHandleProvesOwnership` and `LeaseIsBounded` complete `LeaseInv`. Each
action has a lemma; `ServeEffect`, `OthersStayOK` and `ServeKeepsStore` are the
facts about serving one request that they share. The action properties and the
refinement follow from `LeaseInv` and what one step does to the store
(`ObjectChange`, `LockStep`). `DisplacedSafe` adds that a renew sends the handle its node
keeps (`RenewNamesItsHandle`).

TLC checks `LeaseInv` in run `lease` too, as a part of `LeaseOK`.

The other proofs:

| module | theorem | from |
|---|---|---|
| `ElectionProofs` | `ElectionSafe`: `Spec => []ElectionInv` | `ElectionAssumption` |
| `StateProofs` | `StateSafe`: `StateSpec => []StateInv` | `StateAssumption` |
| | `NothingIsForgotten`: `StateSpec => NothingForgotten` | |
| `HopProofs` | `HopTypeCorrect`, `WholeRecords`: `HopSpec => []HopTypeOK`, `[]ServesWholeRecords` | `HopAssumption` |
| | `StoreIsCas`: `HopSpec => ImplementsCas`, the refinement | |
| | `OneNodeBelieves`: `HopSpec => []HopInv` | |
| | `LeasesAreKept`: `HopSpec => HopKeeps` | |
| `ServiceProofs` | `TunnelSafe`: `TunSpec => []TunInv` | `TunAssumption`, `PowersOfTwo` |
| | `TunnelKeeps`: `TunSpec => TunKeeps` | |
| | `FrontSafe`: `FrontSpec => []FrontInv` | `FrontAssumption` |
| | `HostSafe`: `HostSpec => []HostInv` | `HostAssumption` |
| | `TheLivingAreLeftAlone`: `HostSpec => HostKeeps` | |
| `AgentProofs` | `AgentSafe`: `Spec => []AgentInv` | `AgentAssumption` |
| | `AgentGrows`: `Spec => GrowsOnlyByRun` | |
| `ResidentProofs` | `ResidentSafe`: `Spec => []ResidentInv` | `ResidentAssumption` |
| | `SlotsAreRespected`: `Spec => SlotsRespected` | |

**Election.** `ElectionInv` is not inductive. `ElectionIInv` says of each queue what the
next handler relies on: the flags of the elector count what is queued and what is answered
(`Counted`, by `Tally` of `QueueLemmas`); until the boot claim is answered nothing else has been (`Booting`); a load
that the leader half waits for is queued or on its way (`Awaits`). The heart is `Tidy`: no claim is out that the lease
thread would serve before a release (`Guarded`), so a claim cannot be won behind it, and a leader has no claim out, no
claim won and no release queued. A leader that strayed claims while it leads, because of late failures of its link,
however many of them the queue holds; for it less is left, one release at most ahead of every claim, and that is just
enough for there never to be more than two releases and for the rest of `ElectionInv` to hold as before.
Each operator of elector, election and owner has a lemma that it keeps `OwnerOK`, the part
that also holds between the steps of one handler, and each action puts them together.

**CommittedState.** `StateIInv` follows every snapshot from the dirty flag through queue,
held save and call to the blob: the newest of them is what a clean leader has in memory
(`CleanIsNewest`), and each of them lacks only jobs that were removed or that the node could not know of
(`InOrder`, `Orderly`). Other nodes' writes and late ones go straight through: they add to `unseen` what they bring and
put the node among `crossed`, for which `CleanIsNewest` claims nothing. A load on HopOS overtakes the node's own earlier
saves, so while it is awaited all that they bring may be missing (`Told`); a host's load waits behind them, and needs
no such part.

**Hoplock.** The abstract object is what a fresh read would see, the abstract requests are those a
thread, a socket or a late message still holds. Every phase of a put or delete is then a
stutter but the one that renames, replaces or answers. `Phases` relates the phase of the
store thread to the disk: what it checked is still there, because one thread serves all.
A node believes for a term from its answer, and `OneBeliever` speaks of the part of it that its record covers.
It is far from inductive: a node believes because of a request that was planned on what it once read,
and it may have given up on requests that are still on their way. `HopIInv` therefore says of every request
that can still reach the store that it is sound (`Asking`): it was planned in time, a put that would still
match overwrites nothing that runs for another, a delete that would still match ends a record its node gave
up. A client waits for one request at most (`Sole`). And the record of every lease that is held, or is about to be
granted, stands in the object (`Kept`), on the disk in both its old and its new form where a cut could
bring the old one back. Two believers whose records still run would then have two records in one object. Only a volume
that has lost
a record is exempt.

**HostRunner.** `HostIInv` adds to `HostInv` what ties owner, record, process group and directory
together (`HostLinks`): nothing of a task exists before its launch, a group proved gone is gone, a
finished task and a quarantined directory have no process left. `HostAssumption` keeps process tasks and
containers apart, and asks for finitely many of them.

**Tunnel.** `TunIInv` has a part of its own for each index (`TunOK`) and one for the two shared counters
(`TunCounts`: `UP` and the live tasks are the sizes of sets). A step of an index leaves `TunOK` of the
others alone (`Untouched`), so each step needs only its own index and what it does to the counts. The wait
is tied to the losses in a row while the connection tries (`TryingWait`) and again while it waits
(`WaitingWait`), since the loss is counted in one step and the pause begins in another. `PowersOfTwo` is
the arithmetic of `2^n` up to `BACKOFF_MAX` that the provers have no rule for; TLC evaluates it.

**Front.** `FrontIInv` is in two halves that no step mixes. `PlacesInv` counts where a connection is:
holders, backlog, due, mailbox back, park and gone sum to one while it is open and to zero otherwise. It
adds that what is returned and who is busy fit the pool together (`ReturnsFit`: each return frees the
worker it counts, and `place` empties the mailbox before it gives), which is why no mailbox is ever found
full, and that on HopOS what waits for a worker was not served yet or can be read (`QuietWaits`). `AskInv`
ties each question in the inbox to the step of its worker (`QuestionsFit`), so a worker that gave up and
asked again cannot get the old answer (`AskedOnce`), and counts streams by who was admitted, what is
unread and what is over but not yet counted off (`StreamsFit`). Counts in queues go through `Times` and
`Tally` of `QueueLemmas`.

**Agent.** `IInv` is a property of the owner's state alone (`Good`), so each operator of the module gets a lemma
of the form "from a good state to a good state", for a state that may leave one record for the caller to
repair (`OKBut`), and an action is a composition of operators. `Pool` says that no order waits while a worker is free,
`Owned` and `RecOK` tie each record to its process or its order. What a pool costs is the cost of the member met
first: `Usage` is shown to depend only on the records (`Room`), and a restart, which is not admitted again, reserves
what it replaces. `AgentSafe` and `AgentGrows` need nothing of the definitions. The lemma `SteadyLimits` adds, for jobs whose
definitions agree on reservation, pool and budget (`Steady`), that usage stays within capacity and restarts within budget
at all times; for jobs that change it the code exceeds both (section 5), and `AgentKeeps` of run `node` says in which
steps. `AgentGrows` shows of each step that it removes records, swaps one for one, or is a run.

**Resident.** `ResidentInv` says nothing of a load that is halfway, and that is where an app could get lost.
`ResidentIInv` adds what the slot of a cage holds in the kernel at each phase (`SlotsFit`), that a load
has a task and a placed slot of its own (`LoadsApart`), that a record which starts has a cage and that the image
streams for the
first load only (`TasksFit`, `OneStream`), and what the next Hop may rely on in the saved state (`SavedFits`).
A handler changes records, cages and kernel call by call, so the invariant is stated of a state and a kernel less
the tasks that the handler is not done with (`SoundBut`), and each call has a lemma on what it leaves of it. The
slots are released for a set of tasks at once in `RunnerStop`, since the stops of one request touch different slots.
`SlotsAreRespected` needs the same invariant: a stop goes by the cage, and the cage of a task has a slot no other cage
has, whosever app it holds. Neither theorem has a premise on the saved state: `Mistaken` says which claims of it the
adoption gets wrong, and the proof shows that restore and sweep get nothing else wrong (`AppsRunOn`).

Only model-checked: everything else. Of the modules above:
`StopsOnlyWhenIsolated`, `NoOvercommit`, `WithinBudget` and `GivenUpForAReason`, and all liveness under fairness,
which is out of the
prover's reach. Of the others, `Leader`, `Relay`, `Watch`, `Api`, `Proxy`
and `Balancer` have no proof yet. What the folds and recursive
definitions of `Unpack`, `Inflate`, `Dns` and `Regex` compute is out of reach, being induction over data;
`Inflate` uses `Bitwise` besides. TLC takes the arms of a `CASE` in order and the prover any arm whose guard holds, so
in the modules with proofs the guards of a `CASE` exclude each other.

## 5. Where the code and its documentation part

Runs `election_phantom` and `hopos_adopts` are kept as runs; `PROJECT.json` quotes the lines. The others in the
numbered list are stated as properties of their modules under the names below and were seen to fail with
TLC when the property is added to the component's configuration.

1. `election_phantom`, `PhantomEnds`: a leader that steps down without a release goes on
   holding and renewing the lease, and can claim nothing: the cluster has no leader while
   that process lives.
2. `FencingTokenUnique` (`Lease`; `MaxSkew` 0): release deletes the object, and the next claim starts again
   at generation 1. Two nodes that both still have a handle can carry the same
   generation, which `leader/src/lease.rs:19` calls fit to be a fencing token.
3. `StopsOnlyWhenIsolated` (`Election`; thresholds 4 and 7, TTL 3): the take-over attempt at the
   seventh failure makes the elector forget the store's answer before the isolation test
   looks at it; the node stops its tasks although the store said "no leader"
   (`election.rs:232` against `election.rs:10-13`).
4. `NoDuplicateWhileSettling` (`Leader`; start `OneRuns`): operator requests and hand-backs reconcile during the
   settle period and start duplicates (`leader/src/state.rs:69-72`).
5. `ReplaceKeepsBook` (`Leader`; start `PairOnFullNode`): a replacement in place stops every instance on the agent
   while the book keeps their number (`leader/src/update.rs:71`).
6. `hopos_adopts`, `AdoptsItsOwn`: restore asks for every saved task with a pid whatever its
   state, so a failed record may adopt the slot of another task
   (`agentd-hopos/src/node.rs:461`, `hopos.rs:160`; the comment at `node.rs:445` says it does not).
7. `FailoverKeepsNames` (`Watch`): a new leader knows no agents while it settles, and a full refresh of
   `hopdns` replaces the cluster's names by none (`watcher.rs:301`), though the header says that
   "een failover van de leader mag DNS niet zwart maken terwijl de taken doordraaien".
8. `LivingKeepsItsDir` (`HostRunner`): the sweep of the next daemon removes directories of groups that
    outlived a crash (`taskdir.rs:183`; `runner/src/host/runner.rs:15-16`: "een taakmap onder een levend proces gaat
    nooit weg").
9. `ClosedStaysDown` (`Tunnel`): a bell rung while a task is dialling is lost, and the connection comes up after
    `close_all` (`tunnel.rs:318`; `:188-189`: "De taken breken hun verbinding af en komen niet terug").
10. `NxHidesNothing` (`Dns`): names above a job with a dot in it are answered NXDOMAIN
    (`server.rs:144`, `:165`), which `server.rs:20-22` wants to avoid because of RFC 8020.
11. `AnswersInOrder` (`Proxy`): `reply_error` writes a body for HEAD too and the connection is kept
    (`proxy.rs:227`, `:558`), so that the next answer begins with that body (`apps/hoplb/src/http.rs:14-15`).
12. `PlaceAsAsked` (`Api`): a priority N is a place among the jobs before renumbering
    (`api/src/leader.rs:744`, `leader/src/update.rs:31`; `types/src/job.rs:215`: "N = N-de plek").

Also met while modelling. Where the behaviour is in a run, the property that meets it names it as its exception, in
brackets here; the rest no property states.

- `elector.rs:193`: a node believes in its lease from the receipt of an answer
  on, so longer than its record runs when the answer was slow (`Covered`).
- `store/src/lib.rs:161-162`: the state is written without a look at the lease, so a displaced leader that does not
  know it yet may overwrite its successor's state, and a PUT given up on may bring an older one back
  (`unseen`, `crossed`).
- `agentd-hopos/lease.rs:140`: a load overtakes an earlier queued save, so a HopOS node that
  leads again before its own save is done loads an older state (`unseen`, `crossed`).
- `election.rs:228`: a leader counts late failures of its link too. With enough calls waiting for the link thread
  (notifies share it, `agentd/src/link.rs`), or refused by the full queue on HopOS, a displaced leader asks for a
  claim while it leads; a failed load then queues its release behind that claim, the claim wins, and the node leads
  with its own release still queued (`strayed`).
- `cluster.rs:642`: with a full state queue the load of a HopOS term is never asked
  for again, though a comment says the next tick does (`Unloaded` in `ServesAtLast`).
- `agent/node.rs:405`, `:687`: an update of a job escapes the admission: a replacement that grows the only member of a
  pool is admitted at no cost, a restart takes the new reservation unasked, a record that stays changes its pool
  (`Resized`, `Regrouped`, `Uneven`), and a waiting restart ignores a budget lowered meanwhile.
- `dispatch.rs:117-127`: with jobs of different sizes a victim is stopped although
  its room is too small, and started again, at every reconcile (`InVain`).
- `state.rs:228`: a registration that was sent before a call of the leader and
  handled after it overwrites the book with old counts (`doubt`).
- `dispatch.rs:242`: a delete goes only to agents with a placement, and
  leaves tasks on unreachable agents and definitions on others.
- Relay: every tick asks each remote agent for its task list first; with at least as many remote
  agents as `DISPATCH_Q` (64 against `MAX_AGENTS` 256) runs never fit (`relay.rs:148`; `Len(queue) = DISPATCH_Q` in
  `PlacedAtLast`). A refusal of an earlier term books off a real placement (`cluster.rs:446`, `raced`). Preemption
  does not work through the relay: the second run after the victim's stop is answered from the remembered refusal
  (`relay.rs:93-96`), while `leader/src/dispatch.rs:75-77` and `leader/src/tests/priority.rs:34` expect the higher
  job to run.
- Storage: the volume store may lose or tear a record at a power cut. A HopOS clock of
  whole seconds takes a lease less than a second early. A failed `sync_dir` of a delete is ignored.
- Front: a stream whose owner answered too late stays counted (`deaf`), against the comment at
  `agentd/src/node.rs:172-173`. The HopOS fan-out of `/v1/tasks` has no total budget.
- Watch: `hopdns` asks for the status of a job with capitals by its lower-case name
  (constant `Mixed`); `hoplb` ignores `agent` events; an agent that does not answer
  contributes nothing until the next full refresh; a lost notify is not sent again.
- Tunnel: a second control stream would count a connection twice.
- Dns: with a long domain the SOA does not fit 512 bytes and the answer is SERVFAIL.
- Proxy: an answer that ends with the connection cannot be told from one that was cut
  (excepted in `CutIsSeen`); a client that half-closes is taken for gone; one that leaves after it filled the
  buffer to its end is not noticed, though the bytes were consumed (`Full`, `http.rs:127`).
- Balancer: nothing marks a backend unhealthy; every worker of the host starts its
  round robin at the same backend in each generation.
- Unpack: a tar is read up to its zero block, so the checksum of the gzip trailer is never
  read; without a length a plain file that ends early is taken for whole, and a tar.gz that ends between two
  members unpacks without an error to the entries before the cut (`Came`).
- Api: a request is passed on by its decoded path without encoding it again, so a name with `?`, `#` or `%` reaches
  the leader as another (`http.rs:540`; `Survives`); from priorities that are not dense a second POST may move the job
  it names (`RetryIsHarmless`); the relay of streams is always a GET without a body; `trim_end_matches` strips a repeated
  "/priority"; a job name with a slash is admitted, its status is a 400; the
  job status leaves out unreachable agents without saying so.

## 6. Plan

Done: `LeaseLock`, `Lease`, `Election`, `CommittedState` and `Agent` with their proofs,
`Leader`; then the HopOS side (`Resident` with its proofs, `Relay`, `ObjStore`), the stores
(`Hoplock` with its proofs, `CasStore`), the HTTP side (`Front` with its proof, `Api`), the runner
(`HostRunner` with its proofs, `Unpack`, `Inflate`) and the apps (`Watch`, `Dns`, `Proxy`, `Balancer`,
`Tunnel` with its proofs, `Regex`).

To come:

1. Proofs: `Relay`, `Leader` (`TypeOK`, parts of
   `BookIsBacked`). None of these reaches a RECURSIVE operator, for that reason.
2. A composition of `Leader` with agents that keep definitions, for what a delete leaves
   behind, and an abstract cluster specification for it to implement.
3. The ingress table of the tunnel, the HopOS twin of the fan-out.

### Not modelled

- `types`, `config`, the wire formats of lease and tunnel: conversions without state or
  order; unit tests reach them.
- The hashes and signatures themselves: a MAC is a function of what it signs (`Api`), a hash is
  its input (`Hoplock`, `ObjStore`).
- `hostnet`, clients and sockets: pure I/O, a call that may fail, be late or lose its answer.
- `cli`, `hopprom`, `hop-gui`: sequential clients that render answers.
- Log buffers, system figures, boot and clock of HopOS.
- Memory as a second resource of `Agent` (the same sum without pools), a second
  agent under a live id and `MAX_AGENTS` in `Leader`, log lines and the generation check in
  `HostRunner` (ids are not used again), `.download.*` names in `Unpack`, a second port in `Front`.
