-------------------------------- MODULE Agent --------------------------------
(***************************************************************************)
(* The agent of one host: the jobs it knows, its task records (each one a  *)
(* reservation, whatever its state), and the machinery around it that      *)
(* answers late: the pool of workers that prepare a start, the runner with *)
(* its processes, and the thread that does the health probes.              *)
(*                                                                         *)
(* One step of the owner is one message, request or timer handled to the   *)
(* end, with the actions that the agent asks for executed in order, as the *)
(* owner does before it takes the next message.  A tick of the agent fires *)
(* each due restart and polls each running task; here each of these is a   *)
(* step of its own, so that any message may come between them.             *)
(*                                                                         *)
(* Time is a choice: a restart that waits may be due at any later step, an *)
(* uptime may or may not exceed the restart window, a probe may or may not *)
(* fall in the grace after a start.  Capacity is CPU; memory is the same   *)
(* sum without pools.                                                      *)
(***************************************************************************)
EXTENDS Integers, Sequences, FiniteSets, FiniteSetsExt, Functions

CONSTANTS
  Job,        \* the names of jobs
  NoGroup,    \* no sharegroup
  Defs,       \* Defs[j]: the definitions of job j that a leader may send
  Capacity,   \* the CPU that the node hands out
  WORKERS,    \* the workers that prepare starts
  MAX_TASKS, MAX_JOBS,
  MaxId,      \* bound on the task ids given out
  MaxProbes   \* bound on the probes under way

\* cpu: shares; max: max_restarts, -1 for no limit; check: the failures that
\* make a task unhealthy, 0 for no health check; fits: an artifact of the job
\* matches this node.
DefOK(d) ==
  /\ DOMAIN d = {"cpu", "group", "max", "check", "fits"}
  /\ d.cpu \in Nat /\ d.max \in Int /\ d.max >= -1 /\ d.check \in Nat /\ d.fits \in BOOLEAN

ASSUME AgentAssumption ==
  /\ \A j \in Job : \A d \in Defs[j] : DefOK(d)
  /\ Capacity \in Nat
  /\ WORKERS \in Nat \ {0} /\ MAX_TASKS \in Nat \ {0} /\ MAX_JOBS \in Nat \ {0}
  /\ MaxId \in Nat /\ MaxProbes \in Nat

VARIABLES
  node,   \* what the owner keeps: agent, preparation pool and runner
  probes  \* the probes that the probe thread has not answered, oldest first

vars == <<node, probes>>

-----------------------------------------------------------------------------
(* Data *)

Id == 1..MaxId

State == {"Queued", "Downloading", "Running", "Stopping", "Failed"}

\* count: restart_count; waits: a restart is planned (restart_at); first: not a
\* replacement; starting: the runner is starting it; fails: failed probes in a row.
Entry ==
  [job : Job, state : State, cpu : Nat, count : Nat, waits : BOOLEAN,
   first : BOOLEAN, starting : BOOLEAN, fails : Nat]

\* jobs and tasks are the agent's maps, next the id given out next, queue and
\* busy the preparation pool, runner the processes and what became of them.  Ids
\* are given out in order and each is started at once, so the smallest id of the
\* queue is the order that waits longest.
TypeOK ==
  /\ node.jobs \in [DOMAIN node.jobs -> UNION {Defs[j] : j \in Job}]
  /\ DOMAIN node.jobs \subseteq Job /\ Cardinality(DOMAIN node.jobs) <= MAX_JOBS
  /\ DOMAIN node.tasks \subseteq Id /\ Cardinality(DOMAIN node.tasks) <= MAX_TASKS
  /\ \A id \in DOMAIN node.tasks : node.tasks[id] \in Entry /\ id < node.next
  /\ node.next \in 1..(MaxId + 1)
  /\ node.queue \subseteq Id
  /\ node.busy \subseteq Id /\ Cardinality(node.busy) <= WORKERS
  /\ node.runner \in [DOMAIN node.runner -> {"up", "exited", "stopping"}]
  /\ node.open \in BOOLEAN
  /\ probes \in Seq(Id)

-----------------------------------------------------------------------------
(* The owner executes the agent's actions *)

\* Free workers take the oldest orders.
Dispatch(s) ==
  LET free == WORKERS - Cardinality(s.busy)
      taken == {id \in s.queue : Cardinality({m \in s.queue : m < id}) < free}
  IN  [s EXCEPT !.busy = @ \cup taken, !.queue = @ \ taken]

\* Action::Start: an order for the preparation pool.
Start(s, id) == Dispatch([s EXCEPT !.tasks[id].starting = TRUE, !.queue = @ \cup {id}])

\* Action::Stop: an order that still waits is cancelled, a process is stopped.
Stop(s, id) ==
  [s EXCEPT !.queue = @ \ {id},
            !.runner = IF id \in DOMAIN @ THEN [@ EXCEPT ![id] = "stopping"] ELSE @]

\* A worker is done with its order.
Done(s, id) == Dispatch([s EXCEPT !.busy = @ \ {id}])

-----------------------------------------------------------------------------
(* Records *)

Forget(s, id) == [s EXCEPT !.tasks = Restrict(@, DOMAIN @ \ {id})]

\* A fresh record, with the reservation of its job's present definition.
NewTask(s, j, count, first) ==
  LET e == [job |-> j, state |-> "Queued", cpu |-> s.jobs[j].cpu, count |-> count,
            waits |-> FALSE, first |-> first, starting |-> FALSE, fails |-> 0]
  IN  [s EXCEPT !.tasks = [id \in DOMAIN @ \cup {s.next} |-> IF id = s.next THEN e ELSE @[id]],
                !.next = @ + 1]

\* Remove the record and stop what it owns.
RemoveAndStop(s, id) == Stop(Forget(s, id), id)

\* ... for a set of records; what remains does not depend on their order.
RemoveAll(s, ids) ==
  [s EXCEPT !.tasks = Restrict(@, DOMAIN @ \ ids),
            !.queue = @ \ ids,
            !.runner = [id \in DOMAIN @ |-> IF id \in ids THEN "stopping" ELSE @[id]]]

OfJob(s, j) == {id \in DOMAIN s.tasks : s.tasks[id].job = j}

-----------------------------------------------------------------------------
(* Restart *)

Fail(s, id) == [s EXCEPT !.tasks[id].state = "Failed", !.tasks[id].waits = FALSE]

\* (slip: the failed record stays beside its replacement)
RestartFireBeside(s, id) ==
  LET e == s.tasks[id] IN
  CASE e.job \notin DOMAIN s.jobs -> Forget(s, id)
    [] e.job \in DOMAIN s.jobs /\ ~s.jobs[e.job].fits -> Fail(s, id)
    [] OTHER -> Start(NewTask(Fail(s, id), e.job, e.count + 1, FALSE), s.next)

\* The record makes place for a fresh one, in one step and without admission.
RestartFire(s, id) ==
  LET e == s.tasks[id] IN
  CASE e.job \notin DOMAIN s.jobs -> Forget(s, id)
    [] e.job \in DOMAIN s.jobs /\ ~s.jobs[e.job].fits -> Fail(s, id)
    [] OTHER -> Start(NewTask(Forget(s, id), e.job, e.count + 1, FALSE), s.next)

\* Out of budget, wait for the backoff, or try again at once.  A task that was
\* up longer than the restart window earned a clean budget.
RestartDecide(s, id, earned) ==
  LET j == s.tasks[id].job
      count == IF earned THEN 0 ELSE s.tasks[id].count
      t == [s EXCEPT !.tasks[id].count = count]
  IN
  CASE j \notin DOMAIN s.jobs -> Forget(s, id)
    [] j \in DOMAIN s.jobs /\ s.jobs[j].max >= 0 /\ count >= s.jobs[j].max -> Fail(t, id)
    [] OTHER -> IF count > 0 THEN [t EXCEPT !.tasks[id].waits = TRUE] ELSE RestartFire(t, id)

\* (slip: what is left of the attempt is not stopped)
ScheduleRestartOnly(s, id, earned) == RestartDecide(s, id, earned)

\* What is left of the attempt is stopped first, also when it was the last one.
ScheduleRestart(s, id, earned) == RestartDecide(Stop(s, id), id, earned)

\* A start that failed; it cannot earn anything.
StartFailed(s, id) == ScheduleRestart([s EXCEPT !.tasks[id].state = "Failed"], id, FALSE)

BeginStart(s, id) ==
  IF s.jobs[s.tasks[id].job].fits THEN Start(s, id) ELSE StartFailed(s, id)

-----------------------------------------------------------------------------
(* Admission *)

GroupOf(s, id) ==
  IF s.tasks[id].job \in DOMAIN s.jobs THEN s.jobs[s.tasks[id].job].group ELSE NoGroup

\* What the records reserve, share by share: a pool counts once, by the member
\* that the map has first (ids are random, so the order of their numbers is one
\* of the possible).
Usage(s, ids) ==
  LET pays == {id \in ids : \/ GroupOf(s, id) = NoGroup
                            \/ \A m \in ids : GroupOf(s, m) = GroupOf(s, id) => id <= m}
  IN  Cardinality(UNION {{id} \X (1..s.tasks[id].cpu) : id \in pays})

\* With replace the records of the job itself do not count; a pool that has a
\* member already costs nothing.
Admit(s, j, d, replace) ==
  LET used == Usage(s, DOMAIN s.tasks \ (IF replace THEN OfJob(s, j) ELSE {}))
      joins == d.group # NoGroup /\ \E id \in DOMAIN s.tasks : GroupOf(s, id) = d.group
  IN  d.cpu > 0 => used + (IF joins THEN 0 ELSE d.cpu) <= Capacity

-----------------------------------------------------------------------------
(* The owner's steps *)

\* An id is left for a replacement, so that no step is cut short by the bound.
HasId == node.open /\ node.next <= MaxId

\* POST /run of a leader: the job is admitted, its predecessors stop only then.
Run(j, d, replace) ==
  LET s == IF replace THEN RemoveAll(node, OfJob(node, j)) ELSE node
      t == [s EXCEPT !.jobs = [k \in DOMAIN @ \cup {j} |-> IF k = j THEN d ELSE @[k]]]
  IN
  /\ HasId
  /\ Cardinality(DOMAIN node.tasks) < MAX_TASKS
  /\ j \in DOMAIN node.jobs \/ Cardinality(DOMAIN node.jobs) < MAX_JOBS
  /\ Admit(node, j, d, replace)
  /\ ~d.fits => node.next < MaxId
  /\ node' = BeginStart(NewTask(t, j, 0, TRUE), node.next)
  /\ UNCHANGED probes

\* A worker reports progress; only a start that is under way moves.
Progress(id) ==
  /\ node.open /\ id \in node.busy
  /\ id \in DOMAIN node.tasks /\ node.tasks[id].state \in {"Queued", "Downloading"}
  /\ node' = [node EXCEPT !.tasks[id].state = "Downloading"]
  /\ UNCHANGED probes

\* A worker is done: the task is launched if the agent still starts it.
Prepared(id, outcome) ==
  LET s == Done(node, id)
      t == [s EXCEPT !.tasks[id].starting = FALSE]
  IN
  /\ HasId
  /\ id \in node.busy
  /\ node' =
       IF id \notin DOMAIN s.tasks \/ ~s.tasks[id].starting THEN s
       ELSE CASE outcome = "ok" ->
                   [t EXCEPT !.tasks[id].state = "Running",
                             !.runner = [i \in DOMAIN @ \cup {id} |-> IF i = id THEN "up" ELSE @[i]]]
              [] outcome = "nocapacity" -> Forget(t, id)
              [] outcome = "failed" -> StartFailed(t, id)
  /\ UNCHANGED probes

\* The tick: a restart is due.
RestartDue(id) ==
  /\ HasId
  /\ id \in DOMAIN node.tasks /\ node.tasks[id].waits
  /\ node' = RestartFire([node EXCEPT !.tasks[id].waits = FALSE], id)
  /\ UNCHANGED probes

\* A task that was running is down or unhealthy: it is restarted.
Crashed(id, state, earned) ==
  ScheduleRestart([node EXCEPT !.tasks[id].state = state, !.tasks[id].fails = 0], id, earned)

\* The monitor: a running task is polled, and probed when it is up.
Poll(id, earned) ==
  /\ HasId
  /\ id \in DOMAIN node.tasks /\ node.tasks[id].state = "Running"
  /\ IF id \in DOMAIN node.runner /\ node.runner[id] = "up"
       THEN /\ node.jobs[node.tasks[id].job].check > 0
            /\ Len(probes) < MaxProbes
            /\ probes' = Append(probes, id)
            /\ UNCHANGED node
       ELSE /\ node' = Crashed(id, "Stopping", earned)
            /\ UNCHANGED probes

\* The answer of a probe; it counts only while its task runs.
OnProbe(healthy, earned) ==
  LET id == Head(probes)
      fails == IF healthy THEN 0 ELSE node.tasks[id].fails + 1
  IN
  /\ HasId
  /\ probes # <<>>
  /\ probes' = Tail(probes)
  /\ node' =
       IF id \notin DOMAIN node.tasks \/ node.tasks[id].state # "Running" THEN node
       ELSE IF fails > 0 /\ fails >= node.jobs[node.tasks[id].job].check
              THEN Crashed(id, "Failed", earned)
              ELSE [node EXCEPT !.tasks[id].fails = fails]

\* DELETE of a task, by an update of the leader.
StopTask(id) ==
  /\ node.open
  /\ id \in DOMAIN node.tasks
  /\ node' = RemoveAndStop(node, id)
  /\ UNCHANGED probes

\* The tasks of a job make place for another job; the job stays known.
StopJobTasks(j) ==
  /\ node.open
  /\ OfJob(node, j) # {}
  /\ node' = RemoveAll(node, OfJob(node, j))
  /\ UNCHANGED probes

DeleteJob(j) ==
  /\ node.open
  /\ j \in DOMAIN node.jobs
  /\ node' = [RemoveAll(node, OfJob(node, j)) EXCEPT !.jobs = Restrict(@, DOMAIN @ \ {j})]
  /\ UNCHANGED probes

\* The node is isolated, or shuts down for good.
StopAll(closes) ==
  /\ node.open
  /\ closes \/ DOMAIN node.tasks # {}
  /\ node' = [RemoveAll(node, DOMAIN node.tasks) EXCEPT !.open = ~closes]
  /\ UNCHANGED probes

-----------------------------------------------------------------------------
(* The processes *)

\* A process ends of itself.
Exits(id) ==
  /\ id \in DOMAIN node.runner /\ node.runner[id] = "up"
  /\ node' = [node EXCEPT !.runner[id] = "exited"]
  /\ UNCHANGED probes

\* The runner has stopped a process and cleaned up behind it.
Finished(id) ==
  /\ id \in DOMAIN node.runner /\ node.runner[id] = "stopping"
  /\ node' = [node EXCEPT !.runner = Restrict(@, DOMAIN @ \ {id})]
  /\ UNCHANGED probes

-----------------------------------------------------------------------------

Init ==
  /\ node = [jobs |-> <<>>, tasks |-> <<>>, next |-> 1, queue |-> {}, busy |-> {},
             runner |-> <<>>, open |-> TRUE]
  /\ probes = <<>>

Next ==
  \/ \E j \in Job :
       \/ \E d \in Defs[j], replace \in BOOLEAN : Run(j, d, replace)
       \/ StopJobTasks(j) \/ DeleteJob(j)
  \/ \E id \in Id :
       \/ Progress(id) \/ RestartDue(id) \/ StopTask(id) \/ Exits(id) \/ Finished(id)
       \/ \E outcome \in {"ok", "nocapacity", "failed"} : Prepared(id, outcome)
       \/ \E earned \in BOOLEAN : Poll(id, earned)
  \/ \E healthy, earned \in BOOLEAN : OnProbe(healthy, earned)
  \/ \E closes \in BOOLEAN : StopAll(closes)

Spec == Init /\ [][Next]_vars

-----------------------------------------------------------------------------
(* Properties *)

\* Every process that the runner has not been told to stop belongs to a record
\* that is Running: whatever stops, deletes, replaces or restarts a task, also
\* while it is being started, leaves no process behind that nobody owns.
NoOrphan ==
  \A id \in DOMAIN node.runner :
    node.runner[id] # "stopping"
      => id \in DOMAIN node.tasks /\ node.tasks[id].state = "Running"

\* A start is with a worker, or waits in the queue while every worker is busy.
UnderWay(id) ==
  \/ id \in node.busy
  \/ Cardinality(node.busy) = WORKERS /\ id \in node.queue

\* A record that will never change by itself.
GivenUp(e) == e.state = "Failed" /\ ~e.waits

\* No record is stuck: it runs and its process is polled, its start is under
\* way, its restart is planned, or it was given up.  A record that is none of
\* these would hold its reservation, and its place in the leader's book, for ever.
NothingStuck ==
  \A id \in DOMAIN node.tasks :
    LET e == node.tasks[id] IN
    /\ e.job \in DOMAIN node.jobs
    /\ CASE e.state = "Running" -> id \in DOMAIN node.runner /\ ~e.starting
         [] e.state \in {"Queued", "Downloading"} -> e.starting /\ UnderWay(id)
         [] e.state \in {"Stopping", "Failed"} -> (e.waits \/ GivenUp(e)) /\ ~e.starting

\* A job gets more records only by a run of the leader: a crash, however often
\* it is noticed, is replaced by exactly one.  The leader's book counts on it.
GrowsOnlyByRun ==
  [][ \A j \in Job : Cardinality(OfJob(node', j)) > Cardinality(OfJob(node, j))
        => \E id \in OfJob(node', j) \ OfJob(node, j) : node'.tasks[id].first ]_vars

\* The records that a step adds, and those that it takes away.
Newcomers == DOMAIN node'.tasks \ DOMAIN node.tasks

Gone == DOMAIN node.tasks \ DOMAIN node'.tasks

\* A task is restarted, or replaced in its pool, with another reservation than it had.
Resized ==
  \E id \in Gone, new \in Newcomers :
    /\ node'.tasks[new].job = node.tasks[id].job /\ node'.tasks[new].cpu # node.tasks[id].cpu
    /\ ~node'.tasks[new].first \/ GroupOf(node', new) # NoGroup

\* A new definition takes a record that stays out of its pool, or into another.
Regrouped ==
  \E id \in DOMAIN node.tasks \cap DOMAIN node'.tasks : GroupOf(node', id) # GroupOf(node, id)

\* Members of one pool reserve different amounts; the first alone is counted.
Uneven ==
  \E id, m \in DOMAIN node.tasks :
    /\ GroupOf(node, id) = GroupOf(node, m) /\ GroupOf(node, id) # NoGroup
    /\ node.tasks[id].cpu # node.tasks[m].cpu

\* No step makes the records reserve more than the node has, through crashes,
\* restarts without admission, replacements and shared pools.  The exceptions
\* are the ways in which an update of a job escapes the admission.
NoOvercommit ==
  [][ LET before == Usage(node, DOMAIN node.tasks)
          after == Usage(node', DOMAIN node'.tasks)
      IN  after > before /\ after > Capacity => Resized \/ Regrouped \/ Uneven ]_vars

\* A task is not restarted beyond the budget of its job, unless an update lowered
\* that budget below what was used while the restart was waiting.
WithinBudget ==
  [][ \A new \in Newcomers :
        LET e == node'.tasks[new]
            max == node'.jobs[e.job].max
        IN  ~e.first /\ max >= 0 /\ e.count > max
              => \E id \in Gone : node.tasks[id].job = e.job /\ node.tasks[id].waits
                                    /\ node.tasks[id].count >= max ]_vars

\* A record is given up only when its job has no artifact for this node, or when
\* the budget of the definition of that moment is spent.
GivenUpForAReason ==
  [][ \A id \in DOMAIN node'.tasks :
        LET e == node'.tasks[id]
            d == node'.jobs[e.job]
        IN  GivenUp(e) /\ ~(id \in DOMAIN node.tasks /\ GivenUp(node.tasks[id]))
              => ~d.fits \/ (d.max >= 0 /\ e.count >= d.max) ]_vars

\* What no step of the agent does, job updates included.
AgentKeeps ==
  /\ GrowsOnlyByRun
  /\ NoOvercommit
  /\ WithinBudget
  /\ GivenUpForAReason

\* What holds of records, processes and orders at any time, whatever order
\* updates, probes, polls, stops and outcomes come in.
AgentInv ==
  /\ TypeOK
  /\ NoOrphan
  /\ NothingStuck
=============================================================================
