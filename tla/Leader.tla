------------------------------- MODULE Leader -------------------------------
(***************************************************************************)
(* The leader: the only author of what should run, and the only one that   *)
(* places.  It keeps the jobs, the registered agents and the book: how     *)
(* many instances of each job it placed on each agent.  The agents hold    *)
(* the truth; the book follows it by the answers to the leader's own       *)
(* calls, by the counts in a registration, and by hand-backs.              *)
(*                                                                         *)
(* All of the leader is one thread.  An operation is a series of blocking  *)
(* calls to agents, and between two calls an agent may restart a task,     *)
(* hand one back, crash, be cut off or send a registration that then waits *)
(* in the leader's queue.  The rest of the operation under way is the      *)
(* stack of frames leader.todo; a step takes its head frame one call, or   *)
(* one decision, further.                                                  *)
(*                                                                         *)
(* A task is an id (of its job, on its agent), a place, a job and a size.  *)
(* The agent's own work on it is in module Agent.                          *)
(***************************************************************************)
EXTENDS Integers, Sequences, FiniteSets, FiniteSetsExt, Functions, SequencesExt

CONSTANTS
  Agent, Job,   \* ids and names; numbers, for both are kept sorted
  Defs,         \* the definitions that an operator may apply
  Capacity,     \* Capacity[a]: what agent a hands out
  KeepPriority, \* an applied definition that names no priority
  Turns,        \* where the round-robin counter wraps: a multiple of every number of agents
  Starts,       \* what a leader may find when it begins (jobs, tasks), and the bounds
                \* on the requests and faults that follow (left)
  MaxId,        \* bound on the task ids in use at a time
  MaxMail       \* bound on what waits of one agent

ASSUME LeaderAssumption ==
  /\ Agent \subseteq Nat /\ IsFiniteSet(Agent) /\ Agent # {}
  /\ Job \subseteq Nat /\ IsFiniteSet(Job)
  /\ \A d \in Defs : /\ DOMAIN d = {"count", "size", "policy", "where"}
                     /\ d.count \in Nat \cup {-1} /\ d.size \in Nat
                     /\ d.policy \in {"rolling", "recreate", "bluegreen"} /\ d.where \subseteq Agent
  /\ Capacity \in [Agent -> Nat]
  /\ Turns \in Nat /\ \A n \in 1..Cardinality(Agent) : Turns % n = 0
  /\ KeepPriority \notin Int

VARIABLES
  leader,  \* what the leader keeps, with the operation under way
  tasks,   \* the task records at the agents
  up,      \* up[a]: agent a answers, is cut off, or is down
  mail,    \* mail[a]: what agent a sent and the leader has not handled
  left,    \* what the environment may still do
  ghost    \* doubt: the agents whose book missed something; merged: those where
           \* one instance replaced several; clean: the reconcile under way had
           \* an answer to every call

vars == <<leader, tasks, up, mail, left, ghost>>

-----------------------------------------------------------------------------
(* Data *)

Id == 1..MaxId

Task == [id : Id, at : Agent, job : Job, size : Nat]

\* A stored job: a definition (where: the agents that its affinity matches) with
\* its priority (lower is more important) and the flag that a roll-out has not
\* succeeded yet.
Stored == [count : Nat \cup {-1}, size : Nat, policy : {"rolling", "recreate", "bluegreen"},
           where : SUBSET Agent, prio : Int, deploying : BOOLEAN]

Desired(d) == IF d.count < 1 THEN 1 ELSE d.count

IsDaemon(d) == d.count = -1

TypeOK ==
  /\ leader.jobs \in [DOMAIN leader.jobs -> Stored] /\ DOMAIN leader.jobs \subseteq Job
  /\ leader.agents \subseteq Agent
  /\ leader.placed \in [Agent -> [Job -> Nat]]
  /\ \A a \in Agent \ leader.agents : \A j \in Job : leader.placed[a][j] = 0
  /\ leader.settled \in BOOLEAN
  /\ leader.turn \in 0..(Turns - 1)
  /\ leader.result \in {"ok", "full", "none"}
  /\ \A i \in DOMAIN leader.todo :
       leader.todo[i].op \in {"reconcile", "reconciled", "job", "place", "daemon", "snapshot",
                              "roll", "stops", "dispatch", "finish", "patch", "dead"}
  /\ tasks \subseteq Task
  /\ \A s, t \in tasks : (s.id = t.id /\ s.at = t.at /\ s.job = t.job) => s = t
  /\ up \in [Agent -> {"up", "cut", "down"}]
  /\ \A a \in Agent : Len(mail[a]) <= MaxMail
  /\ ghost.doubt \subseteq Agent /\ ghost.merged \subseteq Agent /\ ghost.clean \in BOOLEAN

Ascending(S) == SetToSortSeq(S, <)

NonePlaced == [j \in Job |-> 0]

OfJobAt(j, a) == {t \in tasks : t.job = j /\ t.at = a}

\* placed_task_counts of the agent: every record counts, whatever its state.
Counts(a) == [j \in Job |-> Cardinality(OfJobAt(j, a))]

-----------------------------------------------------------------------------
(* The frames of an operation *)

Reconcile == [op |-> "reconcile"]
ReconcileJob(j) == [op |-> "job", job |-> j]

\* (slip: nobody is ever displaced)
PlaceSpares(s, j, d, n, preempt) ==
  [op |-> "place", job |-> j, def |-> d, n |-> n, preempt |-> FALSE,
   tries |-> Cardinality(s.agents), full |-> <<>>, evicted |-> FALSE, why |-> "none"]

\* Place n instances one after the other.  tries: the agents that the first
\* round has left; full: those that had no room; evicted: the victim on the
\* head of full has been stopped; why: the refusal when nobody accepts.
Place(s, j, d, n, preempt) ==
  [op |-> "place", job |-> j, def |-> d, n |-> n, preempt |-> preempt,
   tries |-> Cardinality(s.agents), full |-> <<>>, evicted |-> FALSE, why |-> "none"]

Pop(s) == [s EXCEPT !.todo = Tail(@)]
Return(s, result) == [Pop(s) EXCEPT !.result = IF Len(s.todo) = 1 THEN "ok" ELSE result]
Swap(s, frames) == [s EXCEPT !.todo = frames \o Tail(@)]

-----------------------------------------------------------------------------
(* The book and the store *)

Total(s, j) == MapThenSumSet(LAMBDA a : s.placed[a][j], s.agents)

Track(s, a, j) == [s EXCEPT !.placed[a][j] = @ + 1]

UntrackOne(s, a, j) == [s EXCEPT !.placed[a][j] = IF @ > 0 THEN @ - 1 ELSE 0]

Holders(s, j) == {a \in s.agents : s.placed[a][j] > 0}

TakePlacement(s, j) == [s EXCEPT !.placed = [a \in Agent |-> [@[a] EXCEPT ![j] = 0]]]

RemoveAgents(s, A) ==
  [s EXCEPT !.agents = @ \ A,
            !.placed = [a \in Agent |-> IF a \in A THEN NonePlaced ELSE @[a]]]

StorePut(s, j, d) ==
  [s EXCEPT !.jobs = [k \in DOMAIN @ \cup {j} |-> IF k = j THEN d ELSE @[k]]]

PriorityOrder(s) ==
  SetToSortSeq(DOMAIN s.jobs,
               LAMBDA j, k : \/ s.jobs[j].prio < s.jobs[k].prio
                             \/ s.jobs[j].prio = s.jobs[k].prio /\ j < k)

\* The priorities become the places in the given order, from 0.
Number(s, order) ==
  [s EXCEPT !.jobs = [j \in DOMAIN @ |->
     [@[j] EXCEPT !.prio = (CHOOSE i \in DOMAIN order : order[i] = j) - 1]]]

Normalize(s) == Number(s, PriorityOrder(s))

\* (slip: an equal may be stopped too)
FindVictimEqual(s, a, d) ==
  LET less == {j \in DOMAIN s.jobs : s.placed[a][j] > 0 /\ s.jobs[j].prio >= d.prio}
  IN  {j \in less : \A k \in less : \/ s.jobs[k].prio < s.jobs[j].prio
                                    \/ s.jobs[k].prio = s.jobs[j].prio /\ j <= k}

\* The least important job on agent a that is strictly less important: a set of
\* at most one.
FindVictim(s, a, d) ==
  LET less == {j \in DOMAIN s.jobs : s.placed[a][j] > 0 /\ s.jobs[j].prio > d.prio}
  IN  {j \in less : \A k \in less : \/ s.jobs[k].prio < s.jobs[j].prio
                                    \/ s.jobs[k].prio = s.jobs[j].prio /\ j <= k}

\* (slip: what the agent itself brings counts as a replacement of it)
SurplusOwn(s, a) ==
  {j \in DOMAIN s.jobs : /\ s.placed[a][j] > 0 /\ ~IsDaemon(s.jobs[j])
                         /\ Total(s, j) >= Desired(s.jobs[j])}

\* What a returning agent brings although the others already have all of it.
Surplus(s, a) ==
  {j \in DOMAIN s.jobs : /\ s.placed[a][j] > 0 /\ ~IsDaemon(s.jobs[j])
                         /\ Total(s, j) - s.placed[a][j] >= Desired(s.jobs[j])}

-----------------------------------------------------------------------------
(* Calls *)

\* The ids of job j at agent a that a roll-out under way still refers to.
Referred(a, j) ==
  UNION {LET f == leader.todo[k] IN {f.old[i].id : i \in {n \in DOMAIN f.old : f.old[n].at = a}} :
           k \in {n \in DOMAIN leader.todo : /\ leader.todo[n].op \in {"snapshot", "roll"}
                                             /\ leader.todo[n].job = j}}

\* Ids are random; the least that nothing refers to stands for a fresh one.
FreshId(a, j) == Min(Id \ ({t.id : t \in OfJobAt(j, a)} \cup Referred(a, j)))

\* The agent's admission of a run, and what the run changes.
Admission(a, j, d, replace) ==
  LET kept == {t \in tasks : t.at = a} \ (IF replace THEN OfJobAt(j, a) ELSE {})
  IN  CASE a \notin d.where -> "mismatch"
        [] a \in d.where /\ MapThenSumSet(LAMBDA t : t.size, kept) + d.size > Capacity[a]
             -> "nocapacity"
        [] OTHER -> "accepted"

AfterRun(a, j, d, replace) ==
  IF Admission(a, j, d, replace) # "accepted" THEN tasks
  ELSE (tasks \ (IF replace THEN OfJobAt(j, a) ELSE {}))
         \cup {[id |-> FreshId(a, j), at |-> a, job |-> j, size |-> d.size]}

\* A call to agent a that would leave the tasks as in after: answered, not
\* delivered, or delivered with its answer lost.
Call(a, after, answered) ==
  /\ \/ /\ answered /\ up[a] = "up"
        /\ tasks' = after
        /\ ghost' = IF Cardinality(after) < Cardinality(tasks) /\ ~(after \subseteq tasks)
                      THEN [ghost EXCEPT !.merged = @ \cup {a}] ELSE ghost
        /\ UNCHANGED left
     \/ /\ ~answered /\ up[a] # "up"
        /\ tasks' = tasks
        /\ ghost' = [ghost EXCEPT !.clean = FALSE]
        /\ UNCHANGED left
     \/ /\ ~answered /\ up[a] = "up" /\ left.faults > 0
        /\ tasks' = after
        /\ left' = [left EXCEPT !.faults = @ - 1]
        /\ ghost' = [ghost EXCEPT !.doubt = IF after = tasks THEN @ ELSE @ \cup {a}, !.clean = FALSE]
  /\ UNCHANGED <<up, mail>>

\* A decision of the leader that calls nobody.
Local == UNCHANGED <<tasks, up, mail, left, ghost>>

Top(op) == leader.todo # <<>> /\ Head(leader.todo).op = op
Frame == Head(leader.todo)

-----------------------------------------------------------------------------
(* Place *)

\* One instance is placed on a; the next one starts its own first round.
Placed(s, a) ==
  LET f == Head(s.todo)
      t == Track(s, a, f.job)
  IN  IF f.n = 1 THEN Return(t, "ok")
      ELSE Swap(t, <<Place(s, f.job, f.def, f.n - 1, f.preempt)>>)

\* First round: each agent once, in turn.
RunFirst(answered) ==
  LET f == Frame
      n == Cardinality(leader.agents)
      a == Ascending(leader.agents)[(leader.turn % n) + 1]
      s == [leader EXCEPT !.turn = (@ + 1) % Turns]
      reply == IF answered THEN Admission(a, f.job, f.def, FALSE) ELSE "unreachable"
  IN
  /\ Top("place") /\ f.tries > 0
  /\ Call(a, AfterRun(a, f.job, f.def, FALSE), answered)
  /\ leader' =
       CASE reply = "accepted" -> Placed(s, a)
         [] reply = "nocapacity" ->
              Swap(s, <<[f EXCEPT !.tries = @ - 1, !.full = Append(@, a), !.why = "full"]>>)
         [] OTHER -> Swap(s, <<[f EXCEPT !.tries = @ - 1]>>)

\* Nobody accepted, and nobody is left to make room.
Refused ==
  LET f == Frame IN
  /\ Top("place") /\ f.tries = 0
  /\ f.full = <<>> \/ ~f.preempt
  /\ leader' = Return(leader, f.why)
  /\ Local

\* Second round: on an agent that was full, a victim is stopped...
Evict(answered) ==
  LET f == Frame
      a == Head(f.full)
  IN
  /\ Top("place") /\ f.tries = 0 /\ f.preempt /\ f.full # <<>> /\ ~f.evicted
  /\ IF FindVictim(leader, a, f.def) = {}
       THEN leader' = Swap(leader, <<[f EXCEPT !.full = Tail(@)]>>) /\ answered /\ Local
       ELSE \E v \in FindVictim(leader, a, f.def) :
              /\ Call(a, tasks \ OfJobAt(v, a), answered)
              /\ leader' = IF answered
                             THEN Swap([leader EXCEPT !.placed[a][v] = 0],
                                       <<[f EXCEPT !.evicted = TRUE]>>)
                             ELSE Swap(leader, <<[f EXCEPT !.full = Tail(@)]>>)

\* ... and the agent is asked again.
RunSecond(answered) ==
  LET f == Frame
      a == Head(f.full)
  IN
  /\ Top("place") /\ f.evicted
  /\ Call(a, AfterRun(a, f.job, f.def, FALSE), answered)
  /\ leader' = IF answered /\ Admission(a, f.job, f.def, FALSE) = "accepted"
                 THEN Placed(leader, a)
                 ELSE Swap(leader, <<[f EXCEPT !.full = Tail(@), !.evicted = FALSE]>>)

-----------------------------------------------------------------------------
(* Reconcile *)

ReconcileJobs ==
  LET s == Normalize(leader) IN
  /\ Top("reconcile")
  /\ IF DOMAIN leader.jobs = {} \/ leader.agents = {}
       THEN leader' = Return(leader, "ok") /\ Local
       ELSE /\ leader' = Swap([s EXCEPT !.turn = 0],
                              [i \in DOMAIN PriorityOrder(s) |-> ReconcileJob(PriorityOrder(s)[i])]
                                \o <<[op |-> "reconciled"]>>)
            /\ ghost' = [ghost EXCEPT !.clean = TRUE]
            /\ UNCHANGED <<tasks, up, mail, left>>

\* A job that does not fit now is no error of the round.
Reconciled ==
  /\ Top("reconciled")
  /\ leader' = Return(leader, "ok")
  /\ ghost' = [ghost EXCEPT !.clean = FALSE]
  /\ UNCHANGED <<tasks, up, mail, left>>

\* (slip: a job that has an instance somewhere is taken for complete)
MissingAny(s, j) == IF Total(s, j) > 0 THEN 0 ELSE Desired(s.jobs[j])

Missing(s, j) == Desired(s.jobs[j]) - Total(s, j)

\* reconcile_job: what is missing is dispatched; nothing is ever scaled down.
ReconcileOne ==
  LET j == Frame.job
      d == leader.jobs[j]
      bare == {a \in leader.agents : leader.placed[a][j] = 0}
  IN
  /\ Top("job")
  /\ leader' =
       CASE IsDaemon(d) /\ bare # {} ->
              Swap(leader, <<[op |-> "daemon", job |-> j, def |-> d, bare |-> Ascending(bare),
                              some |-> FALSE]>>)
         [] ~IsDaemon(d) /\ Missing(leader, j) > 0 ->
              Swap(leader, <<Place(leader, j, d, Missing(leader, j), TRUE)>>)
         [] OTHER -> Return(leader, "ok")
  /\ Local

\* reconcile_daemon: one on every agent that misses it.
RunDaemon(answered) ==
  LET f == Frame
      a == Head(f.bare)
      ok == answered /\ Admission(a, f.job, f.def, FALSE) = "accepted"
      s == IF ok THEN Track(leader, a, f.job) ELSE leader
      some == f.some \/ ok
  IN
  /\ Top("daemon")
  /\ Call(a, AfterRun(a, f.job, f.def, FALSE), answered)
  /\ leader' = IF Len(f.bare) = 1 THEN Return(s, IF some THEN "ok" ELSE "none")
               ELSE Swap(s, <<[f EXCEPT !.bare = Tail(@), !.some = some]>>)

-----------------------------------------------------------------------------
(* Dispatch and update *)

\* dispatch_job: always stored, placed only after the settle period.
DispatchJob ==
  LET f == Frame
      s == StorePut(leader, f.job, f.def)
  IN
  /\ Top("dispatch")
  /\ leader' =
       CASE ~s.settled -> Return(s, "ok")
         [] s.settled /\ IsDaemon(f.def) -> Swap(s, <<ReconcileJob(f.job)>>)
         [] OTHER -> Swap(s, <<Place(s, f.job, f.def, Desired(f.def), TRUE)>>)
  /\ Local

\* The tasks of the job at one of its agents; an agent that does not answer
\* has none.
Snapshot(answered) ==
  LET f == Frame
      a == Head(f.ask)
      ids == Ascending({t.id : t \in OfJobAt(f.job, a)})
      refs == [i \in DOMAIN ids |-> [id |-> ids[i], at |-> a]]
  IN
  /\ Top("snapshot") /\ f.ask # <<>>
  /\ Call(a, tasks, answered)
  /\ leader' = Swap(leader, <<[f EXCEPT !.ask = Tail(@), !.old = @ \o (IF answered THEN refs ELSE <<>>)]>>)

\* The new definition is stored; blue-green places all of it first.
SnapshotTaken ==
  LET f == Frame
      s == StorePut(leader, f.job, f.def)
      roll == [op |-> "roll", job |-> f.job, def |-> f.def, old |-> f.old, i |-> 0, phase |-> "next"]
  IN
  /\ Top("snapshot") /\ f.ask = <<>>
  /\ leader' = IF f.def.policy = "rolling" THEN Swap(s, <<roll>>)
               ELSE Swap(s, <<Place(s, f.job, f.def, Desired(f.def), FALSE),
                              [roll EXCEPT !.i = Desired(f.def), !.phase = "placed"]>>)
  /\ Local

\* The roll-out decides: place a new instance first while the count allows it,
\* stop the old one, or be done.
RollDecide ==
  LET f == Frame IN
  /\ Top("roll")
  /\ \/ /\ f.phase = "next" /\ f.old = <<>>
        /\ leader' = IF f.def.policy = "rolling" THEN Swap(leader, <<Reconcile>>)
                     ELSE Return(leader, "ok")
     \/ /\ f.phase = "next" /\ f.old # <<>>
        /\ leader' =
             IF f.i < Desired(f.def)
               THEN Swap(leader, <<Place(leader, f.job, f.def, 1, FALSE), [f EXCEPT !.phase = "placed"]>>)
               ELSE Swap(leader, <<[f EXCEPT !.phase = "stop"]>>)
     \/ /\ f.phase = "placed" /\ leader.result = "ok"
        /\ leader' = Swap(leader, <<[f EXCEPT !.phase = IF f.def.policy = "rolling" THEN "stop" ELSE "next"]>>)
     \/ /\ f.phase = "placed" /\ leader.result # "ok"
        /\ f.def.policy = "bluegreen" \/ leader.result = "none"
        /\ leader' = Pop(leader)
  /\ Local

\* No room for old and new side by side: replace on the old one's own agent.
Replace(answered) ==
  LET f == Frame
      a == Head(f.old).at
  IN
  /\ Top("roll") /\ f.phase = "placed" /\ f.def.policy = "rolling" /\ leader.result = "full"
  /\ Call(a, AfterRun(a, f.job, f.def, TRUE), answered)
  /\ leader' = IF answered /\ Admission(a, f.job, f.def, TRUE) = "accepted"
                 THEN Swap(leader, <<[f EXCEPT !.old = Tail(@), !.i = @ + 1, !.phase = "next"]>>)
                 ELSE Pop(leader)

\* The old instance is stopped and booked off, whatever the agent answers.
StopOldTask(answered) ==
  LET f == Frame
      o == Head(f.old)
  IN
  /\ Top("roll") /\ f.phase = "stop"
  /\ Call(o.at, {t \in tasks : ~(t.id = o.id /\ t.at = o.at /\ t.job = f.job)}, answered)
  /\ leader' = Swap(UntrackOne(leader, o.at, f.job),
                    <<[f EXCEPT !.old = Tail(@), !.i = @ + 1, !.phase = "next"]>>)

\* The flag goes off only when the roll-out succeeded.
FinishUpdate ==
  LET j == Frame.job IN
  /\ Top("finish")
  /\ leader' = Normalize([Return(leader, "ok") EXCEPT !.jobs[j].deploying = leader.result # "ok"])
  /\ Local

\* Stops at the agents in f.at, which the book has already forgotten: of a
\* delete, of a recreate, of what a returning agent has too much.
Stops(answered) ==
  LET f == Frame
      a == Head(f.at)
  IN
  /\ Top("stops") /\ f.at # <<>>
  /\ Call(a, tasks \ OfJobAt(f.job, a), answered)
  /\ leader' = Swap(leader, IF Len(f.at) = 1 THEN <<>> ELSE <<[f EXCEPT !.at = Tail(@)]>>)

\* patch_job_priority, unless what came before it failed.
PatchPriority ==
  LET f == Frame
      order == SelectSeq(PriorityOrder(leader), LAMBDA j : j # f.job)
      at == Min({f.target, Len(order)})
  IN
  /\ Top("patch")
  /\ leader' = IF leader.result # "ok" THEN Return(leader, "ok")
               ELSE Swap(Number(leader, InsertAt(order, at + 1, f.job)), <<Reconcile>>)
  /\ Local

RemoveDead ==
  /\ Top("dead")
  /\ leader' = Swap(RemoveAgents(leader, Frame.agents), <<Reconcile>>)
  /\ Local

-----------------------------------------------------------------------------
(* Requests, messages and ticks, when the leader is idle *)

Idle == leader.todo = <<>>

Begin(s, frames) == leader' = [s EXCEPT !.todo = frames, !.result = "ok"]

Request ==
  /\ Idle /\ left.requests > 0
  /\ left' = [left EXCEPT !.requests = @ - 1]
  /\ UNCHANGED <<tasks, up, mail, ghost>>

Stop(j, A) == IF A = {} THEN <<>> ELSE <<[op |-> "stops", job |-> j, at |-> Ascending(A), trim |-> FALSE]>>

\* The job as it will be stored.
WithPriority(d, prio, deploying) ==
  [count |-> d.count, size |-> d.size, policy |-> d.policy, where |-> d.where,
   prio |-> prio, deploying |-> deploying]

\* upsert of a new job: dispatch it and, with a priority of its own, move it there.
ApplyNew(j, d, prio) ==
  LET p == IF prio = KeepPriority THEN Cardinality(DOMAIN leader.jobs) ELSE prio IN
  /\ Request
  /\ j \notin DOMAIN leader.jobs
  /\ Begin(leader, <<[op |-> "dispatch", job |-> j, def |-> WithPriority(d, p, FALSE)]>>
                     \o (IF prio = KeepPriority THEN <<>>
                         ELSE <<[op |-> "patch", job |-> j, target |-> prio]>>))

\* upsert of a job that exists: update_job by its policy.
ApplyUpdate(j, d, prio) ==
  LET p == IF prio = KeepPriority THEN leader.jobs[j].prio ELSE prio
      def == WithPriority(d, p, TRUE)
      holders == Holders(leader, j)
      finish == <<[op |-> "finish", job |-> j]>>
  IN
  /\ Request
  /\ j \in DOMAIN leader.jobs
  /\ IF d.policy = "recreate"
       THEN Begin(TakePlacement(leader, j),
                  Stop(j, holders) \o <<[op |-> "dispatch", job |-> j, def |-> def]>> \o finish)
       ELSE Begin(leader, <<[op |-> "snapshot", job |-> j, def |-> def, ask |-> Ascending(holders),
                             old |-> <<>>]>> \o finish)

DeleteJob(j) ==
  LET s == [leader EXCEPT !.jobs = Restrict(@, DOMAIN @ \ {j})] IN
  /\ Request
  /\ j \in DOMAIN leader.jobs
  /\ Begin(TakePlacement(s, j), Stop(j, Holders(leader, j)) \o <<Reconcile>>)

PatchJob(j, target) ==
  /\ Request
  /\ j \in DOMAIN leader.jobs
  /\ Begin(leader, <<[op |-> "patch", job |-> j, target |-> target]>>)

UnregisterAgent(a) ==
  /\ Request
  /\ a \in leader.agents
  /\ Begin(RemoveAgents(leader, {a}), <<Reconcile>>)

\* The tick: the settle period may end, agents that were silent for too long
\* are removed, and every third tick reconciles.
Tick(ends, dead, third) ==
  /\ Idle
  /\ ends => ~leader.settled
  /\ leader.settled \/ ends
  /\ dead \subseteq {a \in leader.agents : up[a] # "up"}
  /\ Begin([leader EXCEPT !.settled = TRUE],
           (IF ends THEN <<Reconcile>> ELSE <<>>)
             \o (IF dead = {} THEN <<>> ELSE <<[op |-> "dead", agents |-> dead]>>)
             \o (IF third THEN <<Reconcile>> ELSE <<>>))
  /\ Local

\* register_agent: the book of the agent becomes what it reported.
RegisterAgent(a, counts) ==
  LET s == [leader EXCEPT !.agents = @ \cup {a}, !.placed[a] = counts]
      surplus == Ascending(Surplus(s, a))
      trims == [i \in DOMAIN surplus |-> [op |-> "stops", job |-> surplus[i], at |-> <<a>>, trim |-> TRUE]]
      trimmed == [s EXCEPT !.placed[a] = [j \in Job |-> IF j \in Surplus(s, a) THEN 0 ELSE @[j]]]
  IN  IF s.settled THEN Begin(trimmed, trims \o <<Reconcile>>) ELSE Begin(s, <<>>)

\* The hand-backs of agent a that wait after its registration.
HandedBack(a, j) == Cardinality({i \in DOMAIN mail[a] : mail[a][i].kind = "unplaced" /\ mail[a][i].job = j})

HandleMail(a) ==
  LET m == Head(mail[a])
      exact == \A j \in Job : m.counts[j] = Counts(a)[j] + HandedBack(a, j)
  IN
  /\ Idle /\ mail[a] # <<>>
  /\ mail' = [mail EXCEPT ![a] = Tail(@)]
  /\ \/ /\ m.kind = "register"
        /\ RegisterAgent(a, m.counts)
        /\ ghost' = [ghost EXCEPT !.doubt = IF exact THEN @ \ {a} ELSE @ \cup {a}, !.merged = @ \ {a}]
     \/ /\ m.kind = "unplaced"
        /\ Begin(UntrackOne(leader, a, m.job), <<Reconcile>>)
        /\ UNCHANGED ghost
  /\ UNCHANGED <<tasks, up, left>>

-----------------------------------------------------------------------------
(* The agents *)

Fault ==
  /\ left.faults > 0
  /\ left' = [left EXCEPT !.faults = @ - 1]

Registers(a) == \E i \in DOMAIN mail[a] : mail[a][i].kind = "register"

\* An agent that the leader does not know registers with what it runs; so may
\* one whose heartbeat went unanswered.
SendRegister(a) ==
  /\ up[a] = "up" /\ ~Registers(a) /\ Len(mail[a]) < MaxMail
  /\ IF a \in leader.agents THEN Fault ELSE UNCHANGED left
  /\ mail' = [mail EXCEPT ![a] = Append(@, [kind |-> "register", counts |-> Counts(a)])]
  /\ UNCHANGED <<leader, tasks, up, ghost>>

\* A start found no place on the node after all: the record goes and the leader is told.
HandBack(t) ==
  /\ Fault
  /\ Len(mail[t.at]) < MaxMail
  /\ tasks' = tasks \ {t}
  /\ IF up[t.at] = "up"
       THEN mail' = [mail EXCEPT ![t.at] = Append(@, [kind |-> "unplaced", job |-> t.job])] /\ UNCHANGED ghost
       ELSE ghost' = [ghost EXCEPT !.doubt = @ \cup {t.at}] /\ UNCHANGED mail
  /\ UNCHANGED <<leader, up>>

\* A task that crashed gets a fresh record, under another id.  Only a roll-out
\* that refers to it can tell.
RestartTask(t) ==
  /\ t.id \in Referred(t.at, t.job)
  /\ Fault
  /\ tasks' = (tasks \ {t}) \cup {[t EXCEPT !.id = FreshId(t.at, t.job)]}
  /\ UNCHANGED <<leader, up, mail, ghost>>

\* The agent is cut off with its tasks running, or goes down with them.
Drop(a, how) ==
  /\ Fault
  /\ up[a] = "up" /\ how \in {"cut", "down"}
  /\ up' = [up EXCEPT ![a] = how]
  /\ IF how = "cut" THEN UNCHANGED <<tasks, mail, ghost>>
     ELSE /\ tasks' = {t \in tasks : t.at # a}
          /\ mail' = [mail EXCEPT ![a] = <<>>]
          /\ ghost' = [ghost EXCEPT !.doubt = @ \cup {a}]
  /\ UNCHANGED leader

\* It is reachable again; a node that was down starts by registering.
Recover(a) ==
  /\ up[a] # "up"
  /\ up' = [up EXCEPT ![a] = "up"]
  /\ mail' = IF up[a] = "cut" THEN mail
             ELSE [mail EXCEPT ![a] = <<[kind |-> "register", counts |-> NonePlaced]>>]
  /\ UNCHANGED <<leader, tasks, left, ghost>>

-----------------------------------------------------------------------------

Init ==
  /\ \E start \in Starts :
       /\ tasks = start.tasks /\ left = start.left
       /\ leader = [jobs |-> start.jobs, agents |-> {}, placed |-> [a \in Agent |-> NonePlaced],
                    settled |-> FALSE, turn |-> 0, todo |-> <<>>, result |-> "ok"]
  /\ up = [a \in Agent |-> "up"]
  /\ mail = [a \in Agent |-> <<>>]
  /\ ghost = [doubt |-> {}, merged |-> {}, clean |-> FALSE]

\* The operation under way goes on.
Continue ==
  \/ Refused \/ ReconcileJobs \/ Reconciled \/ ReconcileOne \/ DispatchJob \/ SnapshotTaken
  \/ RollDecide \/ FinishUpdate \/ PatchPriority \/ RemoveDead
  \/ \E answered \in BOOLEAN :
       \/ RunFirst(answered) \/ Evict(answered) \/ RunSecond(answered) \/ RunDaemon(answered)
       \/ Snapshot(answered) \/ Replace(answered) \/ StopOldTask(answered) \/ Stops(answered)

Operator ==
  \/ \E j \in Job, d \in Defs, prio \in {KeepPriority, 0} : ApplyNew(j, d, prio) \/ ApplyUpdate(j, d, prio)
  \/ \E j \in Job : DeleteJob(j) \/ PatchJob(j, 0)
  \/ \E a \in Agent : UnregisterAgent(a)

\* The leader waits for an answer or for work.  Its decisions take no time and
\* look at nothing outside it, so the others need not move between them.
Waits ==
  \/ Idle
  \/ Top("place") /\ (Frame.tries > 0 \/ Frame.evicted \/ (Frame.preempt /\ Frame.full # <<>>))
  \/ Top("daemon") \/ Top("stops")
  \/ Top("snapshot") /\ Frame.ask # <<>>
  \/ Top("roll") /\ (Frame.phase = "stop" \/ (Frame.phase = "placed" /\ leader.result = "full"))

Environment ==
  \/ \E a \in Agent : Recover(a) \/ \E how \in {"cut", "down"} : Drop(a, how)
  \/ \E t \in tasks : HandBack(t) \/ RestartTask(t)

Next ==
  \/ Continue \/ Operator
  \/ Waits /\ Environment
  \/ \E ends, third \in BOOLEAN, dead \in SUBSET Agent : Tick(ends, dead, third)
  \/ \E a \in Agent : (Waits /\ SendRegister(a)) \/ HandleMail(a)

Spec == Init /\ [][Next]_vars

\* The leader's thread runs on, its ticks come, and an agent that the leader
\* does not know goes on registering.
FairSpec ==
  /\ Spec
  /\ WF_vars(Continue)
  /\ WF_vars(Tick(~leader.settled, {a \in leader.agents : up[a] # "up"}, TRUE))
  /\ \A a \in Agent : WF_vars(HandleMail(a)) /\ WF_vars(a \notin leader.agents /\ Waits /\ SendRegister(a))

-----------------------------------------------------------------------------
(* Properties *)

\* What the book has for an agent, the agent has, or has handed back in a
\* message that is on its way.  A job whose roll-out has not succeeded is left
\* out: deploying says so.
Backed(a) ==
  \A j \in DOMAIN leader.jobs :
    ~leader.jobs[j].deploying => leader.placed[a][j] <= Counts(a)[j] + HandedBack(a, j)

\* The book promises nothing that is not there, through preemption, trimming,
\* roll-outs, hand-backs and agents that leave and return: an instance that is
\* only in the book is never replaced.  Left out, until they register again, are
\* agents of which an answer was lost, that crashed, or whose registration was
\* overtaken by a call, and agents where one instance replaced several.
BookIsBacked == \A a \in leader.agents \ (ghost.doubt \cup ghost.merged) : Backed(a)

\* A replacement in place changes nothing in the book, which stays right.
ReplaceKeepsBook == \A a \in leader.agents \ ghost.doubt : Backed(a)

\* Nobody has less right to a place: at the end of a round in which every call
\* was answered, a job that is short finds no less important one on an agent
\* that could run it.  For jobs of one size: with two, a victim may make too little room.
NoPriorityInversion ==
  (/\ Top("reconciled") /\ ghost.clean /\ ghost.doubt = {}
   /\ \A i, j \in DOMAIN leader.jobs : leader.jobs[i].size = leader.jobs[j].size
   /\ \A a \in Agent : mail[a] = <<>>)
    => \A j \in DOMAIN leader.jobs :
         (~IsDaemon(leader.jobs[j]) /\ Total(leader, j) < Desired(leader.jobs[j]))
           => \A a \in leader.agents \cap leader.jobs[j].where :
                FindVictim(leader, a, leader.jobs[j]) = {}

\* The step stops what a returning agent has too much, or an old instance.
Trims == Top("stops") /\ Frame.trim
Rolls == Top("roll")

InstancesOf(j) == {t \in tasks : t.job = j}

\* Trimming a returning agent and rolling out a new definition never take away
\* the last instance of a job, while the book can be trusted and no hand-back of
\* the job is on its way.
NeverTakesTheLast ==
  [][ \A j \in Job :
        (/\ Trims \/ Rolls
         /\ leader' # leader
         /\ InstancesOf(j) # {} /\ InstancesOf(j)' = {})
          => ghost.doubt # {} \/ \E a \in Agent : HandedBack(a, j) > 0 ]_vars

\* A leader that has just begun looks only after the agents had the time to say
\* what they run: until then it starts no duplicate of a job that runs already.
\* (For starts without surplus, and no faults.)
NoDuplicateWhileSettling ==
  ~leader.settled =>
    \A j \in DOMAIN leader.jobs :
      ~IsDaemon(leader.jobs[j]) => Cardinality(InstancesOf(j)) <= Desired(leader.jobs[j])

\* A job has displaced smaller instances and still has no room: place stops the victim
\* before it knows, and a later round starts it again.
InVain ==
  /\ Top("place") /\ Frame.evicted
  /\ Admission(Head(Frame.full), Frame.job, Frame.def, FALSE) = "nocapacity"
  /\ \E i \in DOMAIN leader.jobs : leader.jobs[i].size < Frame.def.size

\* When nobody asks and nothing breaks any more, the leader comes to rest: it
\* neither moves an instance nor changes its book again, however often it
\* reconciles, so jobs do not displace each other in turn.  The one churn without
\* end is that of a job that displaces smaller ones in vain, round after round.
ChurnEnds == <>[][UNCHANGED <<tasks, leader.placed>>]_vars \/ []<>InVain

\* ... and it rests only when every job has its instances, or no agent could
\* make room for one.
AllPlaced ==
  \A j \in DOMAIN leader.jobs :
    IF IsDaemon(leader.jobs[j]) THEN TRUE
    ELSE \/ Total(leader, j) >= Desired(leader.jobs[j])
         \/ \A a \in leader.agents \cap leader.jobs[j].where :
              up[a] = "up"
                => /\ Admission(a, j, leader.jobs[j], FALSE) = "nocapacity"
                   /\ FindVictim(leader, a, leader.jobs[j]) = {}

Converges == <>[](Idle => AllPlaced) \/ []<>InVain

\* What holds of the leader's book and the agents after every call of every
\* operation, lost answers and crashes included.
LeaderInv ==
  /\ TypeOK
  /\ BookIsBacked
  /\ NoPriorityInversion
=============================================================================
