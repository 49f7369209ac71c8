-------------------------------- MODULE Relay --------------------------------
(***************************************************************************)
(* A leader on HopOS and the agents on other nodes.  The leader's calls    *)
(* are answered at once from the relay, optimistically; the dispatch task  *)
(* makes the real calls, one at a time, from a bounded queue, and its      *)
(* answers come back through a bounded inbox.  A refusal books the         *)
(* placement off and is remembered for a while.                            *)
(*                                                                         *)
(* A job's instances all have one size; an agent holds Cap of them.  How   *)
(* long a refusal is remembered is left open (Expire), and so is when the  *)
(* leader ticks.  Updates of a job are in module Leader.                   *)
(***************************************************************************)
EXTENDS Integers, Sequences, FiniteSets, SequencesExt, FiniteSetsExt

CONSTANTS
  AgentSeq, Own,      \* the agents by id, and the one of the leader's own node
  JobSeq,             \* the jobs by priority
  Desired, Cap,       \* the instances a job wants, the instances an agent holds
  DISPATCH_Q, INBOX_Q,
  MaxFaults, MaxRegs, MaxTerms, MaxOps   \* bounds

VARIABLES
  live, settled,   \* the leader half serves; the settle period is over
  saved,           \* the jobs that the next term will load
  ldr,             \* the leader and its relay
  run,             \* what the agents run
  asking,          \* agents whose task list was asked for
  queue, call, inbox,
  msg,             \* registrations on their way
  raced,           \* history: what may leave an instance too many behind
  behind,          \* history: agents whose book no registration vouches for
  term, faults, regs, ops

relayVars == <<live, settled, saved, ldr, run, asking, queue, call, inbox, msg,
               raced, behind, term, faults, regs, ops>>

Agents == ToSet(AgentSeq)
Jobs == ToSet(JobSeq)
Remotes == Agents \ {Own}
NoBook == [j \in Jobs |-> 0]
Nothing == [a \in Agents |-> NoBook]

\* The leader (jobs, agents, placements, round_robin) and its relay (the
\* refusals, "ok" for none, and the calls that wait for the next flush).
NewLeader == [jobs |-> {}, reg |-> {}, book |-> Nothing, rr |-> 0,
              refused |-> [a \in Agents |-> [j \in Jobs |-> "ok"]], out |-> <<>>]

\* A call to an agent; term is history.
Remote(kind, a, j) == [kind |-> kind, to |-> a, job |-> j, term |-> term]
NoCall == [stage |-> "none"]
NoMsg == [sent |-> FALSE]

\* The value that Op makes of s, taking the elements of seq one by one.
Through(Op(_, _), s, seq) == CHOOSE r \in FoldLeft(LAMBDA S, x : {Op(t, x) : t \in S}, {s}, seq) : TRUE

Load(r, a) == FoldSet(LAMBDA j, n : n + r[a][j], 0, Jobs)
Total(b, j) == FoldSet(LAMBDA a, n : n + b[a][j], 0, Agents)
RegSeq(l) == SelectSeq(AgentSeq, LAMBDA a : a \in l.reg)

\* What a handler of the owner works on: the leader, and its own agent's tasks.
Work == [l |-> ldr, run |-> run]

-----------------------------------------------------------------------------
(* The transport *)

Said(s, reply) == [s |-> s, reply |-> reply]
Push(s, r) == [s EXCEPT !.l.out = Append(@, r)]

\* Local::run: the own agent answers itself, for another one the relay does.
LocalRun(s, j) ==
  IF Load(s.run, Own) < Cap[Own] THEN Said([s EXCEPT !.run[Own][j] = @ + 1], "ok") ELSE Said(s, "full")

\* Relay::run: a known refusal is the answer; else the call is queued and
\* taken to succeed.
RelayRun(s, a, j) ==
  IF s.l.refused[a][j] # "ok" THEN Said(s, s.l.refused[a][j])
  ELSE Said(Push(s, Remote("run", a, j)), "ok")

RunOn(s, a, j) == IF a = Own THEN LocalRun(s, j) ELSE RelayRun(s, a, j)

\* stop_job; delete_job also forgets the refusals of the job.
StopOn(s, a, j) ==
  IF a = Own THEN [s EXCEPT !.run[a][j] = 0] ELSE Push(s, Remote("stop", a, j))

DeleteOn(s, a, j) ==
  IF a = Own THEN [s EXCEPT !.run[a][j] = 0]
  ELSE Push([s EXCEPT !.l.refused = [b \in Agents |-> [@[b] EXCEPT ![j] = "ok"]]], Remote("delete", a, j))

-----------------------------------------------------------------------------
(* The leader *)

Prio(j) == CHOOSE i \in DOMAIN JobSeq : JobSeq[i] = j

\* find_victim: the least important job there that is less important than j.
Victims(l, a, j) == {v \in l.jobs : l.book[a][v] > 0 /\ Prio(v) > Prio(j)}
FindVictim(l, a, j) == CHOOSE v \in Victims(l, a, j) : \A w \in Victims(l, a, j) : Prio(w) <= Prio(v)

\* (slip: a remote placement is booked only with its answer)
BookedOwn(s, a, j) == IF a = Own THEN [s EXCEPT !.l.book[a][j] = @ + 1] ELSE s

Booked(s, a, j) == [s EXCEPT !.l.book[a][j] = @ + 1]

\* One agent of the first pass of place: asked until one accepts.
Try(j, p, a) ==
  IF p.done THEN p
  ELSE LET said == RunOn([p.s EXCEPT !.l.rr = @ + 1], a, j) IN
       CASE said.reply = "ok" -> [p EXCEPT !.s = Booked(said.s, a, j), !.done = TRUE]
         [] said.reply = "full" -> [p EXCEPT !.s = said.s, !.full = Append(@, a)]
         [] OTHER -> [p EXCEPT !.s = said.s]

\* One full agent of the second pass: a victim makes room.
Preempt(j, p, a) ==
  IF p.done \/ Victims(p.s.l, a, j) = {} THEN p
  ELSE LET v == FindVictim(p.s.l, a, j)
           s == [StopOn(p.s, a, v) EXCEPT !.l.book[a][v] = 0]
           said == RunOn(s, a, j)
       IN  IF said.reply = "ok" THEN [p EXCEPT !.s = Booked(said.s, a, j), !.done = TRUE]
           ELSE [p EXCEPT !.s = s]

\* place: every registered agent once, round robin, then the full ones again.
Place(s, j) ==
  LET n == Len(RegSeq(s.l))
      turn == [i \in 1..n |-> RegSeq(s.l)[((s.l.rr + i - 1) % n) + 1]]
      tried == Through(LAMBDA p, a : Try(j, p, a), [s |-> s, done |-> FALSE, full |-> <<>>], turn)
  IN  CHOOSE r \in {Through(LAMBDA p, a : Preempt(j, p, a), t, t.full) : t \in {tried}} : TRUE

\* dispatch_count: instance after instance, until one finds no place.
DispatchCount(s, j, n) ==
  Through(LAMBDA p, i : IF p.done THEN Place(p.s, j) ELSE p,
          [s |-> s, done |-> TRUE, full |-> <<>>], [i \in 1..n |-> i]).s

ReconcileJob(s, j) ==
  IF j \notin s.l.jobs \/ Total(s.l.book, j) >= Desired[j] THEN s
  ELSE DispatchCount(s, j, Desired[j] - Total(s.l.book, j))

Reconcile(s) ==
  IF s.l.jobs = {} \/ s.l.reg = {} THEN s
  ELSE Through(ReconcileJob, [s EXCEPT !.l.rr = 0], JobSeq)

\* trim_returning_agent_surplus.
Trim(s, a) ==
  Through(LAMBDA t, j :
             IF s.l.book[a][j] > 0 /\ j \in s.l.jobs /\ Total(s.l.book, j) - s.l.book[a][j] >= Desired[j]
             THEN [StopOn(t, a, j) EXCEPT !.l.book[a][j] = 0] ELSE t,
           s, JobSeq)

RemoveAgent(s, a) == [s EXCEPT !.l.reg = @ \ {a}, !.l.book[a] = NoBook]

RegisterAgent(s, a, placed) ==
  LET t == [s EXCEPT !.l.reg = @ \cup {a}, !.l.book[a] = placed]
  IN  IF settled THEN Reconcile(Trim(t, a)) ELSE t

\* (slip: the refusal is remembered and the placement stays in the book)
OnRanKept(s, a, j, reply) == Reconcile([s EXCEPT !.l.refused[a][j] = reply])

\* on_ran with a refusal: remembered, booked off, placed elsewhere.
OnRan(s, a, j, reply) ==
  Reconcile([s EXCEPT !.l.refused[a][j] = reply,
                      !.l.book[a][j] = IF @ > 0 THEN @ - 1 ELSE 0])

-----------------------------------------------------------------------------
(* After every handler the calls go to the dispatch queue.  What does not  *)
(* fit is unsent: a run counts as refused, a task list may be asked again. *)

Fitting(out) == IF Len(out) <= DISPATCH_Q - Len(queue) THEN Len(out) ELSE DISPATCH_Q - Len(queue)

Unasked(back) == {back[i].to : i \in {i \in DOMAIN back : back[i].kind = "tasks"}}

\* after_cluster, flush included.  The runs that a refusal places anew wait
\* for the next flush.
AfterCluster(done, asked, race) == \E s \in {done} :
  LET n == Fitting(s.l.out)
      back == SubSeq(s.l.out, n + 1, Len(s.l.out))
      unsent == SelectSeq(back, LAMBDA r : r.kind = "run")
      refusals == Through(LAMBDA t, r : OnRan(t, r.to, r.job, "unreachable"), [s EXCEPT !.l.out = <<>>], unsent)
  IN  /\ queue' = queue \o SubSeq(s.l.out, 1, n)
      /\ \E end \in {refusals} : ldr' = end.l /\ run' = end.run
      /\ asking' = asked \ Unasked(back)
      /\ raced' = (race \/ \E i \in DOMAIN back : back[i].kind \in {"stop", "delete"})

Same == UNCHANGED <<call, msg, behind, term, faults, regs>>

-----------------------------------------------------------------------------
(* The owner *)

\* finish_leading: a new leader with the jobs of the last term, and the own agent.
StartLeading ==
  /\ ~live /\ term < MaxTerms
  /\ live' = TRUE /\ settled' = FALSE /\ term' = term + 1
  /\ ldr' = [NewLeader EXCEPT !.jobs = saved, !.reg = {Own}, !.book[Own] = run[Own]]
  /\ asking' = {} /\ behind' = Remotes
  /\ UNCHANGED <<saved, run, queue, call, inbox, msg, raced, faults, regs, ops>>

\* stop_leading: the relay is cleared and the queue drained.
StopLeading ==
  /\ live
  /\ live' = FALSE /\ settled' = FALSE /\ saved' = ldr.jobs
  /\ ldr' = NewLeader /\ asking' = {} /\ queue' = <<>>
  /\ msg' = [a \in Agents |-> NoMsg] /\ raced' = TRUE
  /\ UNCHANGED <<run, call, inbox, behind, term, faults, regs, ops>>

\* A leader tick: the task lists are asked for, the refusals of agents that are
\* gone are dropped, the settle period may be over.
LeaderTick ==
  /\ live
  /\ settled' \in {settled, TRUE}
  /\ LET ask == SelectSeq(RegSeq(ldr), LAMBDA a : a # Own /\ a \notin asking)
         known == [a \in Agents |-> IF a \in ldr.reg THEN ldr.refused[a] ELSE NewLeader.refused[a]]
         s == [Work EXCEPT !.l.out = @ \o [i \in DOMAIN ask |-> Remote("tasks", ask[i], JobSeq[1])],
                           !.l.refused = known]
     IN  AfterCluster(IF settled' THEN Reconcile(s) ELSE s, asking \cup ToSet(ask), raced)
  /\ Same /\ UNCHANGED <<live, saved, inbox, ops>>

\* dispatch_job of a new job: during the settle period it is only kept.
DispatchJob(j) ==
  /\ live /\ j \notin ldr.jobs /\ ops < MaxOps
  /\ ops' = ops + 1
  /\ LET s == [Work EXCEPT !.l.jobs = @ \cup {j}]
     IN  AfterCluster(IF settled THEN DispatchCount(s, j, Desired[j]) ELSE s, asking, raced)
  /\ Same /\ UNCHANGED <<live, settled, saved, inbox>>

\* delete_job
LeaderDeletes(j) ==
  /\ live /\ j \in ldr.jobs /\ ops < MaxOps
  /\ ops' = ops + 1
  /\ LET held == SelectSeq(RegSeq(ldr), LAMBDA a : ldr.book[a][j] > 0)
         s == [Work EXCEPT !.l.jobs = @ \ {j},
                           !.l.book = [a \in Agents |-> [@[a] EXCEPT ![j] = 0]]]
     IN  AfterCluster(Reconcile(Through(LAMBDA t, a : DeleteOn(t, a, j), s, held)), asking, raced)
  /\ Same /\ UNCHANGED <<live, settled, saved, inbox>>

\* An agent registers: the counts are what it ran when it sent them.
Register(a) ==
  /\ live /\ msg[a].sent
  /\ msg' = [msg EXCEPT ![a] = NoMsg]
  /\ LET under == ToSet(ldr.out) \cup ToSet(queue) \cup (IF call = NoCall THEN {} ELSE {call.r})
     IN  /\ AfterCluster(RegisterAgent(Work, a, msg[a].placed), asking,
                         \/ raced \/ msg[a].changed
                         \/ \E r \in under : r.to = a /\ r.kind = "run"
                         \/ \E i \in DOMAIN inbox : inbox[i].to = a /\ inbox[i].kind = "run")
         /\ behind' = IF msg[a].changed \/ (\E r \in under : r.to = a /\ r.kind \in {"stop", "delete"})
                      THEN behind \cup {a} ELSE behind \ {a}
  /\ UNCHANGED <<live, settled, saved, call, inbox, term, faults, regs, ops>>

\* check_dead_agents: an agent that was not heard of.
Dead(a) ==
  /\ live /\ settled /\ a \in ldr.reg \ {Own} /\ faults < MaxFaults
  /\ faults' = faults + 1
  /\ AfterCluster(Reconcile(RemoveAgent(Work, a)), asking, TRUE)
  /\ UNCHANGED <<live, settled, saved, call, inbox, msg, behind, term, regs, ops>>

\* The refusal of an agent is forgotten after REFUSAL_TTL, or with the agent.
Expire(a, j) ==
  /\ ldr.refused[a][j] # "ok"
  /\ ldr' = [ldr EXCEPT !.refused[a][j] = "ok"]
  /\ Same /\ UNCHANGED <<live, settled, saved, run, asking, queue, inbox, raced, ops>>

\* on_mail: an answer of the dispatch task.
OnMail ==
  /\ inbox # <<>>
  /\ inbox' = Tail(inbox)
  /\ LET m == Head(inbox) IN
     CASE m.kind = "tasks" -> AfterCluster(Work, asking \ {m.to}, raced)
       [] m.kind = "run" /\ m.reply # "ok" /\ live -> AfterCluster(OnRan(Work, m.to, m.job, m.reply), asking, raced)
       [] m.kind = "run" /\ m.reply # "ok" /\ ~live ->
            AfterCluster([Work EXCEPT !.l.refused[m.to][m.job] = m.reply], asking, raced)
       [] OTHER -> AfterCluster(Work, asking, raced)
  /\ Same /\ UNCHANGED <<live, settled, saved, ops>>

-----------------------------------------------------------------------------
(* The dispatch task and the agents *)

CallBegin ==
  /\ call = NoCall /\ queue # <<>>
  /\ call' = [stage |-> "going", r |-> Head(queue), reply |-> "ok"]
  /\ queue' = Tail(queue)
  /\ UNCHANGED <<live, settled, saved, ldr, run, asking, inbox, msg, raced, behind, term, faults, regs, ops>>

\* What the agent does with a call: its tasks afterwards, and its answer.
Carry(r) ==
  CASE r.kind = "run" /\ Load(run, r.to) < Cap[r.to] -> [run |-> [run EXCEPT ![r.to][r.job] = @ + 1], reply |-> "ok"]
    [] r.kind = "run" /\ Load(run, r.to) >= Cap[r.to] -> [run |-> run, reply |-> "full"]
    [] r.kind \in {"stop", "delete"} -> [run |-> [run EXCEPT ![r.to][r.job] = 0], reply |-> "ok"]
    [] OTHER -> [run |-> run, reply |-> "ok"]

Changed(a) == msg' = [msg EXCEPT ![a] = IF @.sent /\ run'[a] # run[a] THEN [@ EXCEPT !.changed = TRUE] ELSE @]

\* The call is made: answered, carried out without an answer, or not made.
CallDone ==
  /\ call # NoCall /\ call.stage = "going"
  /\ LET did == Carry(call.r) IN
     \/ /\ run' = did.run
        /\ call' = [call EXCEPT !.stage = "done", !.reply = did.reply]
        /\ UNCHANGED <<faults, raced>>
     \/ /\ faults < MaxFaults /\ faults' = faults + 1
        /\ raced' = TRUE
        /\ run' \in {run, did.run}
        /\ call' = [call EXCEPT !.stage = "done", !.reply = "unreachable"]
  /\ Changed(call.r.to)
  /\ UNCHANGED <<live, settled, saved, ldr, asking, queue, inbox, behind, term, regs, ops>>

\* deliver: a stop has no answer, the others wait until the inbox has room.
Deliver ==
  /\ call # NoCall /\ call.stage = "done"
  /\ IF call.r.kind \in {"run", "tasks"}
     THEN /\ Len(inbox) < INBOX_Q
          /\ inbox' = Append(inbox, [kind |-> call.r.kind, to |-> call.r.to, job |-> call.r.job, reply |-> call.reply])
     ELSE UNCHANGED inbox
  /\ call' = NoCall
  /\ UNCHANGED <<live, settled, saved, ldr, run, asking, queue, msg, raced, behind, term, faults, regs, ops>>

\* An agent counts its tasks and sends them with its registration.
SendRegister(a) ==
  /\ live /\ a \in Remotes /\ ~msg[a].sent /\ regs < MaxRegs
  /\ regs' = regs + 1
  /\ msg' = [msg EXCEPT ![a] = [sent |-> TRUE, placed |-> run[a], changed |-> FALSE]]
  /\ UNCHANGED <<live, settled, saved, ldr, run, asking, queue, call, inbox, raced, behind, term, faults, ops>>

\* An agent on another node restarts and has lost its tasks.
AgentRestarts(a) ==
  /\ faults < MaxFaults /\ run[a] # NoBook
  /\ faults' = faults + 1
  /\ run' = [run EXCEPT ![a] = NoBook]
  /\ raced' = TRUE /\ behind' = behind \cup {a}
  /\ Changed(a)
  /\ UNCHANGED <<live, settled, saved, ldr, asking, queue, call, inbox, term, regs, ops>>

-----------------------------------------------------------------------------
RelayInit ==
  /\ live = FALSE /\ settled = FALSE /\ saved = {} /\ ldr = NewLeader
  /\ run = Nothing /\ asking = {} /\ queue = <<>> /\ call = NoCall /\ inbox = <<>>
  /\ msg = [a \in Agents |-> NoMsg]
  /\ raced = FALSE /\ behind = {} /\ term = 0 /\ faults = 0 /\ regs = 0 /\ ops = 0

RelayTask == CallBegin \/ CallDone \/ Deliver

RelayNext ==
  \/ StartLeading \/ StopLeading \/ LeaderTick \/ OnMail \/ RelayTask
  \/ \E j \in Jobs : DispatchJob(j) \/ LeaderDeletes(j)
  \/ \E a \in Remotes : Register(a) \/ Dead(a) \/ SendRegister(a) \/ AgentRestarts(a)
  \/ \E a \in Remotes, j \in Jobs : Expire(a, j)

\* The executor runs its tasks, time passes, an agent that registers arrives.
RelayFair ==
  /\ WF_relayVars(OnMail) /\ WF_relayVars(RelayTask) /\ WF_relayVars(LeaderTick /\ settled')
  /\ WF_relayVars(\E a \in Remotes : Register(a))
  /\ WF_relayVars(\E a \in Remotes, j \in Jobs : Expire(a, j))

RelaySpec == RelayInit /\ [][RelayNext]_relayVars /\ RelayFair
-----------------------------------------------------------------------------
(* Properties *)

RelayTypeOK ==
  /\ {live, settled, raced} \subseteq BOOLEAN /\ saved \subseteq Jobs /\ behind \subseteq Agents
  /\ ldr.jobs \subseteq Jobs /\ ldr.reg \subseteq Agents /\ ldr.rr \in Nat
  /\ ldr.book \in [Agents -> [Jobs -> Nat]] /\ run \in [Agents -> [Jobs -> Nat]]
  /\ ldr.refused \in [Agents -> [Jobs -> {"ok", "full", "unreachable"}]]
  /\ Len(queue) <= DISPATCH_Q /\ Len(inbox) <= INBOX_Q
  /\ \A a \in Agents : Load(run, a) <= Cap[a]

\* What is still to be carried out at the agents, in order.
Ahead == (IF call # NoCall /\ call.stage = "going" THEN <<call.r>> ELSE <<>>) \o queue \o ldr.out

\* The instances of j at a once all that is carried out, if every run succeeds.
Expected(a, j) ==
  FoldLeft(LAMBDA n, r : CASE r.to # a \/ r.job # j -> n
                           [] r.to = a /\ r.job = j /\ r.kind = "run" -> n + 1
                           [] r.to = a /\ r.job = j /\ r.kind \in {"stop", "delete"} -> 0
                           [] OTHER -> n, run[a][j], Ahead)

\* The refusals of j at a that the owner has still to book off.
Refusals(a, j) ==
  Cardinality({i \in DOMAIN inbox : inbox[i].kind = "run" /\ inbox[i].to = a /\ inbox[i].job = j /\ inbox[i].reply # "ok"})
  + IF call # NoCall /\ call.stage = "done" /\ call.r.kind = "run" /\ call.r.to = a /\ call.r.job = j /\ call.reply # "ok"
    THEN 1 ELSE 0

\* The leader believes in no instance that neither runs, nor is on its way,
\* nor is about to be booked off: an optimistic placement that fails, whether
\* refused, lost or dropped from a full queue, is never left in the book.
BookIsBacked ==
  \A a \in ldr.reg \ behind, j \in Jobs : ldr.book[a][j] <= Expected(a, j) + Refusals(a, j)

\* The instances of j at a that no stop is on its way for.
Staying(a, j) ==
  IF \E i \in DOMAIN Ahead : Ahead[i].kind \in {"stop", "delete"} /\ Ahead[i].to = a /\ Ahead[i].job = j
  THEN 0 ELSE run[a][j]

\* Placing optimistically leaves no instance too many, unless an answer was
\* lost, a stop did not fit the queue, or a registration, a death or the end of the
\* term came between a call and its answer.
AtMostDesired ==
  raced \/ \A j \in Jobs : FoldSet(LAMBDA a, n : n + Staying(a, j), 0, Agents) <= Desired[j]

\* An agent of which the task list counts as asked for is being asked.
AskingIsUnderWay ==
  \A a \in asking :
    \/ \E i \in DOMAIN Ahead : Ahead[i].kind = "tasks" /\ Ahead[i].to = a
    \/ call # NoCall /\ call.r.kind = "tasks" /\ call.r.to = a
    \/ \E i \in DOMAIN inbox : inbox[i].kind = "tasks" /\ inbox[i].to = a

\* The leader's picture is right: every agent is registered, nothing crossed its last
\* registration, and no instance runs that the book does not have or that is one too many
\* (its answer or its stop was lost).  What is wrong in it only a registration repairs.
RightPicture ==
  /\ live /\ ldr.reg = Agents /\ behind = {}
  /\ \A a \in Agents, j \in Jobs : run[a][j] <= ldr.book[a][j]
  /\ \A j \in Jobs : Total(run, j) <= Desired[j]

\* While the leader's picture is right, every job has its instances in the end: whatever
\* was lost, refused or left by an earlier term before, and with agents that fill up.  Not
\* if the queue fills up again and again: a tick puts a question for every agent before its
\* runs, and the answer to a question of an earlier term lets one more of them go round,
\* so a run may then be turned back for ever (relay.rs refresh, cluster.rs flush).
PlacedAtLast ==
  []<>(\/ ~RightPicture \/ Len(queue) = DISPATCH_Q
       \/ \A j \in ldr.jobs : Total(run, j) >= Desired[j])

\* What holds of the optimistic book, the queue and the inbox at any time, with
\* answers that are lost, late or of an earlier term.
RelayInv ==
  /\ RelayTypeOK
  /\ BookIsBacked
  /\ AtMostDesired
  /\ AskingIsUnderWay
=============================================================================
