-------------------------------- MODULE Api --------------------------------
(***************************************************************************)
(* The way of a request through the HTTP interface.  A client asks the     *)
(* agent port of any node, or the leader port of one.  The agent port      *)
(* answers what is the node's own and passes the rest on, with the         *)
(* client's signature, to the leader that the node believes in; a stream   *)
(* is passed on piece by piece, the rest as a whole.  The leader does the  *)
(* operation, or calls agents in its turn: one for its capacity or its     *)
(* logs, or all of them for their tasks, within a budget of time.  On the  *)
(* way a call can be cut, or an owner can be late: then the client gets a  *)
(* 502 or a 504 and the operation may still be done, before or after it.   *)
(* A client asks again after a 5xx.                                        *)
(*                                                                         *)
(* A path is the sequence of its segments; a name is a sequence as well,   *)
(* for nothing refuses a job with a slash in its name.  A query is the set *)
(* of its parameters.  What an operation does to placements is in module   *)
(* Leader, what it does to tasks in Agent.                                 *)
(***************************************************************************)
EXTENDS Integers, Sequences, FiniteSets, SequencesExt

CONSTANTS
  ApiNodes,       \* the nodes; each is an agent as well, of the same name
  PROXY_MAX_BODY, \* largest body that a node passes on
  MAX_BODY_BYTES, \* largest body that a signature covers
  TASKS_EACH,     \* time for one agent's tasks
  TASKS_BUDGET,   \* time for all of them
  NameOrder,      \* the jobs' names, in their alphabetical order
  Reread,         \* segments that change when they are read a second time
  Setups,         \* what a behaviour starts from: key, request, port, cluster
  MaxTries,       \* bound: how often a client asks
  MaxApiCuts         \* bound: calls cut and leaders changed

VARIABLES
  setup,   \* the cluster's key and the client's request
  clus,    \* who leads, and what the leader keeps: jobs, agents, whether it settled
  views,   \* views[n]: the leader that node n knows
  live,    \* the nodes whose agent answers
  leg,     \* where the request is
  stray,   \* requests that nobody waits for any more
  tries,
  did,     \* operations done
  apiCuts

apiVars == <<setup, clus, views, live, leg, stray, tries, did, apiCuts>>

-----------------------------------------------------------------------------
(* Requests, signatures and answers *)

NoNode == "nobody"
NoKey == "no key"
NoName == <<>>
NoPriority == -99

\* The body: what it holds (of a job, an agent or a note), and its size.
Body(kind, name, at, prio, size) ==
  [kind |-> kind, name |-> name, at |-> at, prio |-> prio, size |-> size]
NoBody == Body("none", NoName, NoNode, NoPriority, 0)

Mac(key, method, path, body) == [key |-> key, method |-> method, path |-> path, body |-> body]
NoMac == Mac(NoKey, "", <<>>, NoBody)

PathOf(url) == url.path

\* sign_call: without a key there is no signature.
SignCall(key, method, url, body) ==
  IF key = NoKey THEN NoMac ELSE Mac(key, method, PathOf(url), body)

HttpRequest(method, path, query, body, sig) ==
  [method |-> method, path |-> path, query |-> query, body |-> body, sig |-> sig]

\* verify: 0, or the status of the rejection.  A MAC that fits was made with the
\* key over the same text.
Verify(key, r) ==
  IF key = NoKey THEN 0 ELSE
  IF r.body.size > MAX_BODY_BYTES THEN 413 ELSE
  IF r.sig = Mac(key, r.method, r.path, r.body) THEN 0 ELSE 401

\* What a handler returns: an answer, or what the adapter must still do for it.
Plain(status) == [kind |-> "plain", status |-> status]

Parsed(r) == r.body.kind \notin {"none", "garbage"}

Under(path, prefix) == Len(path) > Len(prefix) /\ IsPrefix(prefix, path)
After(path, prefix) == SubSeq(path, Len(prefix) + 1, Len(path))

\* A name that a wildcard caught: the empty segment of a trailing slash is no name.
Caught(segments) == IF segments = <<"">> THEN NoName ELSE segments

-----------------------------------------------------------------------------
(* The agent port *)

NodeRoute(p) ==
  CASE p = <<"health">> -> "health"
    [] p = <<"leader">> -> "leader"
    [] \/ Len(p) = 2 /\ p[1] = "v1" /\ p[2] \in {"agents", "jobs", "status", "tasks", "events"}
       \/ Under(p, <<"v1", "agents">>) \/ Under(p, <<"v1", "jobs">>) -> "proxy"
    [] Under(p, <<"logs">>) -> "logs"
    [] p = <<"capacity">> -> "capacity"
    [] p = <<"tasks">> -> "tasks"
    [] p = <<"run">> -> "run"
    [] p = <<"flip">> -> "flip"
    [] p = <<"restart">> -> "restart"
    [] Under(p, <<"delete">>) -> "delete"
    [] Under(p, <<"stop">>) -> "stop"
    [] Under(p, <<"stop-task">>) -> "stop-task"
    [] OTHER -> "none"

\* What the node passes on piece by piece, by the path alone.
IsStreamPath(p) ==
  \/ p = <<"v1", "events">>
  \/ Under(p, <<"v1", "agents">>) /\ \E i \in 4..(Len(p) - 1) : p[i] = "logs"

\* proxy: to the leader that this node believes in.
ProxyTo(leader, r) ==
  IF leader = NoNode THEN Plain(503) ELSE
  IF r.body.size > PROXY_MAX_BODY THEN Plain(413) ELSE
  [kind |-> "proxy", leader |-> leader, stream |-> IsStreamPath(r.path)]

\* The outcomes of Agent::run that its answer tells apart.
RunStatus(outcome) ==
  CASE outcome = "accepted" -> 202
    [] outcome = "affinity" -> 406
    [] outcome = "full" -> 503
    [] OTHER -> 500

\* An operation on the agent, with its answer.
AgentOp(op, name, status) == [kind |-> "op", op |-> op, name |-> name, status |-> status]

\* flip and restart, on a node that can.  A flip takes a url and a sum ("image")
\* and nothing else; a restart may come without ("none") or with more.
KernelOp(r, flips, op) ==
  LET fits == r.body.kind \in {"image"} \cup (IF op = "restart" THEN {"none", "image and more"} ELSE {}) IN
  IF r.method # "POST" THEN Plain(405) ELSE
  IF ~flips THEN Plain(501) ELSE
  IF ~fits THEN Plain(400) ELSE AgentOp(op, NoName, 202)

RunJob(r, outcome) ==
  IF r.method # "POST" THEN Plain(405) ELSE
  IF ~Parsed(r) THEN Plain(400) ELSE AgentOp("run", r.body.name, RunStatus(outcome))

NamedOp(r, method, op, name, status) ==
  IF r.method # method THEN Plain(405) ELSE
  IF name = NoName THEN Plain(400) ELSE AgentOp(op, name, status)

\* logs: a task and one of two streams, as they are or followed (is_follow).
\* Whether the runner knows the task is the adapter's question: known.
Logs(rest, query, known) ==
  IF Len(rest) # 2 \/ rest[2] \notin {"stdout", "stderr"} THEN Plain(400) ELSE
  IF ~known THEN Plain(404) ELSE
  IF "follow=1" \in query THEN [kind |-> "log", status |-> 200] ELSE Plain(200)

\* What the node says of itself: the leader it knows, its capacity, its tasks.
OwnState == Plain(200)

\* NodeApi::route with the effects that need no other node: a preflight passes,
\* then the signature (but for two routes), then the route.
NodeHandle(s, leader, r, outcome, known) ==
  LET route == NodeRoute(r.path) IN
  IF r.method = "OPTIONS" THEN Plain(200) ELSE
  IF route \notin {"health", "leader"} /\ Verify(s.key, r) # 0 THEN Plain(Verify(s.key, r)) ELSE
  CASE route = "none" -> Plain(404)
    [] route = "health" -> Plain(200)
    [] route \in {"leader", "capacity", "tasks"} -> OwnState
    [] route = "proxy" -> ProxyTo(leader, r)
    [] route = "logs" -> Logs(After(r.path, <<"logs">>), r.query, known)
    [] route = "run" -> RunJob(r, outcome)
    [] route \in {"flip", "restart"} -> KernelOp(r, s.flips, route)
    [] route = "delete" -> NamedOp(r, "DELETE", "delete", Caught(After(r.path, <<"delete">>)), 200)
    [] route = "stop" -> NamedOp(r, "POST", "stop", Caught(After(r.path, <<"stop">>)), 200)
    [] route = "stop-task" -> NamedOp(r, "POST", "stop-task", Caught(After(r.path, <<"stop-task">>)),
                                      IF known THEN 200 ELSE 404)

-----------------------------------------------------------------------------
(* The jobs' order *)

Rank(name) == CHOOSE i \in DOMAIN NameOrder : NameOrder[i] = name

PriorityOrder(jobs) ==
  SetToSortSeq(DOMAIN jobs, LAMBDA a, b : \/ jobs[a] < jobs[b]
                                          \/ jobs[a] = jobs[b] /\ Rank(a) < Rank(b))

Renumbered(order) ==
  [name \in Range(order) |-> (CHOOSE i \in DOMAIN order : order[i] = name) - 1]

WithJob(jobs, name, prio) ==
  [k \in DOMAIN jobs \cup {name} |-> IF k = name THEN prio ELSE jobs[k]]

\* patch_job_priority: the job goes to its place in the order of the others,
\* and all are numbered again.
Patched(jobs, name, target) ==
  LET order == SelectSeq(PriorityOrder(jobs), LAMBDA n : n # name)
      wanted == IF target < 0 THEN 0 ELSE target
      at == IF wanted > Len(order) THEN Len(order) ELSE wanted
  IN Renumbered(InsertAt(order, at + 1, name))

\* update_job: without a priority of its own the job keeps the old one; then
\* normalize_priorities.
Updated(jobs, name, prio) ==
  Renumbered(PriorityOrder(WithJob(jobs, name, IF prio = NoPriority THEN jobs[name] ELSE prio)))

\* reconcile_jobs, as far as it shows in the jobs: with an agent to place them
\* on, they are numbered again.
Reconciled(c) ==
  IF DOMAIN c.jobs = {} \/ DOMAIN c.agents = {} THEN c
  ELSE [c EXCEPT !.jobs = Renumbered(PriorityOrder(@))]

-----------------------------------------------------------------------------
(* The leader port *)

LeaderRoute(m, p) ==
  CASE p = <<"health">> -> "health"
    [] m = "GET" /\ p = <<"v1", "tasks">> -> "tasks"
    [] m = "GET" /\ Under(p, <<"v1", "jobs">>) /\ Last(p) = "status" -> "job status"
    [] m = "GET" /\ p = <<"v1", "events">> -> "events"
    [] m = "GET" /\ Len(p) = 4 /\ Under(p, <<"v1", "agents">>) /\ p[4] = "capacity" -> "agent capacity"
    [] m = "GET" /\ Len(p) > 4 /\ Under(p, <<"v1", "agents">>) /\ p[4] = "logs" -> "agent logs"
    [] m = "POST" /\ p = <<"v1", "jobs">> -> "apply"
    [] m = "GET" /\ p \in {<<"v1", "agents">>, <<"v1", "jobs">>, <<"v1", "status">>} -> "lists"
    [] m = "POST" /\ p = <<"v1", "agents">> -> "register"
    [] m = "POST" /\ p = <<"v1", "heartbeat">> -> "heartbeat"
    [] m = "POST" /\ p = <<"v1", "notify">> -> "notify"
    [] m = "DELETE" /\ Under(p, <<"v1", "agents">>) -> "delete agent"
    [] m = "DELETE" /\ Under(p, <<"v1", "jobs">>) -> "delete job"
    [] m = "PATCH" /\ Under(p, <<"v1", "jobs">>) /\ Last(p) = "priority" -> "priority"
    [] OTHER -> "none"

\* What a leader's handler returns: the answer, the cluster after it, and the
\* name it acted on.
Says(reply, c) == [reply |-> reply, clus |-> c, op |-> "none", name |-> NoName]
Acts(op, name, status, c) == [reply |-> Plain(status), clus |-> c, op |-> op, name |-> name]

\* /v1/tasks asks every agent, a job's status those that hold it (here: some).
Round(asks) == [kind |-> "round", asks |-> asks]

EndpointsOf(c, ids) ==
  LET s == SetToSeq(ids) IN [i \in DOMAIN s |-> c.agents[s[i]]]

Tasks(c) == Says(Round(EndpointsOf(c, DOMAIN c.agents)), c)

\* The agents, the jobs and the status as the leader has them.
Lists(c) == Says(Plain(200), c)

JobStatus(c, p, holders) ==
  LET name == SubSeq(p, 3, Len(p) - 1) IN
  IF Len(name) # 1 \/ name = <<"">> THEN Says(Plain(400), c) ELSE
  IF name \notin DOMAIN c.jobs \/ holders = {} THEN Says(Plain(200), c)
  ELSE Says(Round(EndpointsOf(c, holders)), c)

\* agent_route: the log of an agent is followed unless the query says otherwise.
Followed(query) ==
  IF query \cap {"follow=0", "follow=1"} = {} THEN query \cup {"follow=1"} ELSE query

AgentRoute(c, r, id, path, stream) ==
  IF id \notin DOMAIN c.agents THEN Says(Plain(404), c)
  ELSE Says([kind |-> "call", to |-> c.agents[id], stream |-> stream,
             url |-> [path |-> path, query |-> IF stream THEN Followed(r.query) ELSE {}]], c)

AgentLogs(c, r) ==
  LET id == r.path[3]
      rest == SubSeq(r.path, 5, Len(r.path))
  IN
  IF Len(rest) # 2 \/ id = "" \/ rest[1] = "" \/ rest[2] \notin {"stdout", "stderr"}
    THEN Says(Plain(400), c)
    ELSE AgentRoute(c, r, id, <<"logs">> \o rest, TRUE)

\* register_agent: one endpoint per id; a leader that settled reconciles.
MayRegister(c, id, endpoint) == id \in DOMAIN c.agents => c.agents[id] = endpoint

WithAgent(c, id, endpoint) ==
  [c EXCEPT !.agents = [a \in DOMAIN @ \cup {id} |-> IF a = id THEN endpoint ELSE @[a]]]

Register(c, r) ==
  IF ~Parsed(r) \/ r.body.name = NoName \/ r.body.at = NoNode THEN Says(Plain(400), c) ELSE
  IF ~MayRegister(c, r.body.name[1], r.body.at) THEN Says(Plain(409), c)
  ELSE LET with == WithAgent(c, r.body.name[1], r.body.at)
       IN  Acts("register", r.body.name, 200, IF c.settled THEN Reconciled(with) ELSE with)

Heartbeat(c, r) ==
  IF ~Parsed(r) \/ r.body.name = NoName \/ r.body.at = NoNode THEN Says(Plain(400), c) ELSE
  IF r.body.name[1] \notin DOMAIN c.agents THEN Says(Plain(404), c)
  ELSE Acts("heartbeat", r.body.name, 200, c)

\* notify: whatever it says, it is passed to whoever watches; a hand-back is
\* booked off first.
Notify(c, r) ==
  Acts(IF r.body.kind = "handback" THEN "hand back" ELSE "notify",
       IF Parsed(r) THEN r.body.name ELSE NoName, 204,
       IF r.body.kind = "handback" THEN Reconciled(c) ELSE c)

\* admit and check_rollable: what apply refuses of a job.
Admitted(r) == r.body.kind = "job" /\ r.body.name # NoName

\* (slip: a new job starts at the back, whatever it asked for)
UpsertFromTheBack(c, r, fits, kept) ==
  LET name == r.body.name
      prio == r.body.prio
      stored == WithJob(c.jobs, name, Cardinality(DOMAIN c.jobs))
  IN
  IF name \in DOMAIN c.jobs
    THEN Acts("apply", name, IF fits THEN 200 ELSE 500, [c EXCEPT !.jobs = Updated(@, name, prio)])
    ELSE Acts("apply", name, 201, [c EXCEPT !.jobs = IF fits /\ prio # NoPriority
                                                       THEN Patched(stored, name, prio) ELSE stored])

\* upsert: a job that exists is updated, a new one is dispatched; only after a
\* dispatch that found room, or that a leader put off until it settles, it goes
\* to the place it asked for.  An update that fails may have stored the job or not.
Upsert(c, r, fits, kept) ==
  LET name == r.body.name
      prio == r.body.prio
      stored == WithJob(c.jobs, name, IF prio = NoPriority THEN Cardinality(DOMAIN c.jobs) ELSE prio)
  IN
  IF name \in DOMAIN c.jobs
    THEN IF fits THEN Acts("apply", name, 200, [c EXCEPT !.jobs = Updated(@, name, prio)])
         ELSE Acts("apply", name, 500, IF kept THEN [c EXCEPT !.jobs = Updated(@, name, prio)] ELSE c)
    ELSE Acts("apply", name, 201,
              [c EXCEPT !.jobs = IF (c.settled /\ ~fits) \/ prio = NoPriority THEN stored
                                 ELSE Patched(stored, name, prio)])

Apply(c, r, fits, kept) == IF Admitted(r) THEN Upsert(c, r, fits, kept) ELSE Says(Plain(400), c)

DeleteAgent(c, r) ==
  LET id == r.path[3] IN
  IF Caught(After(r.path, <<"v1", "agents">>)) = NoName THEN Says(Plain(400), c)
  ELSE Acts("delete agent", After(r.path, <<"v1", "agents">>), 204,
            Reconciled([c EXCEPT !.agents =
                          [a \in DOMAIN @ \ (IF Len(r.path) = 3 THEN {id} ELSE {}) |-> @[a]]]))

DeleteJob(c, r) ==
  LET name == Caught(After(r.path, <<"v1", "jobs">>)) IN
  IF name = NoName THEN Says(Plain(400), c)
  ELSE Acts("delete job", name, 204,
            IF name \notin DOMAIN c.jobs THEN c
            ELSE Reconciled([c EXCEPT !.jobs = [n \in DOMAIN @ \ {name} |-> @[n]]]))

\* trim_end_matches: every "/priority" at the end goes.
TrimmedName(p) ==
  LET s == After(p, <<"v1", "jobs">>)
      n == CHOOSE n \in 1..Len(s) : /\ \A i \in (n + 1)..Len(s) : s[i] = "priority"
                                    /\ n = 1 \/ s[n] # "priority"
  IN SubSeq(s, 1, n)

PatchPriority(c, r) ==
  LET name == TrimmedName(r.path) IN
  IF Len(name) # 1 \/ name = <<"">> \/ ~Parsed(r) THEN Says(Plain(400), c) ELSE
  IF name \notin DOMAIN c.jobs THEN Says(Plain(404), c)
  ELSE Acts("priority", name, 204, [c EXCEPT !.jobs = Patched(@, name, r.body.prio)])

\* LeaderApi::handle.
LeaderHandle(s, c, r, fits, kept, holders) ==
  LET route == LeaderRoute(r.method, r.path) IN
  IF route # "health" /\ Verify(s.key, r) # 0 THEN Says(Plain(Verify(s.key, r)), c) ELSE
  CASE route = "none" -> Says(Plain(404), c)
    [] route = "health" -> Says(Plain(200), c)
    [] route = "lists" -> Lists(c)
    [] route = "tasks" -> Tasks(c)
    [] route = "job status" -> JobStatus(c, r.path, holders)
    [] route = "events" -> Says([kind |-> "stream"], c)
    [] route = "agent capacity" -> AgentRoute(c, r, r.path[3], <<"capacity">>, FALSE)
    [] route = "agent logs" -> AgentLogs(c, r)
    [] route = "apply" -> Apply(c, r, fits, kept)
    [] route = "register" -> Register(c, r)
    [] route = "heartbeat" -> Heartbeat(c, r)
    [] route = "notify" -> Notify(c, r)
    [] route = "delete agent" -> DeleteAgent(c, r)
    [] route = "delete job" -> DeleteJob(c, r)
    [] route = "priority" -> PatchPriority(c, r)

-----------------------------------------------------------------------------
(* The way of one request *)

ApiStarts ==
  /\ clus = setup.clus
  /\ views = setup.views
  /\ live = setup.live
  /\ leg = [at |-> "client"]
  /\ stray = {}
  /\ tries = 0
  /\ did = {}
  /\ apiCuts = 0

ApiInit == setup \in Setups /\ ApiStarts

\* The client asks a node, at the port it knows of it.
SendRequest(n) ==
  /\ leg.at = "client"
  /\ leg' = [at |-> setup.port, node |-> n, req |-> setup.req, via |-> "direct"]
  /\ tries' = tries + 1
  /\ UNCHANGED <<setup, clus, views, live, stray, did, apiCuts>>

\* The answer reaches the client.  An answer without an end that a node waits
\* for as a whole never does: that wait ends in a 502.
AnswerWith(kind, status, extra) ==
  LET hung == kind = "stream" /\ leg.via = "whole" IN
  leg' = [at |-> "answered", via |-> leg.via, behind |-> leg.via # "direct" \/ leg.at = "call",
          kind |-> IF hung THEN "hung" ELSE kind, status |-> IF hung THEN 502 ELSE status,
          round |-> extra]

NoRound == [asked |-> <<>>, told |-> <<>>, spent |-> 0]

Did(op, name, n, try) == did' = did \cup {[op |-> op, name |-> name, by |-> n, try |-> try]}

\* admit: too many streams are open.
NoRoom == AnswerWith("plain", 503, NoRound)

\* leader_handle and leader_reply at node n.
LeaderReply(n, r) ==
  \E fits, kept \in BOOLEAN, holders \in SUBSET DOMAIN clus.agents :
    LET h == LeaderHandle(setup, clus, r, fits, kept, holders)
        reply == h.reply
    IN
    /\ clus' = IF clus.leads = n THEN h.clus ELSE clus
    /\ IF clus.leads = n /\ h.op # "none" THEN Did(h.op, h.name, n, tries) ELSE UNCHANGED did
    /\ IF clus.leads # n THEN AnswerWith("plain", 503, NoRound) ELSE
       CASE reply.kind = "plain" -> AnswerWith("plain", reply.status, NoRound)
         [] reply.kind = "stream" -> AnswerWith("stream", 200, NoRound) \/ NoRoom
         [] reply.kind = "round" ->
              leg' = [at |-> "round", via |-> leg.via, asks |-> reply.asks,
                      asked |-> reply.asks, told |-> <<>>, spent |-> 0]
         [] reply.kind = "call" ->
              \/ leg' = [at |-> "call", via |-> leg.via, to |-> reply.to, url |-> reply.url,
                         stream |-> reply.stream]
              \/ reply.stream /\ NoRoom

\* A decoded path is put into a URL as it is and read again: an escape that was
\* left in it is decoded, and from the first question mark on it is the query.
ReadAgain(r) ==
  LET odd(i) == r.path[i] \in DOMAIN Reread
      cuts == {i \in DOMAIN r.path : odd(i) /\ Reread[r.path[i]].cut}
      end == IF cuts = {} THEN Len(r.path) ELSE Min(cuts)
  IN  [r EXCEPT !.path = [i \in 1..end |-> IF odd(i) THEN Reread[r.path[i]].as ELSE r.path[i]],
                !.query = IF cuts = {} THEN @ ELSE @ \cup {"cut off"}]

\* What the leader gets of a request that a node passes on: its path read again,
\* and the rest as it came; a stream is asked for with a GET without a body.
Forwarded(r, stream) ==
  IF stream THEN [ReadAgain(r) EXCEPT !.method = "GET", !.body = NoBody] ELSE ReadAgain(r)

\* The node's owner handles a request to its agent port.  A node that leads
\* answers for the leader itself.
AtAgentPort ==
  /\ leg.at = "agent port"
  /\ \E outcome \in {"accepted", "affinity", "full", "error"}, known \in BOOLEAN :
       LET n == leg.node
           reply == NodeHandle(setup, views[n], leg.req, outcome, known)
       IN
       CASE reply.kind = "plain" ->
              AnswerWith("plain", reply.status, NoRound) /\ UNCHANGED <<clus, did>>
         [] reply.kind = "log" ->
              (AnswerWith("stream", 200, NoRound) \/ NoRoom) /\ UNCHANGED <<clus, did>>
         [] reply.kind = "op" ->
              /\ AnswerWith("plain", reply.status, NoRound)
              /\ IF reply.status < 300 THEN Did(reply.op, reply.name, n, tries) ELSE UNCHANGED did
              /\ UNCHANGED clus
         [] reply.kind = "proxy" ->
              IF reply.leader = n /\ clus.leads = n THEN LeaderReply(n, leg.req)
              ELSE /\ \/ leg' = [at |-> "leader port", node |-> reply.leader,
                                 req |-> Forwarded(leg.req, reply.stream),
                                 via |-> IF reply.stream THEN "stream" ELSE "whole"]
                      \/ reply.stream /\ NoRoom
                   /\ UNCHANGED <<clus, did>>
  /\ UNCHANGED <<setup, views, live, stray, tries, apiCuts>>

AtLeaderPort ==
  /\ leg.at = "leader port"
  /\ LeaderReply(leg.node, leg.req)
  /\ UNCHANGED <<setup, views, live, stray, tries, apiCuts>>

\* The leader signs its own call to an agent; what the agent answers it.
CallAgent(a, url) ==
  LET r == HttpRequest("GET", url.path, url.query, NoBody, SignCall(setup.key, "GET", url, NoBody))
  IN {NodeHandle(setup, views[a], r, "accepted", known) : known \in BOOLEAN}

AgentCall ==
  /\ leg.at = "call"
  /\ IF leg.to \notin live THEN AnswerWith("plain", 502, NoRound)
     ELSE \E reply \in CallAgent(leg.to, leg.url) :
            AnswerWith(IF reply.kind = "log" THEN "stream" ELSE "plain", reply.status, NoRound)
  /\ UNCHANGED <<setup, clus, views, live, stray, tries, did, apiCuts>>

\* The time that the next agent of a round gets.
Share(spent) ==
  LET left == TASKS_BUDGET - spent IN IF left < TASKS_EACH THEN left ELSE TASKS_EACH

\* agent_tasks: an agent that answers takes some of its time, one that does not
\* takes all of it, or none when it refuses; without time it is not asked.
AskTasks ==
  /\ leg.at = "round" /\ leg.asks # <<>>
  /\ LET a == Head(leg.asks)
         share == Share(leg.spent)
         Heard(how, time) == leg' = [leg EXCEPT !.asks = Tail(@), !.told = Append(@, how),
                                                !.spent = @ + time]
     IN
     \/ share = 0 /\ Heard("no time", 0)
     \/ share > 0 /\ a \notin live /\ (Heard("silent", share) \/ Heard("silent", 0))
     \/ share > 0 /\ a \in live
        /\ \/ Heard("silent", share)
           \/ \E time \in 0..(share - 1), reply \in CallAgent(a, [path |-> <<"tasks">>, query |-> {}]) :
                Heard(IF reply.status = 200 THEN "tasks" ELSE "refused", time)
  /\ UNCHANGED <<setup, clus, views, live, stray, tries, did, apiCuts>>

\* The answer to a round names every agent that was asked, with its tasks or
\* as unreachable.
RoundReply(l) == [asked |-> l.asked, told |-> l.told, spent |-> l.spent]

RoundEnds ==
  /\ leg.at = "round" /\ leg.asks = <<>>
  /\ AnswerWith("plain", 200, RoundReply(leg))
  /\ UNCHANGED <<setup, clus, views, live, stray, tries, did, apiCuts>>

Stray == [port |-> leg.at, node |-> leg.node, req |-> leg.req, try |-> tries]

\* The wait of the node that passed the request on ends without an answer.
\* The request may still reach the leader, or may be lost with it.
CutOff ==
  /\ leg.at \in {"leader port", "round", "call"} /\ leg.via # "direct"
  /\ apiCuts < MaxApiCuts
  /\ apiCuts' = apiCuts + 1
  /\ AnswerWith("plain", 502, NoRound)
  /\ stray' \in {stray, stray \cup (IF leg.at = "leader port"
                                      THEN {Stray} ELSE {})}
  /\ UNCHANGED <<setup, clus, views, live, tries, did>>

\* ask: the owner of the node does not answer in time, and finds the request in
\* its queue all the same.
OwnerLate ==
  /\ leg.at \in {"agent port", "leader port"}
  /\ apiCuts < MaxApiCuts
  /\ apiCuts' = apiCuts + 1
  /\ AnswerWith("plain", 504, NoRound)
  /\ stray' = stray \cup {Stray}
  /\ UNCHANGED <<setup, clus, views, live, tries, did>>

\* A request nobody waits for is handled; its answer goes nowhere, and nobody
\* passes it on.
HandleStray(x) ==
  /\ stray' = stray \ {x}
  /\ \E outcome \in {"accepted", "error"}, fits, kept \in BOOLEAN :
       LET reply == NodeHandle(setup, views[x.node], x.req, outcome, TRUE)
           leads == /\ clus.leads = x.node
                    /\ x.port = "agent port" => reply.kind = "proxy" /\ reply.leader = x.node
           h == LeaderHandle(setup, clus, x.req, fits, kept, {})
       IN
       /\ clus' = IF leads THEN h.clus ELSE clus
       /\ CASE leads /\ h.op # "none" -> Did(h.op, h.name, x.node, x.try)
            [] x.port = "agent port" /\ reply.kind = "op" /\ reply.status < 300 ->
                 Did(reply.op, reply.name, x.node, x.try)
            [] OTHER -> UNCHANGED did
  /\ UNCHANGED <<setup, views, live, leg, tries, apiCuts>>

\* The leader's tick: it settles, and reconciles now and then.
LeaderReconciles ==
  /\ clus.leads # NoNode /\ leg.at # "answered"
  /\ clus' = [Reconciled(clus) EXCEPT !.settled = TRUE]
  /\ clus' # clus
  /\ UNCHANGED <<setup, views, live, leg, stray, tries, did, apiCuts>>

\* Another node leads: it has the jobs, no agents yet, and has to settle.
Elected(n) ==
  /\ apiCuts < MaxApiCuts /\ clus.leads # n
  /\ leg.at # "answered"
  /\ apiCuts' = apiCuts + 1
  /\ clus' = [clus EXCEPT !.leads = n, !.agents = <<>>, !.settled = FALSE]
  /\ views' = IF n = NoNode THEN views ELSE [views EXCEPT ![n] = n]
  /\ UNCHANGED <<setup, live, leg, stray, tries, did>>

\* A node learns who leads.
LearnLeader(n) ==
  /\ leg.at # "answered" /\ clus.leads # NoNode /\ views[n] # clus.leads
  /\ views' = [views EXCEPT ![n] = clus.leads]
  /\ UNCHANGED <<setup, clus, live, leg, stray, tries, did, apiCuts>>

\* A client asks again after a 5xx.
AskAgain ==
  /\ leg.at = "answered" /\ leg.status >= 500 /\ tries < MaxTries
  /\ leg' = [at |-> "client"]
  /\ UNCHANGED <<setup, clus, views, live, stray, tries, did, apiCuts>>

ApiDone ==
  /\ leg.at = "answered" /\ stray = {} /\ (leg.status >= 500 => tries = MaxTries)
  /\ UNCHANGED apiVars

ApiNext ==
  \/ \E n \in ApiNodes : SendRequest(n) \/ LearnLeader(n)
  \/ \E n \in ApiNodes \cup {NoNode} : Elected(n)
  \/ AtAgentPort \/ AtLeaderPort \/ AgentCall \/ AskTasks \/ RoundEnds
  \/ CutOff \/ OwnerLate \/ LeaderReconciles \/ AskAgain \/ ApiDone
  \/ \E x \in stray : HandleStray(x)

ApiSpec == ApiInit /\ [][ApiNext]_apiVars

-----------------------------------------------------------------------------
(* Properties *)

HasAnswer == leg.at = "answered"

\* The request, the cluster and where the request is keep their shape.
ApiTypeOK ==
  /\ setup.key \in {NoKey, "key"}
  /\ clus.leads \in ApiNodes \cup {NoNode} /\ clus.settled \in BOOLEAN
  /\ \A a \in DOMAIN clus.agents : clus.agents[a] \in ApiNodes
  /\ DOMAIN clus.jobs \subseteq Range(NameOrder)
  /\ views \in [ApiNodes -> ApiNodes \cup {NoNode}]
  /\ leg.at \in {"client", "agent port", "leader port", "call", "round", "answered"}
  /\ tries \in 0..MaxTries /\ apiCuts \in 0..MaxApiCuts
  /\ \A d \in did : d.try \in 1..tries

\* With a key, nothing is done for a request that its sender did not sign, at
\* whatever port of whatever node it came in and however it was passed on.
OnlySignedActs ==
  (did # {} /\ setup.key # NoKey) =>
    setup.req.sig = Mac(setup.key, setup.req.method, setup.req.path, setup.req.body)

\* The path is the same when a node reads it a second time.
Survives(path) == Range(path) \cap DOMAIN Reread = {}

\* A signature that one node accepts is accepted by every node behind it, and
\* the leader's own calls by every agent: no request is refused half-way.  The
\* exceptions are a stream that was not asked for with GET, which is passed on as
\* one, and a path with a question mark or an escape in a name, which the leader
\* reads as another path than the one that was signed.
ForwardedIsAccepted ==
  HasAnswer =>
    /\ (leg.behind /\ leg.status \in {401, 413}) =>
         \/ leg.via = "stream" /\ setup.req.method # "GET"
         \/ ~Survives(setup.req.path)
    /\ \A i \in DOMAIN leg.round.told : leg.round.told[i] # "refused"

\* Requests that change something.
Writes(r) ==
  \/ r.method = "POST" /\ r.path \in {<<"v1", "jobs">>, <<"v1", "agents">>, <<"v1", "heartbeat">>, <<"run">>}
  \/ r.method = "DELETE" /\ Len(r.path) > 1 /\ r.path[1] \in {"v1", "delete"}
  \/ r.method = "PATCH"
  \/ r.method = "POST" /\ Len(r.path) > 1 /\ r.path[1] \in {"stop", "stop-task"}

\* The name that such a request is about.
NameIn(r) ==
  IF r.path[1] # "v1" THEN (IF r.path = <<"run">> THEN r.body.name ELSE Tail(r.path)) ELSE
  IF Len(r.path) = 2 THEN r.body.name ELSE
  IF r.method = "PATCH" THEN SubSeq(r.path, 3, Len(r.path) - 1) ELSE SubSeq(r.path, 3, Len(r.path))

\* The answer is true, however the request went: after a 2xx this very try was
\* carried out, on the name that the request gives; after a 4xx it changed
\* nothing and never will.  The exceptions are a PATCH of a name that ends in
\* /priority, and a request that was passed on with a question mark or an escape
\* in its name: both are carried out on another name.
TruthfulAnswer ==
  HasAnswer =>
    /\ (Writes(setup.req) /\ leg.status \in 200..299 /\ leg.kind = "plain") =>
         \E d \in did :
           /\ d.try = tries
           /\ \/ d.name = NameIn(setup.req)
              \/ setup.req.method = "PATCH" /\ Last(NameIn(setup.req)) = "priority"
              \/ leg.behind /\ ~Survives(setup.req.path)
    /\ leg.status \in 400..499 =>
         \A d \in did : d.try # tries
    /\ (leg.status \in 400..499 /\ did = {} /\ apiCuts = 0) =>
         clus \in {setup.clus, Reconciled(setup.clus)}

\* Asking again is harmless: when a try ends well, the jobs stand in the order
\* that carrying it out once would have given, though an earlier try was carried
\* out as well, or is only now.  That is so from priorities as a reconcile leaves
\* them; from others (a job that found no room keeps the number it asked for) a
\* second try may move the job it names, and no other.
RetryIsHarmless ==
  (HasAnswer /\ leg.status \in 200..299 /\ did # {} /\ Survives(setup.req.path)) =>
    LET now == PriorityOrder(clus.jobs)
        start == setup.clus.jobs
        others(order) == SelectSeq(order, LAMBDA n : n # setup.req.body.name)
    IN
    \E fits \in BOOLEAN :
      LET once == PriorityOrder(LeaderHandle(setup, setup.clus, setup.req, fits, TRUE, {}).clus.jobs)
      IN  /\ others(now) = others(once)
          /\ start = Renumbered(PriorityOrder(start)) => now = once

\* A round of the agents accounts for each of them within its budget, and one
\* agent's silence costs the others no more than its share: an agent is not
\* asked only after as many others as the budget has shares.
SlowAgentsCostTheirShare ==
  (HasAnswer /\ leg.round.asked # <<>>) =>
    LET asked == leg.round.asked
        told == leg.round.told
    IN /\ Len(told) = Len(asked) /\ leg.round.spent <= TASKS_BUDGET
       /\ \A i \in DOMAIN told :
            told[i] = "no time" => (i - 1) * TASKS_EACH >= TASKS_BUDGET

\* A stream is never waited for as a whole: what the leader answers without an
\* end, the node before it passes on piece by piece.
StreamsAreRelayed == HasAnswer => leg.kind # "hung"

\* An applied job that asks for a place gets it ("N = N-de plek").
PlaceAsAsked ==
  (/\ HasAnswer /\ leg.status \in 200..201 /\ leg.kind = "plain"
   /\ setup.req.path = <<"v1", "jobs">> /\ setup.req.method = "POST" /\ setup.req.body.prio >= 0) =>
    LET order == PriorityOrder(clus.jobs)
        p == setup.req.body.prio
    IN order[(IF p < Len(order) THEN p ELSE Len(order) - 1) + 1] = setup.req.body.name

\* What holds of every request at any node, forwarded, retried or cut off.
ApiInv ==
  /\ ApiTypeOK
  /\ OnlySignedActs
  /\ ForwardedIsAccepted
  /\ TruthfulAnswer
  /\ RetryIsHarmless
  /\ SlowAgentsCostTheirShare
  /\ StreamsAreRelayed
=============================================================================
