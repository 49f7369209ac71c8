------------------------------- MODULE Election -------------------------------
(***************************************************************************)
(* The election of one node: the Election state machine, the Elector that  *)
(* answers it at once from the last answer of the lease store, the owner   *)
(* that executes its requests, and the threads (tasks on HopOS) that do    *)
(* the slow calls: the lease thread and the link thread, each a FIFO queue *)
(* with late answers.  The other nodes and the store's network are the     *)
(* surroundings; the lease itself is as module LeaseLock has it.           *)
(*                                                                         *)
(* One unit of time is one ELECTION_TICK (10 s).  Instants are kept as the *)
(* time left until, or passed since, them, so that time has no bound.      *)
(* One step of the owner is one message or tick handled to the end,        *)
(* requests that it executes in-process included: the owner is one thread. *)
(***************************************************************************)
EXTENDS Integers, Sequences, FiniteSets, SequencesExt

CONSTANTS
  Me,             \* this node, and the address of its leader API
  Others,         \* the other nodes of the cluster
  NoNode,         \* "nobody", an empty address
  TTL,            \* the lease TTL, in election ticks
  RenewEvery,     \* TTL/3
  TAKEOVER_AFTER, \* failed ticks before a take-over
  ISOLATED_AFTER, \* failed ticks before the node counts as isolated
  Platforms,      \* what the node may run on, of "host" and "HopOS"
  STATE_Q,        \* HopOS: the places in the queue of the state task
  MaxLink,        \* bound on the calls of the election at the link thread
  MaxLate         \* bound on the calls that take longer than one tick

ASSUME ElectionAssumption ==
  /\ Me \notin Others /\ NoNode \notin Others \cup {Me}
  /\ RenewEvery \in Nat \ {0} /\ TTL \in Nat /\ RenewEvery < TTL
  /\ TAKEOVER_AFTER \in Nat \ {0} /\ ISOLATED_AFTER \in Nat
  /\ TAKEOVER_AFTER < ISOLATED_AFTER
  /\ Platforms \subseteq {"host", "HopOS"}
  /\ STATE_Q \in Nat \ {0} /\ MaxLink \in Nat \ {0} /\ MaxLate \in Nat

VARIABLES
  own,    \* the owner's state: Elector, Election, leader half, agent
  mail,   \* answers of the lease thread that the owner has not handled
  link,   \* calls to a leader that the link thread has not answered
  stateq, \* HopOS: what the state task has not taken from its queue
  loads,  \* HopOS: loads of the committed state whose answer is not handled
  store,  \* the lease: its owner, and the time left until it expires
  handle, \* the handle in this node's Discovery
  calm    \* the surroundings have come to rest (see Calm)

vars == <<own, mail, link, stateq, loads, store, handle, calm>>

-----------------------------------------------------------------------------
(* Data *)

Node == Others \cup {Me}

HopOS == own.platform = "HopOS"

LeaseOp == {"Read", "Claim", "Renew", "Release"}

LeaseReply ==
  [kind : {"Read"}, leader : Node \cup {NoNode}, ok : BOOLEAN]
    \cup [kind : {"Claim"}, got : BOOLEAN]
    \cup [kind : {"Renew"}, renewed : BOOLEAN, displaced : BOOLEAN]

\* The calls that go through the link thread.
LinkRequest == [kind : {"Register", "Heartbeat"}, leader : Node]

\* The requests that the owner executes itself, and nothing to do.
LocalRequest == [kind : {"SelfHeartbeat", "StartLeader", "StopLeader", "None"}, leader : {Me}]

Local(kind) == [kind |-> kind, leader |-> Me]

\* No read answered yet, or its answer forgotten (leader_at = None).
NoAge == TTL + 1

Elector ==
  [leader : Node \cup {NoNode}, age : 0..NoAge, store_ok : BOOLEAN, reading : BOOLEAN,
   holding : BOOLEAN, left : 0..TTL, renewing : BOOLEAN, renew_in : 0..RenewEvery,
   claiming : BOOLEAN, claimed : BOOLEAN, displaced : BOOLEAN, ops : Seq(LeaseOp)]

Owner ==
  [platform : Platforms, disc : Elector,
   leading : BOOLEAN, registered : BOOLEAN, last_leader : Node \cup {NoNode},
   fail_count : 0..ISOLATED_AFTER,
   half : {"off", "loading", "live"},       \* the leader half of this node
   known : BOOLEAN,                         \* own agent registered with own leader
   leader_addr : Node \cup {NoNode},        \* what the agent publishes
   tasks : BOOLEAN,                         \* the agent runs tasks
   due : BOOLEAN,                           \* the next election tick is due
   boot : BOOLEAN,                          \* the boot claim is not handled yet
   strayed : BOOLEAN,                       \* history: see Strays
   out : LinkRequest \cup LocalRequest]     \* the request emitted last

Lease == [owner : Node \cup {NoNode}, left : (-1)..TTL]

TypeOK ==
  /\ own \in Owner
  /\ mail \in Seq(LeaseReply)
  /\ link \in Seq(LinkRequest)
  /\ stateq \in Seq({"Load", "Save"}) /\ Len(stateq) <= STATE_Q
  /\ loads \in Nat
  /\ store \in Lease
  /\ handle \in {"none", "current", "stale"}
  /\ calm \in BOOLEAN

-----------------------------------------------------------------------------
(* The elector: every question is answered from the last completed call *)

Send(d, op) == [d EXCEPT !.ops = Append(@, op)]

\* The cadence: while we hold, one renew at a time, every TTL/3.
RenewDue(d) == d.holding /\ ~d.renewing /\ d.renew_in = 0

ElectorTick(d) ==
  IF RenewDue(d)
    THEN [Send(d, "Renew") EXCEPT !.renewing = TRUE, !.renew_in = RenewEvery]
    ELSE d

Fresh(d) == d.age < TTL

\* get_leader: what it answers, and the read it asks for when its answer is old.
GetLeader(d) == IF Fresh(d) THEN d.leader ELSE NoNode

AskLeader(d) ==
  IF Fresh(d) \/ d.reading THEN d ELSE [Send(d, "Read") EXCEPT !.reading = TRUE]

StoreReachable(d) == d.age # NoAge /\ d.store_ok

Invalidate(d) == [d EXCEPT !.age = NoAge]

\* try_become_leader: TRUE when a claim was won; else it asks for one.
Won(d) == d.claimed

TryBecomeLeader(d) ==
  CASE d.claimed -> [d EXCEPT !.claimed = FALSE]
    [] ~d.claimed /\ (d.holding \/ d.claiming) -> d
    [] OTHER -> [Send(d, "Claim") EXCEPT !.claiming = TRUE]

\* It asks for a claim: none is won, none is out, and the lease is not held.
Claims(d) == ~d.claimed /\ ~d.holding /\ ~d.claiming

\* renew_lease: "still mine" is a comparison with the clock.
StillMine(d) == d.holding /\ d.left > 0

ReleaseLeadership(d) ==
  [Send(d, "Release") EXCEPT !.holding = FALSE, !.claimed = FALSE,
                             !.displaced = FALSE, !.left = 0]

\* (slip: a refused claim leaves its flag)
ReplyKeepsClaiming(d, r) ==
  CASE r.kind = "Read" ->
         [d EXCEPT !.reading = FALSE, !.leader = r.leader, !.age = 0, !.store_ok = r.ok]
    [] r.kind = "Claim" /\ r.got ->
         [d EXCEPT !.claiming = FALSE, !.holding = TRUE, !.claimed = TRUE, !.left = TTL,
                   !.renew_in = RenewEvery, !.leader = NoNode, !.age = NoAge]
    [] r.kind = "Claim" /\ ~r.got -> d
    [] r.kind = "Renew" -> [d EXCEPT !.renewing = FALSE]

ElectorReply(d, r) ==
  CASE r.kind = "Read" ->
         [d EXCEPT !.reading = FALSE, !.leader = r.leader, !.age = 0, !.store_ok = r.ok]
    [] r.kind = "Claim" /\ r.got ->
         [d EXCEPT !.claiming = FALSE, !.holding = TRUE, !.claimed = TRUE, !.left = TTL,
                   !.renew_in = RenewEvery, !.leader = NoNode, !.age = NoAge]
    [] r.kind = "Claim" /\ ~r.got -> [d EXCEPT !.claiming = FALSE]
    [] r.kind = "Renew" ->
         CASE d.holding /\ r.renewed -> [d EXCEPT !.renewing = FALSE, !.left = TTL]
           [] d.holding /\ ~r.renewed /\ r.displaced ->
                [d EXCEPT !.renewing = FALSE, !.holding = FALSE, !.displaced = TRUE]
           [] OTHER -> [d EXCEPT !.renewing = FALSE]

-----------------------------------------------------------------------------
(* The election *)

Emit(s, kind) == [s EXCEPT !.out = Local(kind)]

\* The lease thread has a release to serve.
Releases(d) == \E i \in DOMAIN d.ops : d.ops[i] = "Release"

\* A leader counts the late failures of the calls that it made as a follower.  It
\* strays when they make it claim while it leads.  That is remembered until it is
\* made leader again with no release in the queue.
Strays(s) == s.leading /\ Claims(s.disc)

BecomeLeader(s) ==
  [Emit(s, "StartLeader") EXCEPT !.leading = TRUE, !.fail_count = 0, !.leader_addr = Me,
                                 !.strayed = Releases(s.disc)]

\* (slip: without a release the leader half is not stopped)
StepDownOnRelease(s, release) ==
  LET quiet == [s EXCEPT !.leading = FALSE, !.registered = FALSE,
                         !.last_leader = NoNode, !.leader_addr = NoNode]
  IN  IF s.leading /\ release
        THEN [Emit(quiet, "StopLeader") EXCEPT !.disc = ReleaseLeadership(@)] ELSE quiet

\* step_down: the leader half stops; with release the lease goes back as well.
StepDown(s, release) ==
  LET quiet == [s EXCEPT !.leading = FALSE, !.registered = FALSE,
                         !.last_leader = NoNode, !.leader_addr = NoNode]
  IN  CASE ~s.leading -> quiet
        [] s.leading /\ ~release -> Emit(quiet, "StopLeader")
        [] OTHER -> [Emit(quiet, "StopLeader") EXCEPT !.disc = ReleaseLeadership(@)]

TryTakeOver(s) ==
  LET d == Invalidate(s.disc)
      t == [s EXCEPT !.last_leader = NoNode, !.leader_addr = NoNode, !.disc = TryBecomeLeader(d),
                     !.strayed = @ \/ Strays(s)]
  IN  IF Won(d) THEN BecomeLeader(t) ELSE t

\* The store answered, and nobody holds a live lease.
StoreSaysNoLeader(d) == GetLeader(d) = NoNode /\ StoreReachable(d)

CountFailure(s) ==
  LET t == [s EXCEPT !.fail_count = @ + 1]
  IN  IF t.fail_count >= TAKEOVER_AFTER THEN TryTakeOver(t) ELSE t

LeaderFailed(s) ==
  LET t == CountFailure(s)
  IN  IF t.fail_count < ISOLATED_AFTER THEN t
      ELSE [t EXCEPT !.disc = AskLeader(@),
                     !.tasks = @ /\ StoreSaysNoLeader(t.disc),
                     !.fail_count = TAKEOVER_AFTER]

NoLeader(s) ==
  LET t == CountFailure(s)
  IN  IF t.fail_count >= TAKEOVER_AFTER /\ ~t.leading
        THEN [t EXCEPT !.fail_count = TAKEOVER_AFTER] ELSE t

\* The tick of a leader: step down when displaced, or when the lease ran out
\* and no agent is connected; otherwise carry on.
LeaderTick(s, connected) ==
  CASE s.disc.displaced -> StepDown([s EXCEPT !.disc.displaced = FALSE], FALSE)
    [] ~s.disc.displaced /\ ~StillMine(s.disc) /\ ~connected -> StepDown(s, FALSE)
    [] OTHER -> Emit([s EXCEPT !.fail_count = IF StillMine(s.disc) THEN 0 ELSE @],
                     "SelfHeartbeat")

\* tick_inner; the store is asked only when the leader is not known.
ElectionTick(s, connected) ==
  LET leader == IF s.last_leader = NoNode THEN GetLeader(s.disc) ELSE s.last_leader
      t == IF s.last_leader = NoNode THEN [s EXCEPT !.disc = AskLeader(@)] ELSE s
  IN  CASE t.leading -> LeaderTick(t, connected)
        [] ~t.leading /\ leader # NoNode ->
             [t EXCEPT !.out = [kind |-> IF t.registered THEN "Heartbeat" ELSE "Register",
                                leader |-> leader]]
        [] OTHER ->
             IF StoreSaysNoLeader(t.disc) THEN NoLeader(t) ELSE LeaderFailed(t)

\* The answer to a call at a leader.
Follow(s, leader) ==
  [s EXCEPT !.fail_count = 0, !.last_leader = leader, !.leader_addr = leader]

ElectionReply(s, req, result) ==
  CASE result = "Ok" /\ req.kind = "Register" ->
         [Follow(s, req.leader) EXCEPT !.registered = TRUE]
    [] result = "Ok" /\ req.kind = "Heartbeat" -> Follow(s, req.leader)
    [] result = "NotRegistered" /\ req.kind = "Heartbeat" -> [s EXCEPT !.registered = FALSE]
    [] OTHER -> LeaderFailed(s)

-----------------------------------------------------------------------------
(* The owner executes what the election emitted *)

Done(s) == Emit(s, "None")

\* The leader half opens: the state is loaded and the own agent registers.
Open(s) == [s EXCEPT !.half = "live", !.known = TRUE]

\* The leader half closes and forgets everything.
Close(s) == [s EXCEPT !.half = "off", !.known = FALSE]

\* Stepping down on the owner's own account, StopLeader executed.
Resign(s) ==
  LET t == StepDown(s, TRUE) IN IF s.leading THEN Done(Close(t)) ELSE t

\* Execute(s, ok): ok is whether a host can load the committed state.  On HopOS
\* the state task does so, if the saves in its queue leave a place.
Execute(s, ok) ==
  LET starts == s.out.kind = "StartLeader" /\ s.half = "off"
      asks == starts /\ HopOS /\ Len(stateq) < STATE_Q
  IN
  /\ own' = CASE asks -> Done([s EXCEPT !.half = "loading"])
              [] starts /\ ~HopOS /\ ok -> Done(Open(s))
              [] starts /\ ~HopOS /\ ~ok -> Done(Resign(s))
              [] s.out.kind = "StopLeader" -> Done(Close(s))
              [] s.out.kind = "SelfHeartbeat" /\ s.half = "live" -> Done([s EXCEPT !.known = TRUE])
              [] OTHER -> Done(s)
  /\ stateq' = IF asks THEN Append(stateq, "Load") ELSE stateq

\* A register or a heartbeat goes to the link thread.
Calls(s) == s.out.kind \in {"Register", "Heartbeat"}

SendLink(s, queue) == IF Calls(s) THEN Append(queue, s.out) ELSE queue

\* In calm surroundings the state is readable.
Loads(ok) == calm => ok

-----------------------------------------------------------------------------
(* The owner's messages and its tick *)

\* The tick of the owner, every second: the elector's cadence, and the
\* election when it is due.  `peers' is whether other agents are connected.  The
\* queue of the link task on HopOS is bounded and shared with the notifies: a
\* call that it refuses has failed at once.  A host's channel has no bound, so
\* MaxLink only ends the model.
OwnerTick(peers, refused, ok) ==
  LET s == [own EXCEPT !.disc = ElectorTick(@)]
      t == IF own.due
             THEN ElectionTick([s EXCEPT !.due = FALSE],
                               s.half = "live" /\ (s.known \/ peers))
             ELSE s
      u == IF refused THEN ElectionReply(Done(t), t.out, "Failed") ELSE t
  IN
  /\ ~HopOS => ~own.boot
  /\ own.due \/ RenewDue(own.disc)
  /\ refused => HopOS /\ Calls(t)
  /\ Calls(t) /\ ~refused => Len(link) < MaxLink
  /\ Loads(ok)
  /\ Execute(u, ok)
  /\ link' = SendLink(u, link)
  /\ UNCHANGED <<mail, loads, store, handle, calm>>

\* An answer of the lease thread.  On HopOS the boot claim is answered this
\* way too, and a claim that was won makes the node leader at once.
OnLease(ok) ==
  LET r == Head(mail)
      s == [own EXCEPT !.disc = ElectorReply(@, r)]
      boots == HopOS /\ own.boot /\ r.kind = "Claim"
      t == IF boots THEN [s EXCEPT !.boot = FALSE] ELSE s
      u == IF boots /\ r.got /\ ~t.leading
             THEN BecomeLeader([t EXCEPT !.disc = TryBecomeLeader(@)])
             ELSE t
  IN
  /\ mail # <<>>
  /\ Loads(ok)
  /\ Execute(u, ok)
  /\ mail' = Tail(mail)
  /\ UNCHANGED <<link, loads, store, handle, calm>>

\* The link thread's call at a leader is answered, or fails.
OnLink(result, ok) ==
  LET s == ElectionReply(own, Head(link), result) IN
  /\ link # <<>>
  /\ result = "Ok" => Head(link).leader # Me \/ own.half = "live"
  /\ calm => result = "Failed"
  /\ Loads(ok)
  /\ Execute(s, ok)
  /\ link' = Tail(link)
  /\ UNCHANGED <<mail, loads, store, handle, calm>>

\* HopOS: the committed state arrives, or cannot be read.
OnLoaded(ok) ==
  /\ loads > 0
  /\ loads' = loads - 1
  /\ Loads(ok)
  /\ own' = CASE own.half # "loading" -> own
              [] own.half = "loading" /\ ~own.leading -> [own EXCEPT !.half = "off"]
              [] own.half = "loading" /\ own.leading /\ ok -> Open(own)
              [] OTHER -> Resign([own EXCEPT !.half = "off"])
  /\ UNCHANGED <<mail, link, stateq, store, handle, calm>>

\* Host: the first step of the owner, with the outcome of the boot claim.
Boot(ok) ==
  LET s == [own EXCEPT !.boot = FALSE, !.disc = TryBecomeLeader(@)]
  IN
  /\ ~HopOS /\ own.boot
  /\ Loads(ok)
  /\ Execute(IF Won(own.disc) THEN BecomeLeader(s) ELSE s, ok)
  /\ UNCHANGED <<mail, link, loads, store, handle, calm>>

\* The leader API unregisters the node's own agent.
Unregister ==
  /\ own.half = "live" /\ own.known /\ ~calm
  /\ own' = [own EXCEPT !.known = FALSE]
  /\ UNCHANGED <<mail, link, stateq, loads, store, handle, calm>>

\* A leader places a task on the node.
Place ==
  /\ ~own.tasks
  /\ own' = [own EXCEPT !.tasks = TRUE]
  /\ UNCHANGED <<mail, link, stateq, loads, store, handle, calm>>

\* HopOS: the leader saves a snapshot, if the queue has a place.
Save ==
  /\ HopOS /\ own.half = "live" /\ ~calm
  /\ Len(stateq) < STATE_Q
  /\ stateq' = Append(stateq, "Save")
  /\ UNCHANGED <<own, mail, link, loads, store, handle, calm>>

\* The state task takes its next operation, and reads the state for a load.
StateTask ==
  /\ stateq # <<>>
  /\ stateq' = Tail(stateq)
  /\ loads' = IF Head(stateq) = "Load" THEN loads + 1 ELSE loads
  /\ UNCHANGED <<own, mail, link, store, handle, calm>>

-----------------------------------------------------------------------------
(* The lease thread: one operation at a time, whole, as module Lease has it *)

Expired == store.left < 0

\* A claim creates, takes back our own lease, or takes over an expired one.
MayClaim == store.owner \in {NoNode, Me} \/ Expired

Written == [owner |-> Me, left |-> TTL]

\* The handle after a write of ours that the store applied but did not confirm.
Unconfirmed == IF handle = "current" THEN "stale" ELSE handle

Answer(r) == mail' = Append(mail, r)

ClaimReply(op, got, held) ==
  IF op = "Claim" THEN [kind |-> "Claim", got |-> got]
                  ELSE [kind |-> "Renew", renewed |-> got, displaced |-> held]

\* The operation at the head of the queue leaves it.
Take(op) ==
  /\ own.disc.ops # <<>>
  /\ Head(own.disc.ops) = op
  /\ own' = [own EXCEPT !.disc.ops = Tail(@)]
  /\ UNCHANGED <<link, stateq, loads, calm>>

ServeRead(ok) ==
  /\ Take("Read")
  /\ calm => ok
  /\ Answer([kind |-> "Read", ok |-> ok,
             leader |-> IF ok /\ ~Expired THEN store.owner ELSE NoNode])
  /\ UNCHANGED <<store, handle>>

\* A claim, and a renew without a handle: read, then a conditional write.
ServeClaim(op, outcome) ==
  /\ Take(op)
  /\ op = "Renew" => handle = "none"
  /\ calm => outcome = "confirmed"
  /\ IF ~MayClaim \/ outcome = "failed"
       THEN /\ Answer(ClaimReply(op, FALSE, outcome # "failed"))
            /\ UNCHANGED <<store, handle>>
       ELSE /\ Answer(ClaimReply(op, outcome = "confirmed", FALSE))
            /\ store' = Written
            /\ handle' = IF outcome = "confirmed" THEN "current" ELSE Unconfirmed

\* A renew with a handle: one conditional write.
ServeRenew(outcome) ==
  /\ Take("Renew")
  /\ handle # "none"
  /\ calm => outcome = "confirmed"
  /\ IF handle = "stale" \/ outcome = "failed"
       THEN /\ Answer(ClaimReply("Renew", FALSE, outcome # "failed"))
            /\ UNCHANGED <<store, handle>>
       ELSE /\ Answer(ClaimReply("Renew", outcome = "confirmed", FALSE))
            /\ store' = Written
            /\ handle' = IF outcome = "confirmed" THEN "current" ELSE Unconfirmed

\* A release deletes the lease its handle names, or fails; nobody waits for it.
ServeRelease(arrives) ==
  /\ Take("Release")
  /\ calm => arrives
  /\ handle' = "none"
  /\ store' = IF handle = "current" /\ arrives
                THEN [owner |-> NoNode, left |-> -1] ELSE store
  /\ UNCHANGED mail

Outcome == {"confirmed", "unconfirmed", "failed"}

LeaseThread ==
  \/ \E ok \in BOOLEAN : ServeRead(ok) \/ ServeRelease(ok)
  \/ \E outcome \in Outcome :
       \/ \E op \in {"Claim", "Renew"} : ServeClaim(op, outcome)
       \/ ServeRenew(outcome)

-----------------------------------------------------------------------------
(* The surroundings *)

\* Another node writes the lease: it creates or takes over, or renews its own.
OtherWrites(o) ==
  /\ ~calm
  /\ store.owner \in {NoNode, o} \/ Expired
  /\ store' = [owner |-> o, left |-> TTL]
  /\ handle' = IF handle = "current" THEN "stale" ELSE handle
  /\ UNCHANGED <<own, mail, link, stateq, loads, calm>>

OtherReleases(o) ==
  /\ ~calm
  /\ store.owner = o
  /\ store' = [owner |-> NoNode, left |-> -1]
  /\ UNCHANGED <<own, mail, link, stateq, loads, handle, calm>>

\* Everything under way has been answered and handled.
Settled == mail = <<>> /\ link = <<>> /\ own.disc.ops = <<>> /\ stateq = <<>> /\ loads = 0
             /\ ~own.due /\ ~RenewDue(own.disc) /\ (~HopOS => ~own.boot)

Decrease(x, low) == IF x > low THEN x - 1 ELSE x

\* The calls under way, answered or not.
UnderWay == Len(own.disc.ops) + Len(mail) + Len(link) + Len(stateq) + loads

\* Time passes; in calm surroundings no call takes as long as a tick.
Time ==
  /\ calm => Settled
  /\ UnderWay <= MaxLate
  /\ own' = [own EXCEPT !.due = TRUE,
                        !.disc.left = Decrease(@, 0),
                        !.disc.renew_in = Decrease(@, 0),
                        !.disc.age = IF @ < TTL THEN @ + 1 ELSE @]
  /\ store' = [store EXCEPT !.left = Decrease(@, -1)]
  /\ UNCHANGED <<mail, link, stateq, loads, handle, calm>>

\* The other nodes die or fall silent for good, the store answers from now on.
Calm ==
  /\ ~calm
  /\ calm' = TRUE
  /\ UNCHANGED <<own, mail, link, stateq, loads, store, handle>>

\* A fresh process; on a host the boot claim has just been tried.
FreshProcess(p, holding) ==
  [platform |-> p,
   disc |-> [leader |-> NoNode, age |-> NoAge, store_ok |-> FALSE, reading |-> FALSE,
             holding |-> holding, left |-> IF holding THEN TTL ELSE 0,
             renewing |-> FALSE, renew_in |-> RenewEvery,
             claiming |-> p = "HopOS", claimed |-> holding, displaced |-> FALSE,
             ops |-> IF p = "HopOS" THEN <<"Claim">> ELSE <<>>],
   leading |-> FALSE, registered |-> FALSE, last_leader |-> NoNode, fail_count |-> 0,
   half |-> "off", known |-> FALSE, leader_addr |-> NoNode, tasks |-> FALSE,
   due |-> FALSE, boot |-> TRUE, strayed |-> FALSE, out |-> Local("None")]

Init ==
  /\ \/ store = [owner |-> NoNode, left |-> -1]
     \/ store \in [owner : Node, left : (-1)..TTL]
  /\ handle = "none"
  /\ \E p \in Platforms : own = FreshProcess(p, FALSE)
  /\ mail = <<>> /\ link = <<>> /\ stateq = <<>> /\ loads = 0
  /\ calm = FALSE

\* The process restarts with a fresh Discovery; on a host its boot claim wins or not.
Restart(holding) ==
  /\ ~calm
  /\ holding => ~HopOS /\ MayClaim
  /\ own' = [FreshProcess(own.platform, holding) EXCEPT !.tasks = own.tasks]
  /\ mail' = <<>> /\ link' = <<>> /\ stateq' = <<>> /\ loads' = 0
  /\ handle' = IF holding THEN "current" ELSE "none"
  /\ store' = IF holding THEN Written ELSE store
  /\ UNCHANGED calm

OwnerStep ==
  \E ok \in BOOLEAN :
    \/ \E peers, refused \in BOOLEAN : OwnerTick(peers, refused, ok)
    \/ OnLease(ok)
    \/ \E result \in {"Ok", "NotRegistered", "Failed"} : OnLink(result, ok)
    \/ OnLoaded(ok)
    \/ Boot(ok)

Surroundings ==
  \/ \E o \in Others : OtherWrites(o) \/ OtherReleases(o)
  \/ \E holding \in BOOLEAN : Restart(holding)
  \/ Unregister
  \/ Save
  \/ Place
  \/ Calm

NodeStep == OwnerStep \/ LeaseThread \/ StateTask \/ Time

Next == NodeStep \/ Surroundings

Spec == Init /\ [][Next]_vars

\* The node goes on; in calm surroundings its clock waits for its owner and its
\* threads, so that none of them stops for good.  The surroundings come to rest.
FairSpec == Spec /\ WF_vars(NodeStep) /\ WF_vars(Calm)

-----------------------------------------------------------------------------
(* Properties *)

\* The operations of one kind that are queued or whose answer is not handled.
Outstanding(op) ==
  Cardinality({i \in DOMAIN own.disc.ops : own.disc.ops[i] = op})
    + Cardinality({i \in DOMAIN mail : mail[i].kind = op})

\* The elector's own invariant: at most one operation of each kind is out, and
\* its flag says so.  Nothing else is queued than those and one release, or two
\* after a leader strayed, so the bounded queue of the lease task (LEASE_Q = 8) is
\* never full and no release is ever dropped.
OneOfEachKind ==
  /\ Outstanding("Read") = IF own.disc.reading THEN 1 ELSE 0
  /\ Outstanding("Claim") = IF own.disc.claiming THEN 1 ELSE 0
  /\ Outstanding("Renew") = IF own.disc.renewing THEN 1 ELSE 0
  /\ Outstanding("Release") <= IF own.strayed THEN 2 ELSE 1

\* The leader half serves only while the election leads: no step down, failed
\* load or late answer leaves a leader API open behind a node that follows.
ServesOnlyWhileLeading == own.half # "off" => own.leading

\* A release in the queue means that the leader half has stopped: the node
\* cannot lead again before the lease thread is past that release.  The one
\* exception is a node that strayed: its claim is ahead of its release.
StoppedBeforeRelease ==
  Releases(own.disc) /\ ~own.strayed => ~own.leading /\ own.half = "off"

\* HopOS: a leader half that waits for the state has a load under way, whatever
\* loads of earlier terms were still out when it began to wait.
LoadingIsAwaited ==
  own.half = "loading" => loads > 0 \/ \E i \in DOMAIN stateq : stateq[i] = "Load"

\* Tasks are stopped only by an isolated node: not while the store has answered
\* every read, its last answer is "no leader", and that is still so.
StopsOnlyWhenIsolated ==
  [][ own.tasks /\ ~own'.tasks =>
        ~(own.disc.store_ok /\ own.disc.leader = NoNode /\ ~own.disc.reading
            /\ (store.owner = NoNode \/ Expired)) ]_vars

\* The node serves as leader.
Serves == own.leading /\ own.half = "live"

\* The lease is held and renewed for nobody: a claim was used up, the election
\* stepped down without a release, and no new claim can be asked for.
PhantomLease == own.disc.holding /\ ~own.disc.claimed /\ ~own.leading

\* The election leads, but no load of the state was ever asked for.
Unloaded == own.leading /\ own.half = "off"

\* Once the other nodes are gone and the store answers, the node comes to
\* serve as leader, whatever was lost, late or half done before: its lease
\* thread, link thread and elector never wait for each other for good.  The
\* two states in which it does not are named, and are findings.
ServesAtLast == calm ~> (Serves \/ PhantomLease \/ Unloaded)

\* A leader that the lease store displaced steps down, agents or no agents.
DisplacedStepsDown == own.leading /\ own.disc.displaced ~> ~own.leading

\* What the comment on the election says of a lease that ran out without
\* agents: leadership is lost, so others may take the lease.
PhantomEnds == PhantomLease ~> ~PhantomLease

\* What holds of the elector, its threads and the leader half at any time,
\* whatever order ticks, answers, timeouts and restarts come in.
ElectionInv ==
  /\ TypeOK
  /\ OneOfEachKind
  /\ ServesOnlyWhileLeading
  /\ StoppedBeforeRelease
  /\ LoadingIsAwaited

\* Neither gaining nor losing the lease gets stuck: the node comes to serve, and
\* steps down when it was displaced.
ElectionEnds ==
  /\ ServesAtLast
  /\ DisplacedStepsDown
=============================================================================
