-------------------------------- MODULE Lease --------------------------------
(***************************************************************************)
(* The leader lease of a Hop cluster: one object in a lease store (S3, a   *)
(* hoplockserver, memory) that changes only by compare-and-swap, and on    *)
(* every node a lease thread that owns a Discovery (the handle and the     *)
(* generation of its last successful write) and serves the operations of   *)
(* the node's elector one at a time.  The queues between the elector and   *)
(* its thread only delay an operation or an answer; they are part of       *)
(* module Election.                                                        *)
(*                                                                         *)
(* Between a request and its answer anything may happen: another node's    *)
(* request is served, time passes, the process restarts.  A request whose  *)
(* client stopped waiting may be lost, served with its answer lost, or     *)
(* still be served much later; all three are a request in `late' that      *)
(* arrives at some time or never.                                          *)
(***************************************************************************)
EXTENDS Integers, FiniteSets

CONSTANTS
  Node,       \* the nodes; a node's address is its lease owner
  NoNode,     \* "no leader"
  TTL,        \* the lease TTL, in ticks of the clock
  MaxSkew,    \* how far the wall clocks of two nodes may lie apart
  MaxTime,    \* bound on the clock
  MaxWrites,  \* bound on the writes the store accepts
  MaxLate     \* bound on the abandoned requests still under way

ASSUME LeaseAssumption ==
  /\ NoNode \notin Node
  /\ TTL \in Nat
  /\ MaxSkew \in Nat
  /\ MaxTime \in Nat
  /\ MaxWrites \in Nat
  /\ MaxLate \in Nat

VARIABLES
  now,      \* real time; the wall clock of node n reads now + skew[n]
  skew,     \* by how much each node's clock is ahead
  store,    \* the lease object in the store, or NoLease
  issued,   \* the number of the last handle the store gave out
  disc,     \* Discovery: the handle and generation of each node
  thread,   \* what each node's lease thread is doing
  late,     \* abandoned requests that may still reach the store
  displaced \* whether each node's last operation was a renew the store refused

vars == <<now, skew, store, issued, disc, thread, late, displaced>>

-----------------------------------------------------------------------------
(* Data *)

\* The empty handle: nothing held, and for a write "only create".
NoHandle == 0

\* A plain read (LeaseOp::Read) changes nothing here; module Election has it.
LeaseOp == {"Claim", "Renew", "Release"}

LeaseRecord == [handle : Nat, owner : Node \cup {NoNode},
                generation : Nat, expires_at : Nat]

NoLease == [handle |-> NoHandle, owner |-> NoNode, generation |-> 0, expires_at |-> 0]

\* A conditional request to the store; `by' is the owner it writes or had written.
Request == [kind : {"put", "delete"}, prev : Nat, by : Node,
            generation : Nat, expires_at : Nat]

Put(n, prev, generation, at) ==
  [kind |-> "put", prev |-> prev, by |-> n,
   generation |-> generation, expires_at |-> at + TTL]

Delete(n, prev) ==
  [kind |-> "delete", prev |-> prev, by |-> n, generation |-> 0, expires_at |-> 0]

\* The thread waits for an operation, for the answer to a read, or for the
\* answer to a conditional request; `at' is the clock when the operation began.
Thread == [pc : {"idle", "read", "send"}, op : LeaseOp, at : Nat, req : Request]

Idle(n) == [pc |-> "idle", op |-> "Claim", at |-> 0, req |-> Delete(n, NoHandle)]

TypeOK ==
  /\ now \in Nat
  /\ skew \in [Node -> 0..MaxSkew]
  /\ store \in LeaseRecord
  /\ issued \in Nat
  /\ disc \in [Node -> [handle : Nat, generation : Nat]]
  /\ thread \in [Node -> Thread]
  /\ late \in SUBSET Request
  /\ displaced \in [Node -> BOOLEAN]

Clock(n) == now + skew[n]

-----------------------------------------------------------------------------
(* The store: compare-and-swap on the handle *)

\* Slip: If-Match: *, any existing object will do.
MatchesAny(r) == (store.handle = NoHandle) = (r.prev = NoHandle)

\* An empty prev creates only when nothing is there; otherwise prev must be current.
Matches(r) == store.handle = r.prev

\* The object after request r, which matched.
Applied(r) ==
  IF r.kind = "put"
    THEN [handle |-> issued + 1, owner |-> r.by,
          generation |-> r.generation, expires_at |-> r.expires_at]
    ELSE NoLease

\* The store serves r: the whole effect on the store, whoever waits for the answer.
Serve(r) ==
  /\ store' = IF Matches(r) THEN Applied(r) ELSE store
  /\ issued' = IF Matches(r) /\ r.kind = "put" THEN issued + 1 ELSE issued
  /\ r.kind = "put" => issued < MaxWrites

-----------------------------------------------------------------------------
(* Discovery: what a claim, a renew, a read and a release do *)

\* Slip: a live lease of another node may be claimed.
MayClaimAlways(n, s, at) == TRUE

\* plan_claim succeeds in three ways: create, renew our own, take over an expired one.
MayClaim(n, s, at) ==
  \/ s.handle = NoHandle
  \/ s.owner = n
  \/ at > s.expires_at

PlanClaim(n, s, at) ==
  Put(n, s.handle,
      CASE s.handle = NoHandle -> 1
        [] s.handle # NoHandle /\ s.owner = n -> s.generation
        [] OTHER -> s.generation + 1,
      at)

\* The node's operation ends (or, with FALSE, the next one begins).
Report(n, d) == displaced' = [displaced EXCEPT ![n] = d]

\* The thread turns to the next operation; which one is the elector's affair.
Begin(n) ==
  /\ thread[n].pc = "idle"
  /\ Report(n, FALSE)
  /\ UNCHANGED <<now, skew, store, issued, late>>

\* A claim, and a renew without a handle (a fresh process), begin with a read.
BeginQuery(n, op) ==
  /\ Begin(n)
  /\ op = "Renew" => disc[n].handle = NoHandle
  /\ thread' = [thread EXCEPT ![n] = [@ EXCEPT !.pc = "read", !.op = op, !.at = Clock(n)]]
  /\ UNCHANGED disc

\* A renew with a handle is one conditional PUT, without a read.
BeginRenew(n) ==
  /\ Begin(n)
  /\ disc[n].handle # NoHandle
  /\ thread' = [thread EXCEPT ![n] =
       [pc |-> "send", op |-> "Renew", at |-> Clock(n),
        req |-> Put(n, disc[n].handle, disc[n].generation, Clock(n))]]
  /\ UNCHANGED disc

\* A release gives up the handle first and then deletes the object it names.
BeginRelease(n) ==
  /\ Begin(n)
  /\ disc' = [disc EXCEPT ![n].handle = NoHandle]
  /\ thread' = IF disc[n].handle = NoHandle
       THEN thread
       ELSE [thread EXCEPT ![n] =
              [pc |-> "send", op |-> "Release", at |-> Clock(n),
               req |-> Delete(n, disc[n].handle)]]

\* The store answers the read with what it holds at that moment: plan the write, or give up.
ReadAnswered(n) ==
  LET t == thread[n] IN
  /\ t.pc = "read"
  /\ IF MayClaim(n, store, t.at)
       THEN /\ thread' = [thread EXCEPT ![n] =
                 [@ EXCEPT !.pc = "send", !.req = PlanClaim(n, store, t.at)]]
            /\ UNCHANGED displaced
       ELSE /\ thread' = [thread EXCEPT ![n] = Idle(n)]
            /\ Report(n, t.op = "Renew")
  /\ UNCHANGED <<now, skew, store, issued, disc, late>>

\* The read fails: the store is unreachable.
ReadFailed(n) ==
  /\ thread[n].pc = "read"
  /\ thread' = [thread EXCEPT ![n] = Idle(n)]
  /\ Report(n, FALSE)
  /\ UNCHANGED <<now, skew, store, issued, disc, late>>

\* The store serves the thread's request and the answer arrives.
SendAnswered(n) ==
  LET t == thread[n] IN
  /\ t.pc = "send"
  /\ Serve(t.req)
  /\ thread' = [thread EXCEPT ![n] = Idle(n)]
  /\ disc' = IF t.req.kind = "put" /\ Matches(t.req)
       THEN [disc EXCEPT ![n] = [handle |-> issued + 1, generation |-> t.req.generation]]
       ELSE disc
  /\ Report(n, t.op = "Renew" /\ ~Matches(t.req))
  /\ UNCHANGED <<now, skew, late>>

\* Slip: no answer to a renew counts as a refusal.
SendFailedDisplaces(n) ==
  /\ thread[n].pc = "send"
  /\ thread' = [thread EXCEPT ![n] = Idle(n)]
  /\ Report(n, thread[n].op = "Renew")
  /\ UNCHANGED <<now, skew, store, issued, disc, late>>

\* No answer within the term of the call: the request is lost or still under way.
SendFailed(n) ==
  LET t == thread[n] IN
  /\ t.pc = "send"
  /\ \/ UNCHANGED late
     \/ /\ Cardinality(late) < MaxLate
        /\ late' = late \cup {t.req}
  /\ thread' = [thread EXCEPT ![n] = Idle(n)]
  /\ Report(n, FALSE)
  /\ UNCHANGED <<now, skew, store, issued, disc>>

-----------------------------------------------------------------------------
(* The surroundings: time, the network and the process *)

\* An abandoned request reaches the store after all.
LateArrives(r) ==
  /\ r \in late
  /\ Serve(r)
  /\ late' = late \ {r}
  /\ UNCHANGED <<now, skew, disc, thread, displaced>>

\* The process dies and starts again with a fresh Discovery; what it had sent may arrive.
Restart(n) ==
  /\ \/ UNCHANGED late
     \/ /\ thread[n].pc = "send"
        /\ Cardinality(late) < MaxLate
        /\ late' = late \cup {thread[n].req}
  /\ thread' = [thread EXCEPT ![n] = Idle(n)]
  /\ disc' = [disc EXCEPT ![n] = [handle |-> NoHandle, generation |-> 0]]
  /\ Report(n, FALSE)
  /\ UNCHANGED <<now, skew, store, issued>>

Tick ==
  /\ now < MaxTime
  /\ now' = now + 1
  /\ UNCHANGED <<skew, store, issued, disc, thread, late, displaced>>

-----------------------------------------------------------------------------

Init ==
  /\ now = 0
  /\ skew \in [Node -> 0..MaxSkew]
  /\ store = NoLease
  /\ issued = 0
  /\ disc = [n \in Node |-> [handle |-> NoHandle, generation |-> 0]]
  /\ thread = [n \in Node |-> Idle(n)]
  /\ late = {}
  /\ displaced = [n \in Node |-> FALSE]

NodeNext(n) ==
  \/ \E op \in {"Claim", "Renew"} : BeginQuery(n, op)
  \/ BeginRenew(n)
  \/ BeginRelease(n)
  \/ ReadAnswered(n)
  \/ ReadFailed(n)
  \/ SendAnswered(n)
  \/ SendFailed(n)
  \/ Restart(n)

Next ==
  \/ \E n \in Node : NodeNext(n)
  \/ \E r \in late : LateArrives(r)
  \/ Tick

Spec == Init /\ [][Next]_vars

-----------------------------------------------------------------------------
(* The inductive invariant *)

\* The requests that may still reach the store.
Pending == late \cup {thread[n].req : n \in {m \in Node : thread[m].pc = "send"}}

\* Handles are numbered: none is ahead of the last one given out, and a
\* thread's request carries its own node.
HandlesAreIssued ==
  /\ store.handle <= issued
  /\ \A n \in Node : disc[n].handle <= issued /\ thread[n].req.by = n
  /\ \A p \in Pending : p.prev <= issued
  /\ IF store.handle = NoHandle THEN store = NoLease ELSE store.owner \in Node

\* A put that would still match creates the first generation, renews its own
\* lease, or takes over one that had expired when the claim began.
PutOK(p) ==
  /\ p.prev = NoHandle => p.generation = 1
  /\ p.expires_at <= Clock(p.by) + TTL
  /\ p.prev # NoHandle /\ p.prev = store.handle =>
       /\ store.expires_at <= p.expires_at
       /\ IF store.owner = p.by
            THEN p.generation = store.generation
            ELSE p.generation = store.generation + 1 /\ store.expires_at < Clock(p.by)

\* A delete that would still match names a lease of its own node.
DeleteOK(p) ==
  /\ p.prev # NoHandle
  /\ p.prev = store.handle => store.owner = p.by

RequestsAreOK ==
  \A p \in Pending : IF p.kind = "put" THEN PutOK(p) ELSE DeleteOK(p)

\* Nothing a node wrote before its present claim began reaches further than
\* what that claim will write.
ClaimReachesFurthest ==
  \A n \in Node : thread[n].pc = "read" =>
    /\ thread[n].at <= Clock(n)
    /\ store.owner = n => store.expires_at <= thread[n].at + TTL
    /\ \A p \in late : p.kind = "put" /\ p.by = n => p.expires_at <= thread[n].at + TTL

\* A renew begins with a read only when the node has no handle, and otherwise
\* sends the handle that the node keeps.
RenewNamesItsHandle ==
  \A n \in Node : thread[n].op = "Renew" =>
    /\ thread[n].pc = "read" => disc[n].handle = NoHandle
    /\ thread[n].pc = "send" => disc[n].handle \in {NoHandle, thread[n].req.prev}

-----------------------------------------------------------------------------
(* Properties *)

\* A node whose handle is the current one is the owner the object names, at
\* the generation it remembers: on_write keeps a handle only of a write the
\* store confirmed, so the handle a renew or a release is conditional on is
\* never another node's, whatever was lost, late or restarted in between.
CurrentHandleProvesOwnership ==
  \A n \in Node :
    disc[n].handle # NoHandle /\ disc[n].handle = store.handle =>
      store.owner = n /\ store.generation = disc[n].generation

\* The lease object passes from one owner to another only once it has expired
\* on the clock of the node that takes it (plan_claim, behind a read that may
\* be long outdated when the write is served).
TakeoverOnlyAfterExpiry ==
  store.handle # NoHandle /\ store'.handle # NoHandle /\ store'.owner # store.owner
     => store.expires_at < now + skew[store'.owner]

\* While the object exists its expiry never moves back, so no late or repeated
\* write shortens a lease that a newer renew or take-over extended.
ExpiryNeverMovesBack ==
  store.handle # NoHandle /\ store'.handle # NoHandle
     => store'.expires_at >= store.expires_at

\* The generation counts the take-overs since the object was created: + 1 when
\* the owner changes, unchanged when an owner renews or re-claims its own lease.
GenerationCountsTakeovers ==
  store.handle # NoHandle /\ store'.handle # NoHandle
     => store'.generation = store.generation
          + (IF store'.owner = store.owner THEN 0 ELSE 1)

\* A lease never reaches further than one TTL past the clock of its owner: a
\* node that dies leaves a lease that every other node sees expire.
LeaseIsBounded ==
  store.handle # NoHandle => store.expires_at <= Clock(store.owner) + TTL

\* The lease object disappears only by a delete that its own owner asked for:
\* a release that arrives late, or by a node that was displaced meanwhile, is
\* conditional on a handle that is no longer current and deletes nothing.
OnlyTheOwnerDeletes ==
  store.handle # NoHandle /\ store'.handle = NoHandle
     => \E p \in Pending :
          p.kind = "delete" /\ p.by = store.owner /\ p.prev = store.handle

\* A node that is told that it was displaced (renew_lease: stop leading now)
\* really has no lease to renew, and does not get it back before it claims
\* again: an answer that is lost or late is never taken for a displacement.
DisplacedHasNoLease ==
  \A n \in Node : displaced[n] => disc[n].handle = NoHandle \/ disc[n].handle # store.handle

\* The lease as the abstract lock sees it.
Lock == INSTANCE LeaseLock WITH
  Slack <- MaxSkew, time <- now,
  holder <- store.owner, term <- store.generation, until <- store.expires_at

\* The strengthening that makes the safety of the lease inductive: the named
\* parts above, that a current handle proves ownership, and the bound on expiry.
LeaseInv ==
  /\ HandlesAreIssued
  /\ CurrentHandleProvesOwnership
  /\ RequestsAreOK
  /\ ClaimReachesFurthest
  /\ LeaseIsBounded

\* What holds of the lease at any time: every current handle is the owner's, no
\* lease reaches past a TTL, and a node is told that it was displaced only when
\* it was (Discovery).
LeaseOK ==
  /\ TypeOK
  /\ LeaseInv
  /\ DisplacedHasNoLease

\* What no step may do to the lease object, however late the write that it
\* serves: take a lease that has not expired, shorten one, skip or repeat a
\* generation, delete the lease of another (plan_claim, renew, release).
LeaseMoves ==
  [][/\ TakeoverOnlyAfterExpiry
     /\ ExpiryNeverMovesBack
     /\ GenerationCountsTakeovers
     /\ OnlyTheOwnerDeletes]_vars

\* The protocol implements the abstract lock: one holder at a time, take-over
\* only after expiry, terms that count take-overs, grants bounded by the TTL.
ImplementsLock == Lock!Spec

\* What the comment on LeaseState.generation says: it rises at every change of
\* leader and is fit to be a fencing token, so two nodes that both still have a
\* handle (one of them displaced without knowing it) have different generations.
FencingTokenUnique ==
  \A m, n \in Node :
    m # n /\ disc[m].handle # NoHandle /\ disc[n].handle # NoHandle
      => disc[m].generation # disc[n].generation
=============================================================================
