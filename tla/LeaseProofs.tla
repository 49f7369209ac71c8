----------------------------- MODULE LeaseProofs -----------------------------
(***************************************************************************)
(* Proofs about module Lease, for any nodes, any TTL and any bound.        *)
(***************************************************************************)
EXTENDS Lease, TLAPS

USE LeaseAssumption

-----------------------------------------------------------------------------
(* Types *)

\* A put is a request when its parts are numbers.
LEMMA PutType ==
  ASSUME NEW n \in Node, NEW prev \in Nat, NEW g \in Nat, NEW at \in Nat
  PROVE  Put(n, prev, g, at) \in Request
  BY DEF Put, Request

\* So is a delete.
LEMMA DeleteType ==
  ASSUME NEW n \in Node, NEW prev \in Nat
  PROVE  Delete(n, prev) \in Request
  BY DEF Delete, Request

\* A thread at rest is a thread.
LEMMA IdleType ==
  ASSUME NEW n \in Node
  PROVE  Idle(n) \in Thread
  BY DeleteType DEF Idle, Thread, LeaseOp, NoHandle

\* What plan_claim decides on is a request.
LEMMA PlanClaimType ==
  ASSUME NEW n \in Node, NEW s \in LeaseRecord, NEW at \in Nat
  PROVE  PlanClaim(n, s, at) \in Request
<1>1. s.handle \in Nat /\ s.generation \in Nat
  BY DEF LeaseRecord
<1>2. (CASE s.handle = NoHandle -> 1
         [] s.handle # NoHandle /\ s.owner = n -> s.generation
         [] OTHER -> s.generation + 1) \in Nat
  BY <1>1
<1> QED
  BY <1>1, <1>2, PutType DEF PlanClaim

\* Serving a request keeps the store's types.
LEMMA ServeType ==
  ASSUME TypeOK, NEW r \in Request, Serve(r)
  PROVE  store' \in LeaseRecord /\ issued' \in Nat
<1>1. Applied(r) \in LeaseRecord
  BY DEF Applied, Request, LeaseRecord, TypeOK, NoLease, NoHandle
<1> QED
  BY <1>1 DEF Serve, TypeOK

\* A thread's request is a request.
LEMMA ThreadReqType ==
  ASSUME TypeOK, NEW n \in Node
  PROVE  thread[n].req \in Request /\ thread[n].at \in Nat /\ Clock(n) \in Nat
  BY DEF TypeOK, Thread, Clock

\* Type correctness is preserved by every step.
LEMMA TypeStep == TypeOK /\ [Next]_vars => TypeOK'
<1> SUFFICES ASSUME TypeOK, [Next]_vars
             PROVE  TypeOK'
  OBVIOUS
<1>1. ASSUME NEW n \in Node, NEW op \in {"Claim", "Renew"}, BeginQuery(n, op)
      PROVE  TypeOK'
  <2> DEFINE t == [thread[n] EXCEPT !.pc = "read", !.op = op, !.at = Clock(n)]
  <2>c. Clock(n) \in Nat /\ thread[n] \in Thread
    BY ThreadReqType DEF TypeOK
  <2>a. t \in Thread
    BY <2>c DEF Thread, LeaseOp
  <2>b. thread' = [thread EXCEPT ![n] = t]
    BY <1>1 DEF BeginQuery
  <2>1. thread' \in [Node -> Thread]
    BY <2>a, <2>b DEF TypeOK
  <2> QED
    BY <1>1, <2>1 DEF BeginQuery, Begin, Report, TypeOK
<1>2. ASSUME NEW n \in Node, BeginRenew(n)
      PROVE  TypeOK'
  <2>1. Put(n, disc[n].handle, disc[n].generation, Clock(n)) \in Request
    BY ThreadReqType, PutType DEF TypeOK
  <2>2. thread' \in [Node -> Thread]
    BY <1>2, <2>1, ThreadReqType DEF BeginRenew, TypeOK, Thread, LeaseOp
  <2> QED
    BY <1>2, <2>2 DEF BeginRenew, Begin, Report, TypeOK
<1>3. ASSUME NEW n \in Node, BeginRelease(n)
      PROVE  TypeOK'
  <2>1. Delete(n, disc[n].handle) \in Request
    BY DeleteType DEF TypeOK
  <2>2. thread' \in [Node -> Thread]
    BY <1>3, <2>1, ThreadReqType DEF BeginRelease, TypeOK, Thread, LeaseOp
  <2>3. disc' \in [Node -> [handle : Nat, generation : Nat]]
    BY <1>3 DEF BeginRelease, TypeOK, NoHandle
  <2> QED
    BY <1>3, <2>2, <2>3 DEF BeginRelease, Begin, Report, TypeOK
<1>4. ASSUME NEW n \in Node, ReadAnswered(n)
      PROVE  TypeOK'
  <2>1. PlanClaim(n, store, thread[n].at) \in Request
    BY ThreadReqType, PlanClaimType DEF TypeOK
  <2> DEFINE t == [thread[n] EXCEPT !.pc = "send", !.req = PlanClaim(n, store, thread[n].at)]
  <2>a. t \in Thread
    BY ZenonT(30), <2>1 DEF TypeOK, Thread
  <2>b. thread' = [thread EXCEPT ![n] = t] \/ thread' = [thread EXCEPT ![n] = Idle(n)]
    BY <1>4 DEF ReadAnswered
  <2>2. thread' \in [Node -> Thread]
    BY <2>a, <2>b, IdleType DEF TypeOK
  <2> QED
    BY <1>4, <2>2 DEF ReadAnswered, Report, TypeOK
<1>5. ASSUME NEW n \in Node, ReadFailed(n)
      PROVE  TypeOK'
  BY <1>5, IdleType DEF ReadFailed, Report, TypeOK
<1>6. ASSUME NEW n \in Node, SendAnswered(n)
      PROVE  TypeOK'
  <2>1. store' \in LeaseRecord /\ issued' \in Nat
    BY <1>6, ThreadReqType, ServeType DEF SendAnswered
  <2>2. disc' \in [Node -> [handle : Nat, generation : Nat]]
    BY <1>6, ThreadReqType DEF SendAnswered, TypeOK, Request
  <2> QED
    BY <1>6, <2>1, <2>2, IdleType DEF SendAnswered, Report, TypeOK
<1>7. ASSUME NEW n \in Node, SendFailed(n)
      PROVE  TypeOK'
  <2>1. late' \in SUBSET Request
    BY <1>7, ThreadReqType DEF SendFailed, TypeOK
  <2> QED
    BY <1>7, <2>1, IdleType DEF SendFailed, Report, TypeOK
<1>8. ASSUME NEW n \in Node, Restart(n)
      PROVE  TypeOK'
  <2>1. late' \in SUBSET Request
    BY <1>8, ThreadReqType DEF Restart, TypeOK
  <2>2. disc' \in [Node -> [handle : Nat, generation : Nat]]
    BY <1>8 DEF Restart, TypeOK, NoHandle
  <2> QED
    BY <1>8, <2>1, <2>2, IdleType DEF Restart, Report, TypeOK
<1>9. ASSUME NEW r \in late, LateArrives(r)
      PROVE  TypeOK'
  BY <1>9, ServeType DEF LateArrives, TypeOK
<1>10. CASE Tick
  BY <1>10 DEF Tick, TypeOK
<1>11. CASE UNCHANGED vars
  BY <1>11 DEF vars, TypeOK
<1> QED
  BY <1>1, <1>2, <1>3, <1>4, <1>5, <1>6, <1>7, <1>8, <1>9, <1>10, <1>11
  DEF Next, NodeNext

\* The initial state has the right types.
LEMMA InitType == Init => TypeOK
  BY IdleType DEF Init, TypeOK, NoLease, LeaseRecord, NoHandle

\* Every reachable state of the lease protocol is well typed.
THEOREM TypeCorrect == Spec => []TypeOK
<1>1. Init => TypeOK
  BY InitType
<1>2. TypeOK /\ [Next]_vars => TypeOK'
  BY TypeStep
<1> QED
  BY <1>1, <1>2, PTL DEF Spec

-----------------------------------------------------------------------------
(* What serving one request does to the store, and to everybody else *)

\* A pending request is a request, and its node is a node.
LEMMA PendingType ==
  ASSUME TypeOK
  PROVE  Pending \subseteq Request
  BY ThreadReqType DEF Pending, TypeOK

\* A served request leaves the store alone, writes a fresh handle within the
\* bounds that PutOK promised, or removes the lease of its own node.
LEMMA ServeEffect ==
  ASSUME TypeOK, LeaseInv, NEW r \in Pending, Serve(r)
  PROVE  \/ store' = store /\ issued' = issued
         \/ /\ r.kind = "put" /\ Matches(r)
            /\ store' = [handle |-> issued + 1, owner |-> r.by,
                         generation |-> r.generation, expires_at |-> r.expires_at]
            /\ issued' = issued + 1
            /\ PutOK(r)
         \/ /\ r.kind = "delete" /\ Matches(r)
            /\ store' = NoLease /\ issued' = issued
            /\ DeleteOK(r)
<1>1. r \in Request
  BY PendingType
<1>2. CASE ~Matches(r)
  BY <1>2 DEF Serve
<1>3. CASE Matches(r) /\ r.kind = "put"
  BY <1>3 DEF Serve, Applied, LeaseInv, RequestsAreOK
<1>4. CASE Matches(r) /\ r.kind = "delete"
  BY <1>4 DEF Serve, Applied, LeaseInv, RequestsAreOK
<1> QED
  BY <1>1, <1>2, <1>3, <1>4 DEF Request

\* No served request spoils another one: a fresh handle is ahead of every
\* handle that a request under way is conditional on.
LEMMA OthersStayOK ==
  ASSUME TypeOK, LeaseInv, NEW r \in Pending, Serve(r), NEW p \in Pending,
         now' = now, skew' = skew
  PROVE  /\ p.prev <= issued'
         /\ IF p.kind = "put" THEN PutOK(p)' ELSE DeleteOK(p)'
<1>1. /\ p \in Request /\ r \in Request
      /\ store \in LeaseRecord /\ issued \in Nat
      /\ p.prev <= issued
      /\ IF p.kind = "put" THEN PutOK(p) ELSE DeleteOK(p)
  BY PendingType DEF TypeOK, LeaseInv, HandlesAreIssued, RequestsAreOK
<1>2. p.prev \in Nat
  BY <1>1 DEF Request
<1>3. CASE store' = store /\ issued' = issued
  BY <1>1, <1>3 DEF PutOK, DeleteOK, Clock
<1>4. CASE store'.handle = issued + 1 /\ issued' = issued + 1
  BY <1>1, <1>2, <1>4 DEF PutOK, DeleteOK, Clock
<1>5. CASE store' = NoLease /\ issued' = issued
  BY <1>1, <1>2, <1>5 DEF PutOK, DeleteOK, Clock, NoLease
<1> QED
  BY <1>3, <1>4, <1>5, ServeEffect

\* Serving a request keeps the store's own invariants.
LEMMA ServeKeepsStore ==
  ASSUME TypeOK, LeaseInv, NEW r \in Pending, Serve(r), now' = now, skew' = skew
  PROVE  /\ store'.handle <= issued'
         /\ issued <= issued'
         /\ IF store'.handle = NoHandle THEN store' = NoLease ELSE store'.owner \in Node
         /\ LeaseIsBounded'
<1>1. r \in Request /\ store \in LeaseRecord /\ issued \in Nat
  BY PendingType DEF TypeOK
<1>2. CASE store' = store /\ issued' = issued
  BY <1>1, <1>2 DEF LeaseInv, HandlesAreIssued, LeaseIsBounded, Clock
<1>3. CASE /\ store' = [handle |-> issued + 1, owner |-> r.by,
                        generation |-> r.generation, expires_at |-> r.expires_at]
           /\ issued' = issued + 1
           /\ PutOK(r)
  BY <1>1, <1>3 DEF PutOK, Request, NoHandle, LeaseIsBounded, Clock
<1>4. CASE store' = NoLease /\ issued' = issued
  BY <1>1, <1>4 DEF NoLease, NoHandle, LeaseIsBounded
<1> QED
  BY <1>2, <1>3, <1>4, ServeEffect

-----------------------------------------------------------------------------
(* The invariant is inductive *)

\* The initial state satisfies the invariant.
LEMMA InitInv == Init => LeaseInv
<1> SUFFICES ASSUME Init PROVE LeaseInv
  OBVIOUS
<1>1. \A n \in Node : thread[n].pc = "idle" /\ thread[n].req.by = n /\ disc[n].handle = 0
  BY DEF Init, Idle, Delete, NoHandle
<1>2. Pending = {}
  BY <1>1 DEF Pending, Init
<1> QED
  BY <1>1, <1>2 DEF Init, LeaseInv, HandlesAreIssued, CurrentHandleProvesOwnership,
     RequestsAreOK, ClaimReachesFurthest, LeaseIsBounded, NoLease, NoHandle

\* A step that leaves store, clocks and handles alone and adds at most the
\* request q, of the node's own and rightly planned, keeps the handle and
\* request parts of the invariant.
LEMMA QuietStep ==
  ASSUME TypeOK, LeaseInv,
         UNCHANGED <<now, skew, store, issued>>,
         NEW q \in Request,
         \A p \in Pending' : p \in Pending \/ p = q,
         q.prev <= issued,
         IF q.kind = "put" THEN PutOK(q) ELSE DeleteOK(q),
         \A n \in Node : disc'[n] = disc[n] \/ disc'[n].handle = NoHandle,
         \A n \in Node : thread'[n].req.by = n
  PROVE  /\ HandlesAreIssued' /\ RequestsAreOK'
         /\ CurrentHandleProvesOwnership' /\ LeaseIsBounded'
<1>1. HandlesAreIssued'
  BY DEF LeaseInv, HandlesAreIssued, TypeOK, NoHandle
<1>2. RequestsAreOK'
  BY DEF LeaseInv, RequestsAreOK, PutOK, DeleteOK, Clock
<1>3. CurrentHandleProvesOwnership'
  BY DEF LeaseInv, CurrentHandleProvesOwnership
<1>4. LeaseIsBounded'
  BY DEF LeaseInv, LeaseIsBounded, Clock
<1> QED
  BY <1>1, <1>2, <1>3, <1>4

\* The same for a step that adds no request at all.
LEMMA IdleStep ==
  ASSUME TypeOK, LeaseInv,
         UNCHANGED <<now, skew, store, issued>>,
         Pending' \subseteq Pending,
         \A n \in Node : disc'[n] = disc[n] \/ disc'[n].handle = NoHandle,
         \A n \in Node : thread'[n].req.by = n
  PROVE  /\ HandlesAreIssued' /\ RequestsAreOK'
         /\ CurrentHandleProvesOwnership' /\ LeaseIsBounded'
<1>1. HandlesAreIssued'
  BY DEF LeaseInv, HandlesAreIssued, TypeOK, NoHandle
<1>2. RequestsAreOK'
  BY DEF LeaseInv, RequestsAreOK, PutOK, DeleteOK, Clock
<1>3. CurrentHandleProvesOwnership'
  BY DEF LeaseInv, CurrentHandleProvesOwnership
<1>4. LeaseIsBounded'
  BY DEF LeaseInv, LeaseIsBounded, Clock
<1> QED
  BY <1>1, <1>2, <1>3, <1>4

\* A thread at rest carries its own node.
LEMMA IdleFacts ==
  ASSUME NEW n \in Node
  PROVE  Idle(n).req.by = n /\ Idle(n).pc = "idle"
  BY DEF Idle, Delete

\* BeginQuery: the claim starts with the present clock, and nothing its node
\* wrote or has under way reaches further than that clock plus a TTL.
LEMMA BeginQueryInv ==
  ASSUME TypeOK, LeaseInv, NEW n \in Node, NEW op \in {"Claim", "Renew"}, BeginQuery(n, op)
  PROVE  LeaseInv'
<1>1. /\ UNCHANGED <<now, skew, store, issued, late, disc>>
      /\ \A m \in Node : m # n => thread'[m] = thread[m]
      /\ thread'[n].pc = "read" /\ thread'[n].at = Clock(n) /\ thread'[n].req = thread[n].req
  BY DEF BeginQuery, Begin, TypeOK, Thread
<1>2. Pending' \subseteq Pending
  BY <1>1 DEF Pending
<1>3. \A m \in Node : thread'[m].req.by = m
  BY <1>1 DEF LeaseInv, HandlesAreIssued
<1>4. /\ HandlesAreIssued' /\ RequestsAreOK'
      /\ CurrentHandleProvesOwnership' /\ LeaseIsBounded'
  BY <1>1, <1>2, <1>3, IdleStep
<1>5. ASSUME NEW m \in Node, thread'[m].pc = "read"
      PROVE  /\ thread'[m].at <= Clock(m)'
             /\ store'.owner = m => store'.expires_at <= thread'[m].at + TTL
             /\ \A p \in late' : p.kind = "put" /\ p.by = m => p.expires_at <= thread'[m].at + TTL
  <2>1. CASE m # n
    BY <1>1, <1>5, <2>1 DEF LeaseInv, ClaimReachesFurthest, Clock
  <2>2. CASE m = n
    <3>1. thread'[m].at <= Clock(m)'
      BY <1>1, <2>2, ThreadReqType DEF Clock
    <3>2. store.owner = n => store.expires_at <= Clock(n) + TTL
      BY DEF LeaseInv, LeaseIsBounded, HandlesAreIssued, NoLease
    <3>3. \A p \in late : p.kind = "put" /\ p.by = n => p.expires_at <= Clock(n) + TTL
      BY DEF LeaseInv, RequestsAreOK, Pending, PutOK
    <3> QED
      BY <1>1, <2>2, <3>1, <3>2, <3>3
  <2> QED
    BY <2>1, <2>2
<1>6. ClaimReachesFurthest'
  BY <1>5 DEF ClaimReachesFurthest
<1> QED
  BY <1>4, <1>6 DEF LeaseInv

\* BeginRenew: the lease it would write is our own if the handle still matches.
LEMMA BeginRenewInv ==
  ASSUME TypeOK, LeaseInv, NEW n \in Node, BeginRenew(n)
  PROVE  LeaseInv'
<1> DEFINE q == Put(n, disc[n].handle, disc[n].generation, Clock(n))
<1>0. Clock(n) \in Nat /\ q \in Request
  BY ThreadReqType, PutType DEF TypeOK
<1>1. /\ UNCHANGED <<now, skew, store, issued, late, disc>>
      /\ \A m \in Node : m # n => thread'[m] = thread[m]
      /\ thread'[n].pc = "send" /\ thread'[n].req = q
      /\ disc[n].handle # NoHandle
  BY DEF BeginRenew, Begin, TypeOK, Thread
<1>2. \A p \in Pending' : p \in Pending \/ p = q
  BY <1>1 DEF Pending
<1>3. \A m \in Node : thread'[m].req.by = m
  BY <1>1 DEF LeaseInv, HandlesAreIssued, Put
<1>4. q.prev <= issued
  BY DEF LeaseInv, HandlesAreIssued, Put
<1>5. q.kind = "put" /\ PutOK(q)
  <2>1. disc[n].handle = store.handle =>
          /\ store.owner = n /\ store.generation = disc[n].generation
          /\ store.expires_at <= Clock(n) + TTL
    BY <1>1 DEF LeaseInv, CurrentHandleProvesOwnership, LeaseIsBounded
  <2> QED
    BY <1>0, <1>1, <2>1 DEF PutOK, Put
<1>6. /\ HandlesAreIssued' /\ RequestsAreOK'
      /\ CurrentHandleProvesOwnership' /\ LeaseIsBounded'
  BY <1>0, <1>1, <1>2, <1>3, <1>4, <1>5, QuietStep
<1>7. ClaimReachesFurthest'
  BY <1>1 DEF LeaseInv, ClaimReachesFurthest, Clock
<1> QED
  BY <1>6, <1>7 DEF LeaseInv

\* BeginRelease: the delete names our own lease if the handle still matches.
LEMMA BeginReleaseInv ==
  ASSUME TypeOK, LeaseInv, NEW n \in Node, BeginRelease(n)
  PROVE  LeaseInv'
<1> DEFINE q == Delete(n, disc[n].handle)
<1>0. q \in Request
  BY DeleteType DEF TypeOK
<1>1. /\ UNCHANGED <<now, skew, store, issued, late>>
      /\ \A m \in Node : m # n => thread'[m] = thread[m] /\ disc'[m] = disc[m]
      /\ disc'[n].handle = NoHandle
      /\ thread[n].pc = "idle"
      /\ \/ disc[n].handle = NoHandle /\ thread'[n] = thread[n]
         \/ disc[n].handle # NoHandle /\ thread'[n].pc = "send" /\ thread'[n].req = q
  BY DEF BeginRelease, Begin, TypeOK, Thread
<1>3. \A m \in Node : thread'[m].req.by = m
  BY <1>1 DEF LeaseInv, HandlesAreIssued, Delete
<1>6. /\ HandlesAreIssued' /\ RequestsAreOK'
      /\ CurrentHandleProvesOwnership' /\ LeaseIsBounded'
  <2>1. CASE disc[n].handle = NoHandle /\ thread'[n] = thread[n]
    <3>1. Pending' \subseteq Pending
      BY <1>1, <2>1 DEF Pending
    <3> QED
      BY <1>1, <1>3, <3>1, IdleStep
  <2>2. CASE disc[n].handle # NoHandle /\ thread'[n].pc = "send" /\ thread'[n].req = q
    <3>1. \A p \in Pending' : p \in Pending \/ p = q
      BY <1>1, <2>2 DEF Pending
    <3>2. q.prev <= issued /\ q.kind = "delete"
      BY DEF LeaseInv, HandlesAreIssued, Delete
    <3>3. DeleteOK(q)
      BY <2>2 DEF LeaseInv, CurrentHandleProvesOwnership, DeleteOK, Delete
    <3> QED
      BY <1>0, <1>1, <1>3, <3>1, <3>2, <3>3, QuietStep
  <2> QED
    BY <1>1, <2>1, <2>2
<1>7. ClaimReachesFurthest'
  BY <1>1 DEF LeaseInv, ClaimReachesFurthest, Clock
<1> QED
  BY <1>6, <1>7 DEF LeaseInv

\* What plan_claim decides on, with the read's own object, is rightly planned.
LEMMA PlanClaimOK ==
  ASSUME TypeOK, LeaseInv, NEW n \in Node, thread[n].pc = "read",
         MayClaim(n, store, thread[n].at)
  PROVE  PutOK(PlanClaim(n, store, thread[n].at))
<1> DEFINE at == thread[n].at
           q == PlanClaim(n, store, at)
<1>1. /\ at \in Nat /\ Clock(n) \in Nat /\ at <= Clock(n)
      /\ store.owner = n => store.expires_at <= at + TTL
      /\ store \in LeaseRecord
  BY ThreadReqType DEF LeaseInv, ClaimReachesFurthest, TypeOK
<1>2. /\ q.prev = store.handle /\ q.by = n /\ q.expires_at = at + TTL
      /\ store.handle = NoHandle => q.generation = 1
      /\ store.handle # NoHandle /\ store.owner = n => q.generation = store.generation
      /\ store.handle # NoHandle /\ store.owner # n => q.generation = store.generation + 1
  BY DEF PlanClaim, Put
<1>3. store.handle # NoHandle /\ store.owner # n => store.expires_at < at
  BY <1>1 DEF MayClaim, LeaseRecord
<1>4. store.expires_at \in Nat /\ store.handle \in Nat
  BY <1>1 DEF LeaseRecord
<1> HIDE DEF q, at
<1>5. store.handle # NoHandle => store.expires_at <= q.expires_at
  BY <1>1, <1>2, <1>3, <1>4
<1>6. store.handle # NoHandle /\ store.owner # n => store.expires_at < Clock(n)
  BY <1>1, <1>3, <1>4
<1>7. q.expires_at <= Clock(n) + TTL
  BY <1>1, <1>2
<1>8. PutOK(q)
  BY <1>2, <1>5, <1>6, <1>7 DEF PutOK
<1> QED
  BY <1>8 DEF q, at

\* ReadAnswered: the plan enters, or the thread rests.
LEMMA ReadAnsweredInv ==
  ASSUME TypeOK, LeaseInv, NEW n \in Node, ReadAnswered(n)
  PROVE  LeaseInv'
<1> DEFINE q == PlanClaim(n, store, thread[n].at)
<1>0. q \in Request
  BY ThreadReqType, PlanClaimType DEF TypeOK
<1>1. /\ UNCHANGED <<now, skew, store, issued, late, disc>>
      /\ \A m \in Node : m # n => thread'[m] = thread[m]
      /\ thread[n].pc = "read"
      /\ \/ /\ MayClaim(n, store, thread[n].at)
            /\ thread'[n].pc = "send" /\ thread'[n].req = q
         \/ thread'[n] = Idle(n)
  <2> DEFINE t == [thread[n] EXCEPT !.pc = "send", !.req = q]
  <2>1. t.pc = "send" /\ t.req = q
    BY DEF TypeOK, Thread
  <2>2. /\ thread[n].pc = "read"
        /\ \/ MayClaim(n, store, thread[n].at) /\ thread' = [thread EXCEPT ![n] = t]
           \/ thread' = [thread EXCEPT ![n] = Idle(n)]
    BY DEF ReadAnswered
  <2>3. UNCHANGED <<now, skew, store, issued, late, disc>>
    BY DEF ReadAnswered
  <2> HIDE DEF t
  <2> QED
    BY <2>1, <2>2, <2>3 DEF TypeOK
<1>2. thread'[n].pc # "read" /\ thread'[n].req.by = n
  BY <1>1, IdleFacts DEF PlanClaim, Put
<1>3. \A m \in Node : thread'[m].req.by = m
  BY <1>1, <1>2 DEF LeaseInv, HandlesAreIssued
<1>6. /\ HandlesAreIssued' /\ RequestsAreOK'
      /\ CurrentHandleProvesOwnership' /\ LeaseIsBounded'
  <2>1. CASE thread'[n] = Idle(n)
    <3>1. Pending' \subseteq Pending
      BY <1>1, <2>1, IdleFacts DEF Pending
    <3> QED
      BY <1>1, <1>3, <3>1, IdleStep
  <2>2. CASE /\ MayClaim(n, store, thread[n].at)
             /\ thread'[n].pc = "send" /\ thread'[n].req = q
    <3>1. \A p \in Pending' : p \in Pending \/ p = q
      BY <1>1, <2>2 DEF Pending
    <3>2. q.prev <= issued /\ q.kind = "put"
      BY DEF LeaseInv, HandlesAreIssued, PlanClaim, Put
    <3>3. PutOK(q)
      BY <1>1, <2>2, PlanClaimOK
    <3> QED
      BY <1>0, <1>1, <1>3, <3>1, <3>2, <3>3, QuietStep
  <2> QED
    BY <1>1, <2>1, <2>2
<1>7. ClaimReachesFurthest'
  BY <1>1, <1>2 DEF LeaseInv, ClaimReachesFurthest, Clock
<1> QED
  BY <1>6, <1>7 DEF LeaseInv

\* The thread comes to rest without an answer; its request may stay under way.
LEMMA RestInv ==
  ASSUME TypeOK, LeaseInv, NEW n \in Node,
         UNCHANGED <<now, skew, store, issued>>,
         thread' = [thread EXCEPT ![n] = Idle(n)],
         \/ late' = late
         \/ thread[n].pc = "send" /\ late' = late \cup {thread[n].req},
         \A m \in Node : disc'[m] = disc[m] \/ disc'[m].handle = NoHandle
  PROVE  LeaseInv'
<1>1. /\ \A m \in Node : m # n => thread'[m] = thread[m]
      /\ thread'[n].pc = "idle" /\ thread'[n].req.by = n
  BY IdleFacts DEF TypeOK
<1>2. Pending' \subseteq Pending
  BY <1>1 DEF Pending
<1>3. \A m \in Node : thread'[m].req.by = m
  BY <1>1 DEF LeaseInv, HandlesAreIssued
<1>4. /\ HandlesAreIssued' /\ RequestsAreOK'
      /\ CurrentHandleProvesOwnership' /\ LeaseIsBounded'
  BY <1>2, <1>3, IdleStep
<1>5. thread[n].req.by = n
  BY DEF LeaseInv, HandlesAreIssued
<1>6. ClaimReachesFurthest'
  BY <1>1, <1>5 DEF LeaseInv, ClaimReachesFurthest, Clock
<1> QED
  BY <1>4, <1>6 DEF LeaseInv

\* SendAnswered: the fresh handle is its own node's, and stale everywhere else.
LEMMA SendAnsweredInv ==
  ASSUME TypeOK, LeaseInv, NEW n \in Node, SendAnswered(n)
  PROVE  LeaseInv'
<1> DEFINE r == thread[n].req
<1>0. r \in Pending /\ r \in Request /\ r.by = n
  BY ThreadReqType DEF SendAnswered, Pending, LeaseInv, HandlesAreIssued
<1>1. /\ UNCHANGED <<now, skew, late>> /\ Serve(r)
      /\ \A m \in Node : m # n => thread'[m] = thread[m] /\ disc'[m] = disc[m]
      /\ thread'[n].pc = "idle" /\ thread'[n].req.by = n
      /\ IF r.kind = "put" /\ Matches(r)
           THEN disc'[n].handle = issued + 1 /\ disc'[n].generation = r.generation
           ELSE disc'[n] = disc[n]
  BY IdleFacts DEF SendAnswered, TypeOK
<1>2. Pending' \subseteq Pending
  BY <1>1 DEF Pending
<1> HIDE DEF r
<1>3. /\ store'.handle <= issued' /\ issued <= issued'
      /\ IF store'.handle = NoHandle THEN store' = NoLease ELSE store'.owner \in Node
      /\ LeaseIsBounded'
  BY <1>0, <1>1, ServeKeepsStore
<1>4. RequestsAreOK' /\ \A p \in Pending' : p.prev <= issued'
  BY <1>0, <1>1, <1>2, OthersStayOK DEF RequestsAreOK
<1>5. \/ store' = store /\ issued' = issued /\ ~(r.kind = "put" /\ Matches(r))
      \/ /\ r.kind = "put" /\ Matches(r) /\ issued' = issued + 1
         /\ store' = [handle |-> issued + 1, owner |-> r.by,
                      generation |-> r.generation, expires_at |-> r.expires_at]
      \/ store' = NoLease /\ issued' = issued /\ ~(r.kind = "put" /\ Matches(r))
  <2>2. CASE r.kind = "put" /\ Matches(r)
    BY <1>1, <2>2 DEF Serve, Applied
  <2>3. CASE r.kind # "put" /\ Matches(r)
    BY <1>1, <2>3 DEF Serve, Applied
  <2>4. CASE ~Matches(r)
    BY <1>1, <2>4 DEF Serve
  <2> QED
    BY <2>2, <2>3, <2>4
<1>6. \A m \in Node : /\ disc[m].handle \in Nat /\ disc[m].handle <= issued
                      /\ thread[m].req.by = m
  BY DEF LeaseInv, HandlesAreIssued, TypeOK
<1>7. issued \in Nat /\ store.handle \in Nat
  BY DEF TypeOK, LeaseRecord
<1>8. \A m \in Node : disc'[m].handle <= issued' /\ thread'[m].req.by = m
  BY <1>0, <1>1, <1>5, <1>6, <1>7
<1>9. HandlesAreIssued'
  BY <1>3, <1>4, <1>8 DEF HandlesAreIssued
<1>10. CurrentHandleProvesOwnership'
  <2>1. CASE store' = store /\ issued' = issued /\ ~(r.kind = "put" /\ Matches(r))
    BY <1>1, <2>1 DEF LeaseInv, CurrentHandleProvesOwnership
  <2>2. CASE /\ r.kind = "put" /\ Matches(r) /\ issued' = issued + 1
             /\ store' = [handle |-> issued + 1, owner |-> r.by,
                          generation |-> r.generation, expires_at |-> r.expires_at]
    BY <1>0, <1>1, <1>6, <1>7, <2>2 DEF CurrentHandleProvesOwnership
  <2>3. CASE store' = NoLease
    BY <2>3 DEF CurrentHandleProvesOwnership, NoLease
  <2> QED
    BY <1>5, <2>1, <2>2, <2>3
<1>11. ClaimReachesFurthest'
  <2>1. \A m \in Node : thread'[m].pc = "read" => m # n /\ thread'[m] = thread[m]
    BY <1>1
  <2>2. \A m \in Node : m # n /\ store'.owner = m => store' = store
    BY <1>0, <1>5 DEF NoLease
  <2> QED
    BY <1>1, <2>1, <2>2 DEF LeaseInv, ClaimReachesFurthest, Clock
<1> QED
  BY <1>3, <1>4, <1>9, <1>10, <1>11 DEF LeaseInv

\* LateArrives: whatever its node does by now, the bounds were promised when it was sent.
LEMMA LateArrivesInv ==
  ASSUME TypeOK, LeaseInv, NEW r \in late, LateArrives(r)
  PROVE  LeaseInv'
<1>0. r \in Pending /\ r \in Request
  BY DEF Pending, TypeOK
<1>1. UNCHANGED <<now, skew, disc, thread>> /\ Serve(r) /\ late' \subseteq late
  BY DEF LateArrives
<1>2. Pending' \subseteq Pending
  BY <1>1 DEF Pending
<1>3. /\ store'.handle <= issued' /\ issued <= issued'
      /\ IF store'.handle = NoHandle THEN store' = NoLease ELSE store'.owner \in Node
      /\ LeaseIsBounded'
  BY <1>0, <1>1, ServeKeepsStore
<1>4. RequestsAreOK' /\ \A p \in Pending' : p.prev <= issued'
  BY <1>0, <1>1, <1>2, OthersStayOK DEF RequestsAreOK
<1>5. issued \in Nat /\ issued' \in Nat
  BY <1>0, <1>1, ServeType DEF TypeOK
<1>6. \A m \in Node : /\ disc[m].handle \in Nat /\ disc[m].handle <= issued
                      /\ thread[m].req.by = m
  BY DEF LeaseInv, HandlesAreIssued, TypeOK
<1>7. HandlesAreIssued'
  BY <1>1, <1>3, <1>4, <1>5, <1>6 DEF HandlesAreIssued
<1>8. \/ store' = store
      \/ /\ store'.handle = issued + 1 /\ store'.owner = r.by
         /\ store'.expires_at = r.expires_at /\ r.kind = "put"
      \/ store' = NoLease
  BY <1>0, <1>1, ServeEffect
<1>9. CurrentHandleProvesOwnership'
  BY <1>1, <1>5, <1>6, <1>8
  DEF LeaseInv, CurrentHandleProvesOwnership, NoLease
<1>10. ClaimReachesFurthest'
  BY <1>1, <1>8 DEF LeaseInv, ClaimReachesFurthest, Clock, NoLease
<1> QED
  BY <1>3, <1>4, <1>7, <1>9, <1>10 DEF LeaseInv

\* Tick: all bounds are upper bounds on what was written, and clocks only advance.
LEMMA TickInv ==
  ASSUME TypeOK, LeaseInv, Tick
  PROVE  LeaseInv'
<1>1. /\ UNCHANGED <<skew, store, issued, disc, thread, late>> /\ now' = now + 1
      /\ Pending' = Pending
  BY DEF Tick, Pending
<1>2. \A n \in Node : Clock(n) \in Nat /\ Clock(n)' = Clock(n) + 1
  BY <1>1, ThreadReqType DEF Clock, TypeOK
<1>3. HandlesAreIssued' /\ CurrentHandleProvesOwnership'
  BY <1>1 DEF LeaseInv, HandlesAreIssued, CurrentHandleProvesOwnership
<1>4. RequestsAreOK'
  <2> SUFFICES ASSUME NEW p \in Pending
               PROVE  IF p.kind = "put" THEN PutOK(p)' ELSE DeleteOK(p)'
    BY <1>1 DEF RequestsAreOK
  <2>1. /\ p \in Request /\ p.by \in Node /\ p.expires_at \in Nat
        /\ IF p.kind = "put" THEN PutOK(p) ELSE DeleteOK(p)
    BY PendingType DEF Request, LeaseInv, RequestsAreOK
  <2>2. store.expires_at \in Nat
    BY DEF TypeOK, LeaseRecord
  <2> QED
    BY <1>1, <1>2, <2>1, <2>2 DEF PutOK, DeleteOK
<1>5. ClaimReachesFurthest'
  BY <1>1, <1>2, ThreadReqType DEF LeaseInv, ClaimReachesFurthest
<1>6. LeaseIsBounded'
  <2>1. store.expires_at \in Nat /\ (store.handle # NoHandle => store.owner \in Node)
    BY DEF TypeOK, LeaseRecord, LeaseInv, HandlesAreIssued
  <2> QED
    BY <1>1, <1>2, <2>1 DEF LeaseInv, LeaseIsBounded
<1> QED
  BY <1>3, <1>4, <1>5, <1>6 DEF LeaseInv

\* Every step of the protocol preserves the invariant.
LEMMA InvStep == TypeOK /\ LeaseInv /\ [Next]_vars => LeaseInv'
<1> SUFFICES ASSUME TypeOK, LeaseInv, [Next]_vars
             PROVE  LeaseInv'
  OBVIOUS
<1>1. ASSUME NEW n \in Node, NodeNext(n)
      PROVE  LeaseInv'
  <2>1. CASE ReadFailed(n)
    BY <2>1, RestInv DEF ReadFailed
  <2>2. CASE SendFailed(n)
    BY <2>2, RestInv DEF SendFailed
  <2>3. CASE Restart(n)
    <3>1. \A m \in Node : disc'[m] = disc[m] \/ disc'[m].handle = NoHandle
      BY <2>3 DEF Restart, TypeOK
    <3> QED
      BY <2>3, <3>1, RestInv DEF Restart
  <2> QED
    BY <1>1, <2>1, <2>2, <2>3, BeginQueryInv, BeginRenewInv, BeginReleaseInv,
       ReadAnsweredInv, SendAnsweredInv DEF NodeNext
<1>2. CASE UNCHANGED vars
  BY <1>2 DEF vars, LeaseInv, HandlesAreIssued, CurrentHandleProvesOwnership, RequestsAreOK,
     ClaimReachesFurthest, LeaseIsBounded, Pending, PutOK, DeleteOK, Clock
<1> QED
  BY <1>1, <1>2, LateArrivesInv, TickInv DEF Next

\* The inductive invariant holds in every reachable state.
THEOREM LeaseSafe == Spec => []LeaseInv
<1>1. Init => LeaseInv
  BY InitInv
<1>2. TypeOK /\ LeaseInv /\ [Next]_vars => LeaseInv'
  BY InvStep
<1> QED
  BY <1>1, <1>2, TypeCorrect, PTL DEF Spec

\* A node whose handle is the current one owns the lease, at its own generation.
THEOREM HandleSafe == Spec => []CurrentHandleProvesOwnership
<1>1. LeaseInv => CurrentHandleProvesOwnership
  BY DEF LeaseInv
<1> QED
  BY <1>1, LeaseSafe, PTL

\* A lease never reaches further than one TTL past its owner's clock.
THEOREM LeaseBounded == Spec => []LeaseIsBounded
<1>1. LeaseInv => LeaseIsBounded
  BY DEF LeaseInv
<1> QED
  BY <1>1, LeaseSafe, PTL

-----------------------------------------------------------------------------
(* What a step may do to the lease object *)

\* A step leaves the lease object alone or serves one pending request; only
\* then, and while it does, no clock moves.
LEMMA StoreChange ==
  ASSUME TypeOK, LeaseInv, [Next]_vars
  PROVE  \/ store' = store /\ (now' = now \/ now' = now + 1)
         \/ \E r \in Pending : Serve(r) /\ now' = now /\ skew' = skew
<1>1. ASSUME NEW n \in Node, NodeNext(n)
      PROVE  \/ store' = store /\ now' = now
             \/ \E r \in Pending : Serve(r) /\ now' = now /\ skew' = skew
  <2>1. CASE SendAnswered(n)
    <3>1. thread[n].req \in Pending
      BY <2>1 DEF SendAnswered, Pending
    <3> QED
      BY <2>1, <3>1 DEF SendAnswered
  <2>2. CASE ~SendAnswered(n)
    BY <1>1, <2>2 DEF NodeNext, BeginQuery, BeginRenew, BeginRelease, Begin,
       ReadAnswered, ReadFailed, SendFailed, Restart
  <2> QED
    BY <2>1, <2>2
<1>2. ASSUME NEW r \in late, LateArrives(r)
      PROVE  r \in Pending /\ Serve(r) /\ now' = now /\ skew' = skew
  BY <1>2 DEF LateArrives, Pending
<1>3. CASE Tick
  BY <1>3 DEF Tick
<1>4. CASE UNCHANGED vars
  BY <1>4 DEF vars
<1> QED
  BY <1>1, <1>2, <1>3, <1>4 DEF Next

\* The five ways in which a step may change the lease object, with all that is
\* known of the two objects.
LEMMA ObjectChange ==
  ASSUME TypeOK, LeaseInv, [Next]_vars
  PROVE  \/ store' = store /\ (now' = now \/ now' = now + 1)
         \/ /\ now' = now
            /\ store.handle # NoHandle /\ store.owner \in Node /\ store' = NoLease
            /\ \E p \in Pending : /\ p.kind = "delete"
                                  /\ p.by = store.owner /\ p.prev = store.handle
         \/ /\ now' = now
            /\ store'.handle # NoHandle /\ store'.owner \in Node
            /\ store'.expires_at \in Nat
            /\ store'.expires_at <= now + skew[store'.owner] + TTL
            /\ \/ store = NoLease /\ store'.generation = 1
               \/ /\ store.handle # NoHandle /\ store.owner = store'.owner
                  /\ store'.generation = store.generation
                  /\ store'.expires_at >= store.expires_at
               \/ /\ store.handle # NoHandle /\ store.owner \in Node
                  /\ store.owner # store'.owner
                  /\ store'.generation = store.generation + 1
                  /\ store'.expires_at >= store.expires_at
                  /\ store.expires_at < now + skew[store'.owner]
<1>1. CASE store' = store /\ (now' = now \/ now' = now + 1)
  BY <1>1
<1>2. ASSUME NEW r \in Pending, Serve(r), now' = now, skew' = skew, store' # store
      PROVE  \/ /\ store.handle # NoHandle /\ store.owner \in Node /\ store' = NoLease
                /\ r.kind = "delete" /\ r.by = store.owner /\ r.prev = store.handle
             \/ /\ store'.handle # NoHandle /\ store'.owner \in Node
                /\ store'.expires_at \in Nat
                /\ store'.expires_at <= now + skew[store'.owner] + TTL
                /\ \/ store = NoLease /\ store'.generation = 1
                   \/ /\ store.handle # NoHandle /\ store.owner = store'.owner
                      /\ store'.generation = store.generation
                      /\ store'.expires_at >= store.expires_at
                   \/ /\ store.handle # NoHandle /\ store.owner \in Node
                      /\ store.owner # store'.owner
                      /\ store'.generation = store.generation + 1
                      /\ store'.expires_at >= store.expires_at
                      /\ store.expires_at < now + skew[store'.owner]
  <2>1. /\ r \in Request /\ r.by \in Node /\ r.expires_at \in Nat
        /\ issued \in Nat /\ store \in LeaseRecord /\ store.expires_at \in Nat
    BY PendingType DEF Request, TypeOK, LeaseRecord
  <2>2. IF store.handle = NoHandle THEN store = NoLease ELSE store.owner \in Node
    BY DEF LeaseInv, HandlesAreIssued
  <2>3. CASE r.kind = "delete" /\ Matches(r) /\ store' = NoLease /\ DeleteOK(r)
    BY <2>2, <2>3 DEF DeleteOK, Matches
  <2>4. CASE /\ r.kind = "put" /\ Matches(r) /\ PutOK(r)
             /\ store' = [handle |-> issued + 1, owner |-> r.by,
                          generation |-> r.generation, expires_at |-> r.expires_at]
    <3>1. /\ store'.handle # NoHandle /\ store'.owner = r.by
          /\ store'.expires_at = r.expires_at /\ store'.generation = r.generation
      BY <2>1, <2>4 DEF NoHandle
    <3> QED
      BY <2>1, <2>2, <2>4, <3>1 DEF PutOK, Matches, Clock
  <2> QED
    BY <1>2, <2>3, <2>4, ServeEffect
<1> QED
  BY <1>1, <1>2, StoreChange

\* A live lease passes to another owner only once it has expired on its clock.
THEOREM TakeoverSafe == Spec => [][TakeoverOnlyAfterExpiry]_vars
<1>1. TypeOK /\ LeaseInv /\ [Next]_vars => [TakeoverOnlyAfterExpiry]_vars
  BY ObjectChange DEF NoLease, TakeoverOnlyAfterExpiry
<1> QED
  BY <1>1, TypeCorrect, LeaseSafe, PTL DEF Spec

\* No write, however late, moves the expiry of an existing lease back.
THEOREM ExpirySafe == Spec => [][ExpiryNeverMovesBack]_vars
<1>1. TypeOK /\ LeaseInv /\ [Next]_vars => [ExpiryNeverMovesBack]_vars
  BY ObjectChange DEF NoLease, TypeOK, LeaseRecord, ExpiryNeverMovesBack
<1> QED
  BY <1>1, TypeCorrect, LeaseSafe, PTL DEF Spec

\* The generation counts the changes of owner since the object was created.
THEOREM GenerationSafe == Spec => [][GenerationCountsTakeovers]_vars
<1>1. TypeOK /\ LeaseInv /\ [Next]_vars => [GenerationCountsTakeovers]_vars
  BY ObjectChange DEF NoLease, TypeOK, LeaseRecord, GenerationCountsTakeovers
<1> QED
  BY <1>1, TypeCorrect, LeaseSafe, PTL DEF Spec

\* Only a delete of the present owner, on its present handle, removes the object.
THEOREM DeleteSafe == Spec => [][OnlyTheOwnerDeletes]_vars
<1>1. TypeOK /\ LeaseInv /\ [Next]_vars => [OnlyTheOwnerDeletes]_vars
  BY ObjectChange DEF OnlyTheOwnerDeletes
<1> QED
  BY <1>1, TypeCorrect, LeaseSafe, PTL DEF Spec

\* The four together, as the run checks them.
THEOREM MovesSafe == Spec => LeaseMoves
  BY TakeoverSafe, ExpirySafe, GenerationSafe, DeleteSafe, PTL DEF LeaseMoves

-----------------------------------------------------------------------------
(* Displacement *)

\* The two parts that are inductive together.
DisplacedInv == RenewNamesItsHandle /\ DisplacedHasNoLease

\* A step that keeps the store and the handle of every node, or drops that handle,
\* and displaces nobody anew keeps the verdicts right.
LEMMA VerdictsStay ==
  ASSUME TypeOK, DisplacedHasNoLease, store' = store,
         \A m \in Node : disc'[m].handle = disc[m].handle \/ disc'[m].handle = NoHandle,
         \A m \in Node : displaced'[m] => displaced[m] \/ disc'[m].handle = NoHandle
                                             \/ disc'[m].handle # store.handle
  PROVE  DisplacedHasNoLease'
  BY DEF DisplacedHasNoLease

\* A store that serves a request gives out no handle that a node already has.
LEMMA ServeIsFresh ==
  ASSUME TypeOK, LeaseInv, NEW r \in Pending, Serve(r), NEW m \in Node
  PROVE  disc[m].handle # NoHandle /\ disc[m].handle = store'.handle
           => disc[m].handle = store.handle
<1>1. disc[m].handle \in Nat /\ disc[m].handle <= issued /\ issued \in Nat
  BY DEF TypeOK, LeaseInv, HandlesAreIssued
<1>2. CASE store' = store
  BY <1>2
<1>3. CASE store'.handle = issued + 1
  BY <1>1, <1>3
<1>4. CASE store' = NoLease
  BY <1>4 DEF NoLease
<1> QED
  BY <1>2, <1>3, <1>4, ServeEffect

\* Every step keeps both parts.
LEMMA DisplacedStep == TypeOK /\ LeaseInv /\ DisplacedInv /\ [Next]_vars => DisplacedInv'
<1> SUFFICES ASSUME TypeOK, LeaseInv, DisplacedInv, [Next]_vars
             PROVE  DisplacedInv'
  OBVIOUS
<1> USE DEF DisplacedInv
<1>1. ASSUME NEW n \in Node, NodeNext(n)
      PROVE  DisplacedInv'
  <2>0. Idle(n).pc = "idle" /\ Idle(n).op = "Claim"
    BY DEF Idle
  <2>1. CASE \E op \in {"Claim", "Renew"} : BeginQuery(n, op)
    <3>1. RenewNamesItsHandle'
      BY <2>1 DEF RenewNamesItsHandle, BeginQuery, Begin, TypeOK, Thread
    <3>2. DisplacedHasNoLease'
      BY <2>1, VerdictsStay DEF BeginQuery, Begin, Report, TypeOK
    <3> QED
      BY <3>1, <3>2
  <2>2. CASE BeginRenew(n)
    <3>1. RenewNamesItsHandle'
      BY <2>2 DEF RenewNamesItsHandle, BeginRenew, Begin, TypeOK, Thread, Put
    <3>2. DisplacedHasNoLease'
      BY <2>2, VerdictsStay DEF BeginRenew, Begin, Report, TypeOK
    <3> QED
      BY <3>1, <3>2
  <2>3. CASE BeginRelease(n)
    <3>0. \A m \in Node : disc'[m].handle = disc[m].handle \/ disc'[m].handle = NoHandle
      BY <2>3 DEF BeginRelease, TypeOK
    <3>1. RenewNamesItsHandle'
      BY <2>3, <3>0 DEF RenewNamesItsHandle, BeginRelease, Begin, TypeOK, Thread
    <3>2. DisplacedHasNoLease'
      BY <2>3, <3>0, VerdictsStay DEF BeginRelease, Begin, Report, TypeOK
    <3> QED
      BY <3>1, <3>2
  <2>4. CASE ReadAnswered(n)
    <3>1. RenewNamesItsHandle'
      <4>1. thread'[n].op = "Renew" => disc[n].handle = NoHandle
        <5>1. thread'[n].op = "Renew" => thread[n].op = "Renew" /\ thread[n].pc = "read"
          BY ZenonT(30), <2>0, <2>4 DEF ReadAnswered, TypeOK, Thread
        <5> QED
          BY <5>1 DEF RenewNamesItsHandle
      <4>2. disc' = disc /\ \A m \in Node \ {n} : thread'[m] = thread[m]
        BY <2>4 DEF ReadAnswered, TypeOK
      <4> QED
        BY <4>1, <4>2 DEF RenewNamesItsHandle
    <3>2. \A m \in Node : displaced'[m] => displaced[m] \/ disc'[m].handle = NoHandle
      BY <2>4 DEF RenewNamesItsHandle, ReadAnswered, Report, TypeOK
    <3>3. DisplacedHasNoLease'
      BY <2>4, <3>2, VerdictsStay DEF ReadAnswered
    <3> QED
      BY <3>1, <3>3
  <2>5. CASE ReadFailed(n) \/ SendFailed(n)
    <3>1. RenewNamesItsHandle'
      BY <2>0, <2>5 DEF RenewNamesItsHandle, ReadFailed, SendFailed, TypeOK, Thread
    <3>2. DisplacedHasNoLease'
      BY <2>5, VerdictsStay DEF ReadFailed, SendFailed, Report, TypeOK
    <3> QED
      BY <3>1, <3>2
  <2>6. CASE SendAnswered(n)
    <3>1. thread[n].req \in Pending /\ Serve(thread[n].req)
      BY <2>6 DEF SendAnswered, Pending
    <3>2. RenewNamesItsHandle'
      BY <2>0, <2>6 DEF RenewNamesItsHandle, SendAnswered, TypeOK, Thread
    <3>3. ASSUME NEW m \in Node, displaced'[m]
          PROVE  disc'[m].handle = NoHandle \/ disc'[m].handle # store'.handle
      <4>1. CASE m # n
        <5>1. disc'[m] = disc[m] /\ displaced[m]
          BY <2>6, <3>3, <4>1 DEF SendAnswered, Report, TypeOK
        <5> QED
          BY <3>1, <5>1, ServeIsFresh DEF DisplacedHasNoLease
      <4>2. CASE m = n
        <5>1. thread[n].op = "Renew" /\ ~Matches(thread[n].req)
          BY <2>6, <3>3, <4>2 DEF SendAnswered, Report, TypeOK
        <5>2. disc' = disc /\ store' = store
          BY <2>6, <3>1, <5>1 DEF SendAnswered, Serve
        <5> QED
          BY <2>6, <4>2, <5>1, <5>2 DEF RenewNamesItsHandle, SendAnswered, Matches
      <4> QED
        BY <4>1, <4>2
    <3> QED
      BY <3>2, <3>3 DEF DisplacedHasNoLease
  <2>7. CASE Restart(n)
    <3>0. \A m \in Node : disc'[m].handle = disc[m].handle \/ disc'[m].handle = NoHandle
      BY <2>7 DEF Restart, TypeOK
    <3>1. RenewNamesItsHandle'
      BY <2>0, <2>7, <3>0 DEF RenewNamesItsHandle, Restart, TypeOK, Thread
    <3>2. DisplacedHasNoLease'
      BY <2>7, <3>0, VerdictsStay DEF Restart, Report, TypeOK
    <3> QED
      BY <3>1, <3>2
  <2> QED
    BY <1>1, <2>1, <2>2, <2>3, <2>4, <2>5, <2>6, <2>7 DEF NodeNext
<1>2. ASSUME NEW r \in late, LateArrives(r)
      PROVE  DisplacedInv'
  <2>1. r \in Pending /\ Serve(r)
    BY <1>2 DEF LateArrives, Pending
  <2>2. RenewNamesItsHandle'
    BY <1>2 DEF RenewNamesItsHandle, LateArrives
  <2>3. DisplacedHasNoLease'
    BY <1>2, <2>1, ServeIsFresh DEF DisplacedHasNoLease, LateArrives
  <2> QED
    BY <2>2, <2>3
<1>3. CASE Tick \/ UNCHANGED vars
  BY <1>3 DEF Tick, vars, RenewNamesItsHandle, DisplacedHasNoLease
<1> QED
  BY <1>1, <1>2, <1>3 DEF Next

\* A node that is told that it was displaced has no lease to renew.
THEOREM DisplacedSafe == Spec => []DisplacedHasNoLease
<1>1. Init => DisplacedInv
  BY DEF Init, DisplacedInv, RenewNamesItsHandle, DisplacedHasNoLease, Idle
<1>2. TypeOK /\ LeaseInv /\ DisplacedInv /\ [Next]_vars => DisplacedInv'
  BY DisplacedStep
<1>3. DisplacedInv => DisplacedHasNoLease
  BY DEF DisplacedInv
<1> QED
  BY <1>1, <1>2, <1>3, TypeCorrect, LeaseSafe, PTL DEF Spec

\* The invariants together, as the run checks them.
THEOREM LeaseIsOK == Spec => []LeaseOK
<1>1. TypeOK /\ LeaseInv /\ DisplacedHasNoLease => LeaseOK
  BY DEF LeaseOK
<1> QED
  BY <1>1, TypeCorrect, LeaseSafe, DisplacedSafe, PTL

-----------------------------------------------------------------------------
(* Refinement *)

\* Every step of the protocol is a step of the abstract lock or a stutter.
LEMMA LockStep == TypeOK /\ LeaseInv /\ [Next]_vars => [Lock!Next]_Lock!lockVars
<1> SUFFICES ASSUME TypeOK, LeaseInv, [Next]_vars
             PROVE  [Lock!Next]_Lock!lockVars
  OBVIOUS
<1>0. /\ now \in Nat /\ store.expires_at \in Nat /\ store.generation \in Nat
      /\ \A n \in Node : skew[n] \in Nat /\ skew[n] <= MaxSkew
  BY DEF TypeOK, LeaseRecord
<1>1. CASE store' = store /\ now' = now
  BY <1>1 DEF Lock!lockVars
<1>2. CASE store' = store /\ now' = now + 1
  BY <1>0, <1>2 DEF Lock!Next, Lock!Advance
<1>3. CASE now' = now /\ store.handle # NoHandle /\ store.owner \in Node /\ store' = NoLease
  BY <1>3 DEF Lock!Next, Lock!Drop, NoLease
<1>4. CASE /\ now' = now /\ store'.owner \in Node /\ store'.expires_at \in Nat
           /\ store'.expires_at <= now + skew[store'.owner] + TTL
           /\ \/ store = NoLease /\ store'.generation = 1
              \/ /\ store.owner = store'.owner
                 /\ store'.generation = store.generation
                 /\ store'.expires_at >= store.expires_at
              \/ /\ store.owner \in Node /\ store.owner # store'.owner
                 /\ store'.generation = store.generation + 1
                 /\ store'.expires_at >= store.expires_at
                 /\ store.expires_at < now + skew[store'.owner]
  <2> DEFINE n == store'.owner
  <2>1. Lock!Grant(store.expires_at)'
    BY <1>0, <1>4 DEF Lock!Grant
  <2>2. CASE store = NoLease /\ store'.generation = 1
    BY <1>4, <2>1, <2>2 DEF Lock!Next, Lock!Acquire, Lock!Grant, NoLease
  <2>3. CASE /\ store.owner = store'.owner /\ store'.generation = store.generation
             /\ store'.expires_at >= store.expires_at
    BY <1>4, <2>1, <2>3 DEF Lock!Next, Lock!Extend, Lock!Grant
  <2>4. CASE /\ store.owner \in Node /\ store.owner # store'.owner
             /\ store'.generation = store.generation + 1
             /\ store'.expires_at >= store.expires_at
             /\ store.expires_at < now + skew[store'.owner]
    BY <1>0, <1>4, <2>1, <2>4 DEF Lock!Next, Lock!TakeOver, Lock!Grant
  <2> QED
    BY <1>4, <2>2, <2>3, <2>4
<1> QED
  BY <1>1, <1>2, <1>3, <1>4, ObjectChange

\* The compare-and-swap protocol implements the abstract lock.
THEOREM LeaseImplementsLock == Spec => ImplementsLock
<1>1. Init => Lock!Init
  BY DEF Init, Lock!Init, NoLease
<1>2. TypeOK /\ LeaseInv /\ [Next]_vars => [Lock!Next]_Lock!lockVars
  BY LockStep
<1> QED
  BY <1>1, <1>2, TypeCorrect, LeaseSafe, PTL DEF Spec, ImplementsLock, Lock!Spec
=============================================================================
