---------------------------- MODULE ElectionProofs ----------------------------
(***************************************************************************)
(* Proofs about module Election: the invariant of the elector, its lease   *)
(* thread and the leader half, whatever order ticks, late answers, failed  *)
(* loads and restarts come in, and however many calls are at the link      *)
(* thread.  A leader whose late failures make it claim has strayed; what   *)
(* is left of the invariant for it is that its releases are two at most.   *)
(***************************************************************************)
EXTENDS Election, QueueLemmas

-----------------------------------------------------------------------------
(* The inductive invariant *)

\* The operations of kind op, and the answers to them.
Only(op) == {op}

Answers(op) == {r \in LeaseReply : r.kind = op}

\* The operations of kind op that are out, with the queues as parameters.
Out(d, m, op) == Tally(d.ops, Only(op)) + Tally(m, Answers(op))

Flag(b) == IF b THEN 1 ELSE 0

\* At most one operation of each kind is out, and its flag says so.
Counted(d, m) ==
  /\ Out(d, m, "Read") = Flag(d.reading)
  /\ Out(d, m, "Claim") = Flag(d.claiming)
  /\ Out(d, m, "Renew") = Flag(d.renewing)

DiscOK(d, m) ==
  /\ d \in Elector
  /\ Counted(d, m)
  /\ d.claimed => ~d.claiming

\* The releases that the lease thread has to serve.
Pending(d) == Tally(d.ops, Only("Release"))

\* No claim is out that the lease thread serves before the first release in its
\* queue: the node cannot win the lease before that release is past.
Guarded(d, m) ==
  \E k \in DOMAIN d.ops :
    /\ d.ops[k] = "Release"
    /\ ~d.claimed
    /\ Tally(m, Answers("Claim")) = 0
    /\ \A i \in 1..k : d.ops[i] # "Claim"

\* A step that leaves the releases where they are.
Carried(d, m, e, k) == Pending(e) = Pending(d) /\ (Guarded(d, m) => Guarded(e, k))

\* A leader that has not strayed has nothing to claim and nothing to release.  One
\* that has leads with one release in the queue at most, ahead of every claim, and
\* so there are never more than two.
Tidy(s, m) ==
  /\ Pending(s.disc) <= 2
  /\ Pending(s.disc) = 2 => ~s.leading /\ Guarded(s.disc, m)
  /\ Pending(s.disc) = 1 /\ s.leading => Guarded(s.disc, m)
  /\ ~s.strayed =>
       /\ Pending(s.disc) <= 1
       /\ Pending(s.disc) = 1 => Guarded(s.disc, m)
       /\ s.leading => Pending(s.disc) = 0 /\ ~s.disc.claiming /\ ~s.disc.claimed

\* What holds of the owner between the steps of one handler.
OwnerOK(s, m) ==
  /\ s \in Owner
  /\ DiscOK(s.disc, m)
  /\ Tidy(s, m)
  /\ s.half # "off" => s.leading \/ s.out.kind = "StopLeader"
  /\ s.out.kind \in {"Register", "Heartbeat"} => ~s.leading
  /\ s.out.kind = "StartLeader" => s.leading

\* Until the boot claim is handled nothing else has been answered: on a host
\* nothing is asked, on HopOS the claim is the first to be answered.
Booting(s, m, l) ==
  s.boot =>
    /\ l = <<>> /\ ~s.leading /\ s.last_leader = NoNode /\ ~Fresh(s.disc)
    /\ s.platform = "HopOS" =>
         /\ s.disc.claiming
         /\ \/ m # <<>> /\ Head(m).kind = "Claim"
            \/ m = <<>> /\ s.disc.ops # <<>> /\ Head(s.disc.ops) = "Claim"
    /\ s.platform # "HopOS" => m = <<>> /\ s.disc.ops = <<>>

\* The node at rest: nothing is left to execute.
AtRest(s, m) == OwnerOK(s, m) /\ s.out = Local("None")

\* A load that the leader half waits for is queued, or on its way.
Awaits(s, q, l) ==
  s.half = "loading" => l > 0 \/ \E i \in DOMAIN q : q[i] = "Load"

ElectionIInv ==
  /\ TypeOK
  /\ AtRest(own, mail)
  /\ own.fail_count < ISOLATED_AFTER
  /\ Booting(own, mail, link)
  /\ Awaits(own, stateq, loads)

-----------------------------------------------------------------------------
(* The elector *)

\* What a step of the elector keeps that a node relies on while it boots.
Quietly(d, e) ==
  /\ Fresh(e) => Fresh(d)
  /\ d.ops # <<>> => e.ops # <<>> /\ Head(e.ops) = Head(d.ops)

\* What Send does to an elector.
LEMMA SendFields ==
  ASSUME NEW d \in Elector, NEW op \in LeaseOp
  PROVE  /\ Send(d, op) \in Elector
         /\ Send(d, op) = [d EXCEPT !.ops = Append(d.ops, op)]
<1>1. d.ops \in Seq(LeaseOp)
  BY DEF Elector
<1>2. Append(d.ops, op) \in Seq(LeaseOp)
  BY <1>1, Appended
<1>3. Send(d, op) = [d EXCEPT !.ops = Append(d.ops, op)]
  BY DEF Send
<1> QED
  BY <1>2, <1>3 DEF Elector

\* The tallies are natural numbers, and zero when nothing of the kind is queued.
LEMMA Tallies ==
  ASSUME NEW d \in Elector, NEW m \in Seq(LeaseReply)
  PROVE  /\ \A x : Tally(d.ops, Only(x)) \in Nat /\ Tally(m, Answers(x)) \in Nat
         /\ \A x : Tally(d.ops, Only(x)) = 0 <=> \A i \in DOMAIN d.ops : d.ops[i] # x
<1>1. d.ops \in Seq(LeaseOp)
  BY DEF Elector
<1>2. \A x : Tally(d.ops, Only(x)) \in Nat /\ Tally(m, Answers(x)) \in Nat
  BY <1>1, Tallied
<1>3. \A x : Tally(d.ops, Only(x)) = 0 <=> \A i \in DOMAIN d.ops : d.ops[i] \notin Only(x)
  BY <1>1, Tallied
<1> QED
  BY <1>2, <1>3 DEF Only

\* What sending an operation does to the queue.
LEMMA Queued ==
  ASSUME NEW d \in Elector, NEW op \in LeaseOp
  PROVE  /\ Append(d.ops, op) \in Seq(LeaseOp) /\ Append(d.ops, op) # <<>>
         /\ \A x : Tally(Append(d.ops, op), Only(x)) = Tally(d.ops, Only(x)) + (IF op = x THEN 1 ELSE 0)
         /\ d.ops # <<>> => Head(Append(d.ops, op)) = Head(d.ops)
         /\ Len(d.ops) \in Nat /\ DOMAIN d.ops = 1..Len(d.ops)
         /\ DOMAIN Append(d.ops, op) = 1..Len(d.ops) + 1
         /\ Append(d.ops, op)[Len(d.ops) + 1] = op
         /\ \A i \in 1..Len(d.ops) : Append(d.ops, op)[i] = d.ops[i]
<1> DEFINE q == Append(d.ops, op)
<1>1. d.ops \in Seq(LeaseOp)
  BY DEF Elector
<1>2. \A x : Tally(q, Only(x)) = Tally(d.ops, Only(x)) + (IF op \in Only(x) THEN 1 ELSE 0)
  BY <1>1, TallyAppended
<1>3. \A x : Tally(q, Only(x)) = Tally(d.ops, Only(x)) + (IF op = x THEN 1 ELSE 0)
  <2> SUFFICES ASSUME NEW x
               PROVE  Tally(q, Only(x)) = Tally(d.ops, Only(x)) + (IF op = x THEN 1 ELSE 0)
    OBVIOUS
  <2>1. op \in Only(x) <=> op = x
    BY DEF Only
  <2> QED
    BY <1>2, <2>1 DEF Flag
<1>4. /\ q \in Seq(LeaseOp) /\ q # <<>> /\ (d.ops # <<>> => Head(q) = Head(d.ops))
      /\ DOMAIN q = 1..Len(d.ops) + 1 /\ q[Len(d.ops) + 1] = op
      /\ \A i \in 1..Len(d.ops) : q[i] = d.ops[i]
  BY <1>1, Appended, Sequence
<1>5. Len(d.ops) \in Nat /\ DOMAIN d.ops = 1..Len(d.ops)
  BY <1>1, Sequence
<1> QED
  BY <1>3, <1>4, <1>5

\* A step that touches neither the queue nor the flags keeps DiscOK.
LEMMA DiscFrame ==
  ASSUME NEW d, NEW e \in Elector, NEW m, DiscOK(d, m),
         e.ops = d.ops, e.reading = d.reading, e.claiming = d.claiming,
         e.renewing = d.renewing, e.claimed => d.claimed
  PROVE  DiscOK(e, m) /\ Carried(d, m, e, m)
  BY DEF DiscOK, Counted, Carried, Pending, Guarded, Out, Flag

\* An operation whose kind is not out is sent.
LEMMA DiscSend ==
  ASSUME NEW d, NEW e \in Elector, NEW m \in Seq(LeaseReply), DiscOK(d, m),
         NEW op \in {"Read", "Claim", "Renew"}, e.ops = Append(d.ops, op),
         e.reading <=> d.reading \/ op = "Read",
         e.claiming <=> d.claiming \/ op = "Claim",
         e.renewing <=> d.renewing \/ op = "Renew",
         op = "Read" => ~d.reading, op = "Claim" => ~d.claiming /\ ~d.claimed,
         op = "Renew" => ~d.renewing,
         e.claimed <=> d.claimed
  PROVE  DiscOK(e, m) /\ Carried(d, m, e, m)
         /\ (d.ops # <<>> => e.ops # <<>> /\ Head(e.ops) = Head(d.ops))
<1>1. d \in Elector /\ op \in LeaseOp
  BY DEF DiscOK, LeaseOp
<1>11. \A x : Tally(Append(d.ops, op), Only(x)) = Tally(d.ops, Only(x)) + (IF op = x THEN 1 ELSE 0)
  BY <1>1, Queued
<1>0. \A x : Tally(e.ops, Only(x)) = Tally(d.ops, Only(x)) + (IF op = x THEN 1 ELSE 0)
  BY <1>11
<1>2. /\ e.ops # <<>>
      /\ d.ops # <<>> => Head(e.ops) = Head(d.ops)
      /\ Len(d.ops) \in Nat /\ DOMAIN d.ops = 1..Len(d.ops)
      /\ DOMAIN e.ops = 1..Len(d.ops) + 1
      /\ e.ops[Len(d.ops) + 1] = op
      /\ \A i \in 1..Len(d.ops) : e.ops[i] = d.ops[i]
  BY <1>1, Queued
<1>3. \A x : Tally(d.ops, Only(x)) \in Nat /\ Tally(m, Answers(x)) \in Nat
  BY <1>1, Tallies
<1>4. Tally(e.ops, Only("Release")) = Tally(d.ops, Only("Release"))
  BY <1>0, <1>3 DEF Flag
<1>5. /\ d.reading \in BOOLEAN /\ d.claiming \in BOOLEAN /\ d.renewing \in BOOLEAN
      /\ d.claimed \in BOOLEAN
  BY <1>1 DEF Elector
<1>6. Out(e, m, "Read") = Flag(e.reading)
  <2>1. Out(d, m, "Read") = Flag(d.reading)
    BY DEF DiscOK, Counted
  <2>2. Tally(d.ops, Only("Read")) \in Nat /\ Tally(m, Answers("Read")) \in Nat
    BY <1>3
  <2>3. Tally(e.ops, Only("Read")) = Tally(d.ops, Only("Read")) + (IF op = "Read" THEN 1 ELSE 0)
    BY <1>0
  <2> QED
    BY <2>1, <2>2, <2>3 DEF Out, Flag
<1>7. Out(e, m, "Claim") = Flag(e.claiming)
  <2>1. Out(d, m, "Claim") = Flag(d.claiming)
    BY DEF DiscOK, Counted
  <2>2. Tally(d.ops, Only("Claim")) \in Nat /\ Tally(m, Answers("Claim")) \in Nat
    BY <1>3
  <2>3. Tally(e.ops, Only("Claim")) = Tally(d.ops, Only("Claim")) + (IF op = "Claim" THEN 1 ELSE 0)
    BY <1>0
  <2> QED
    BY <2>1, <2>2, <2>3 DEF Out, Flag
<1>8. Out(e, m, "Renew") = Flag(e.renewing)
  <2>1. Out(d, m, "Renew") = Flag(d.renewing)
    BY DEF DiscOK, Counted
  <2>2. Tally(d.ops, Only("Renew")) \in Nat /\ Tally(m, Answers("Renew")) \in Nat
    BY <1>3
  <2>3. Tally(e.ops, Only("Renew")) = Tally(d.ops, Only("Renew")) + (IF op = "Renew" THEN 1 ELSE 0)
    BY <1>0
  <2> QED
    BY <2>1, <2>2, <2>3 DEF Out, Flag
<1>9. Guarded(d, m) => Guarded(e, m)
  <2> SUFFICES ASSUME NEW k \in DOMAIN d.ops, d.ops[k] = "Release", ~d.claimed,
                      Tally(m, Answers("Claim")) = 0, \A i \in 1..k : d.ops[i] # "Claim"
               PROVE  Guarded(e, m)
    BY DEF Guarded
  <2>1. k \in DOMAIN e.ops /\ e.ops[k] = "Release"
    BY <1>2
  <2>2. \A i \in 1..k : i \in 1..Len(d.ops)
    BY <1>2
  <2>3. \A i \in 1..k : e.ops[i] # "Claim"
    BY <1>2, <2>2
  <2> QED
    BY <2>1, <2>3 DEF Guarded
<1>10. e.claimed => ~e.claiming
  BY <1>5 DEF DiscOK
<1> QED
  BY <1>2, <1>4, <1>6, <1>7, <1>8, <1>9, <1>10 DEF DiscOK, Counted, Carried, Pending

\* The elector's cadence sends a renew only when none is out.
LEMMA ElectorTicks ==
  ASSUME NEW d, NEW m \in Seq(LeaseReply), DiscOK(d, m)
  PROVE  LET e == ElectorTick(d) IN
         /\ DiscOK(e, m) /\ Quietly(d, e)
         /\ Carried(d, m, e, m)
         /\ e.claiming = d.claiming /\ e.claimed = d.claimed
<1>1. d \in Elector
  BY DEF DiscOK
<1>2. CASE RenewDue(d)
  <2> DEFINE e == [Send(d, "Renew") EXCEPT !.renewing = TRUE, !.renew_in = RenewEvery]
  <2>1. Send(d, "Renew") \in Elector /\ Send(d, "Renew") = [d EXCEPT !.ops = Append(d.ops, "Renew")]
    BY <1>1, SendFields DEF LeaseOp
  <2>0. RenewEvery \in 0..RenewEvery
    BY ElectionAssumption
  <2>2. /\ e \in Elector /\ e.ops = Append(d.ops, "Renew") /\ e.renewing = TRUE
        /\ e.reading = d.reading /\ e.claiming = d.claiming
        /\ e.claimed = d.claimed /\ e.age = d.age
    BY <1>1, <2>0, <2>1 DEF Elector
  <2>3. d.reading \in BOOLEAN /\ d.claiming \in BOOLEAN /\ ~d.renewing
    BY <1>1, <1>2 DEF Elector, RenewDue
  <2>4. ElectorTick(d) = e
    BY <1>2 DEF ElectorTick
  <2> HIDE DEF e
  <2>5. /\ DiscOK(e, m) /\ Carried(d, m, e, m)
        /\ (d.ops # <<>> => e.ops # <<>> /\ Head(e.ops) = Head(d.ops))
    BY <2>2, <2>3, DiscSend
  <2> QED
    BY <2>2, <2>4, <2>5 DEF Quietly, Fresh
<1>3. CASE ~RenewDue(d)
  BY <1>3 DEF ElectorTick, Quietly, Carried
<1> QED
  BY <1>2, <1>3

\* get_leader sends a read only when none is out.
LEMMA AskingLeader ==
  ASSUME NEW d, NEW m \in Seq(LeaseReply), DiscOK(d, m)
  PROVE  LET e == AskLeader(d) IN
         /\ DiscOK(e, m) /\ Quietly(d, e)
         /\ Carried(d, m, e, m)
         /\ e.claiming = d.claiming /\ e.claimed = d.claimed
<1>1. d \in Elector
  BY DEF DiscOK
<1>2. CASE ~(Fresh(d) \/ d.reading)
  <2> DEFINE e == [Send(d, "Read") EXCEPT !.reading = TRUE]
  <2>1. Send(d, "Read") \in Elector /\ Send(d, "Read") = [d EXCEPT !.ops = Append(d.ops, "Read")]
    BY <1>1, SendFields DEF LeaseOp
  <2>2. /\ e \in Elector /\ e.ops = Append(d.ops, "Read") /\ e.reading = TRUE
        /\ e.renewing = d.renewing /\ e.claiming = d.claiming
        /\ e.claimed = d.claimed /\ e.age = d.age
    BY <1>1, <2>1 DEF Elector
  <2>3. d.renewing \in BOOLEAN /\ d.claiming \in BOOLEAN /\ ~d.reading
    BY <1>1, <1>2 DEF Elector
  <2>4. AskLeader(d) = e
    BY <1>2 DEF AskLeader
  <2> HIDE DEF e
  <2>5. /\ DiscOK(e, m) /\ Carried(d, m, e, m)
        /\ (d.ops # <<>> => e.ops # <<>> /\ Head(e.ops) = Head(d.ops))
    BY <2>2, <2>3, DiscSend
  <2> QED
    BY <2>2, <2>4, <2>5 DEF Quietly, Fresh
<1>3. CASE Fresh(d) \/ d.reading
  BY <1>3 DEF AskLeader, Quietly, Carried
<1> QED
  BY <1>2, <1>3

\* A claim that was won is used up, and then nothing is left to claim and no
\* release is guarded; a claim that is out stays out.
LEMMA TryingToLead ==
  ASSUME NEW d, NEW m \in Seq(LeaseReply), DiscOK(d, m)
  PROVE  LET e == TryBecomeLeader(d) IN
         /\ DiscOK(e, m) /\ Quietly(d, e)
         /\ Carried(d, m, e, m)
         /\ ~e.claimed
         /\ d.claiming => e.claiming
         /\ d.claimed => ~e.claiming /\ ~Guarded(d, m)
         /\ ~d.claimed /\ ~Claims(d) => e = d
<1>1. d \in Elector
  BY DEF DiscOK
<1>2. CASE d.claimed
  <2> DEFINE e == [d EXCEPT !.claimed = FALSE]
  <2>1. /\ e \in Elector /\ e.ops = d.ops /\ e.reading = d.reading /\ e.claiming = d.claiming
        /\ e.renewing = d.renewing /\ ~e.claimed /\ e.age = d.age
    BY <1>1 DEF Elector
  <2>2. TryBecomeLeader(d) = e
    BY <1>2 DEF TryBecomeLeader
  <2>3. ~d.claiming /\ ~Guarded(d, m)
    BY <1>2 DEF DiscOK, Guarded
  <2> HIDE DEF e
  <2>4. DiscOK(e, m) /\ Carried(d, m, e, m)
    BY <2>1, DiscFrame
  <2> QED
    BY <1>2, <2>1, <2>2, <2>3, <2>4 DEF Quietly, Fresh
<1>3. CASE ~d.claimed /\ (d.holding \/ d.claiming)
  BY <1>3 DEF TryBecomeLeader, Quietly, Carried
<1>4. CASE ~d.claimed /\ ~(d.holding \/ d.claiming)
  <2> DEFINE e == [Send(d, "Claim") EXCEPT !.claiming = TRUE]
  <2>1. Send(d, "Claim") \in Elector /\ Send(d, "Claim") = [d EXCEPT !.ops = Append(d.ops, "Claim")]
    BY <1>1, SendFields DEF LeaseOp
  <2>2. /\ e \in Elector /\ e.ops = Append(d.ops, "Claim") /\ e.claiming = TRUE
        /\ e.renewing = d.renewing /\ e.reading = d.reading
        /\ e.claimed = d.claimed /\ e.age = d.age
    BY <1>1, <2>1 DEF Elector
  <2>3. d.renewing \in BOOLEAN /\ d.reading \in BOOLEAN /\ ~d.claiming /\ ~d.claimed
    BY <1>1, <1>4 DEF Elector
  <2>4. TryBecomeLeader(d) = e
    BY <1>4 DEF TryBecomeLeader
  <2> HIDE DEF e
  <2>5. /\ DiscOK(e, m) /\ Carried(d, m, e, m)
        /\ (d.ops # <<>> => e.ops # <<>> /\ Head(e.ops) = Head(d.ops))
    BY <2>2, <2>3, DiscSend
  <2>6. Claims(d)
    BY <1>4 DEF Claims
  <2> QED
    BY <2>2, <2>3, <2>4, <2>5, <2>6 DEF Quietly, Fresh
<1> QED
  BY <1>2, <1>3, <1>4

\* Without a claim won or out, a release in the queue is guarded.
LEMMA Unclaimed ==
  ASSUME NEW d, NEW m \in Seq(LeaseReply), DiscOK(d, m),
         ~d.claiming, ~d.claimed, Pending(d) # 0
  PROVE  Guarded(d, m)
<1>1. d \in Elector
  BY DEF DiscOK
<1>2. d.ops \in Seq(LeaseOp)
  BY <1>1 DEF Elector
<1>3. /\ Tally(d.ops, Only("Claim")) \in Nat /\ Tally(m, Answers("Claim")) \in Nat
      /\ Tally(d.ops, Only("Claim")) = 0 <=> \A i \in DOMAIN d.ops : d.ops[i] # "Claim"
      /\ Tally(d.ops, Only("Release")) = 0 <=> \A i \in DOMAIN d.ops : d.ops[i] # "Release"
  BY <1>1, Tallies
<1>4. Tally(d.ops, Only("Claim")) = 0 /\ Tally(m, Answers("Claim")) = 0
  BY <1>3 DEF DiscOK, Counted, Out, Flag
<1>5. PICK k \in DOMAIN d.ops : d.ops[k] = "Release"
  BY <1>3 DEF Pending
<1>6. \A i \in 1..k : i \in DOMAIN d.ops
  BY <1>2, Sequence
<1> QED
  BY <1>3, <1>4, <1>5, <1>6 DEF Guarded

\* A release is sent; it is guarded when no claim is out, or when one ahead is.
LEMMA Releasing ==
  ASSUME NEW d, NEW m \in Seq(LeaseReply), DiscOK(d, m)
  PROVE  LET e == ReleaseLeadership(d) IN
         /\ DiscOK(e, m) /\ Pending(e) = Pending(d) + 1
         /\ Guarded(d, m) \/ ~d.claiming => Guarded(e, m)
<1> DEFINE e == ReleaseLeadership(d)
<1>1. d \in Elector /\ "Release" \in LeaseOp
  BY DEF DiscOK, LeaseOp
<1>2. Send(d, "Release") \in Elector /\ Send(d, "Release") = [d EXCEPT !.ops = Append(d.ops, "Release")]
  BY <1>1, SendFields
<1>0. 0 \in 0..TTL
  BY ElectionAssumption
<1>3. /\ e \in Elector /\ e.ops = Append(d.ops, "Release") /\ e.reading = d.reading
      /\ e.claiming = d.claiming /\ e.renewing = d.renewing /\ ~e.claimed
  BY ZenonT(30), <1>0, <1>1, <1>2 DEF Elector, ReleaseLeadership
<1> HIDE DEF e
<1>4. \A x : Tally(Append(d.ops, "Release"), Only(x)) = Tally(d.ops, Only(x)) + (IF "Release" = x THEN 1 ELSE 0)
  BY <1>1, Queued
<1>5. \A x : Tally(e.ops, Only(x)) = Tally(d.ops, Only(x)) + (IF "Release" = x THEN 1 ELSE 0)
  BY <1>3, <1>4
<1>6. /\ Len(d.ops) \in Nat /\ DOMAIN d.ops = 1..Len(d.ops)
      /\ DOMAIN e.ops = 1..Len(d.ops) + 1
      /\ \A i \in 1..Len(d.ops) : e.ops[i] = d.ops[i]
  BY <1>1, <1>3, Queued
<1>7. \A x : Tally(d.ops, Only(x)) \in Nat
  BY <1>1, Tallies
<1>8. /\ Tally(e.ops, Only("Read")) = Tally(d.ops, Only("Read"))
      /\ Tally(e.ops, Only("Claim")) = Tally(d.ops, Only("Claim"))
      /\ Tally(e.ops, Only("Renew")) = Tally(d.ops, Only("Renew"))
      /\ Tally(e.ops, Only("Release")) = Tally(d.ops, Only("Release")) + 1
      /\ Tally(e.ops, Only("Release")) # 0
  BY <1>5, <1>7
<1>9. DiscOK(e, m) /\ Pending(e) = Pending(d) + 1 /\ Pending(e) # 0
  BY <1>3, <1>8 DEF DiscOK, Counted, Out, Pending
<1>10. ~d.claiming => Guarded(e, m)
  BY <1>3, <1>9, Unclaimed
<1>11. Guarded(d, m) => Guarded(e, m)
  <2> SUFFICES ASSUME NEW k \in DOMAIN d.ops, d.ops[k] = "Release",
                      Tally(m, Answers("Claim")) = 0, \A i \in 1..k : d.ops[i] # "Claim"
               PROVE  Guarded(e, m)
    BY DEF Guarded
  <2>1. k \in DOMAIN e.ops /\ e.ops[k] = "Release"
    BY <1>6
  <2>2. \A i \in 1..k : i \in 1..Len(d.ops)
    BY <1>6
  <2>3. \A i \in 1..k : e.ops[i] # "Claim"
    BY <1>6, <2>2
  <2> QED
    BY <1>3, <2>1, <2>3 DEF Guarded
<1> QED
  BY <1>9, <1>10, <1>11 DEF e

\* What taking an answer from the mail does to its tallies.
LEMMA Answered ==
  ASSUME NEW m \in Seq(LeaseReply), m # <<>>
  PROVE  /\ Head(m) \in LeaseReply /\ Tail(m) \in Seq(LeaseReply)
         /\ Head(m).kind \in {"Read", "Claim", "Renew"}
         /\ \A k : Tally(Tail(m), Answers(k)) \in Nat
         /\ \A k : Tally(m, Answers(k)) = Tally(Tail(m), Answers(k))
                                            + (IF Head(m).kind = k THEN 1 ELSE 0)
<1>1. Head(m) \in LeaseReply /\ Tail(m) \in Seq(LeaseReply)
  BY Tailed
<1>2. \A k : Tally(m, Answers(k)) \in Nat /\ Tally(Tail(m), Answers(k)) \in Nat
  BY <1>1, Tallied
<1>3. \A k : Tally(Tail(m), Answers(k)) = Tally(m, Answers(k))
                                            - (IF Head(m) \in Answers(k) THEN 1 ELSE 0)
  BY TallyTailed
<1>4. \A k : Head(m) \in Answers(k) <=> Head(m).kind = k
  BY <1>1 DEF Answers
<1>5. Head(m).kind \in {"Read", "Claim", "Renew"}
  BY <1>1 DEF LeaseReply
<1> QED
  BY <1>1, <1>2, <1>3, <1>4, <1>5

\* An answer that is handled clears the flag of its kind.
LEMMA DiscAnswer ==
  ASSUME NEW d, NEW e \in Elector, NEW m \in Seq(LeaseReply), m # <<>>, DiscOK(d, m),
         e.ops = d.ops,
         e.reading <=> d.reading /\ Head(m).kind # "Read",
         e.claiming <=> d.claiming /\ Head(m).kind # "Claim",
         e.renewing <=> d.renewing /\ Head(m).kind # "Renew",
         e.claimed => d.claimed \/ Head(m).kind = "Claim"
  PROVE  DiscOK(e, Tail(m)) /\ Carried(d, m, e, Tail(m))
<1> DEFINE k == Head(m).kind
           T(x) == Tally(d.ops, Only(x))
           U(x) == Tally(Tail(m), Answers(x))
<1>1. d \in Elector
  BY DEF DiscOK
<1>2. \A x : T(x) \in Nat /\ U(x) \in Nat
  BY <1>1, Tallies, Answered
<1>3. \A x : Tally(m, Answers(x)) = U(x) + (IF k = x THEN 1 ELSE 0)
  BY Answered
<1>4. Out(e, Tail(m), "Read") = Flag(e.reading)
  <2>1. /\ T("Read") + Tally(m, Answers("Read")) = IF d.reading THEN 1 ELSE 0
        /\ Out(e, Tail(m), "Read") = T("Read") + U("Read")
    BY DEF DiscOK, Counted, Out, Flag
  <2> HIDE DEF T, U, k
  <2> QED
    BY <1>2, <1>3, <2>1 DEF Flag, k
<1>5. Out(e, Tail(m), "Claim") = Flag(e.claiming)
  <2>1. /\ T("Claim") + Tally(m, Answers("Claim")) = IF d.claiming THEN 1 ELSE 0
        /\ Out(e, Tail(m), "Claim") = T("Claim") + U("Claim")
    BY DEF DiscOK, Counted, Out, Flag
  <2> HIDE DEF T, U, k
  <2> QED
    BY <1>2, <1>3, <2>1 DEF Flag, k
<1>6. Out(e, Tail(m), "Renew") = Flag(e.renewing)
  <2>1. /\ T("Renew") + Tally(m, Answers("Renew")) = IF d.renewing THEN 1 ELSE 0
        /\ Out(e, Tail(m), "Renew") = T("Renew") + U("Renew")
    BY DEF DiscOK, Counted, Out, Flag
  <2> HIDE DEF T, U, k
  <2> QED
    BY <1>2, <1>3, <2>1 DEF Flag, k
<1>7. Guarded(d, m) => Guarded(e, Tail(m))
  <2> SUFFICES ASSUME NEW j \in DOMAIN d.ops, d.ops[j] = "Release", ~d.claimed,
                      Tally(m, Answers("Claim")) = 0, \A i \in 1..j : d.ops[i] # "Claim"
               PROVE  Guarded(e, Tail(m))
    BY DEF Guarded
  <2>1. k # "Claim" /\ U("Claim") = 0
    <3> HIDE DEF U, k
    <3> QED
      BY <1>2, <1>3
  <2> QED
    BY <2>1 DEF Guarded
<1>8. Pending(e) = Pending(d)
  BY DEF Pending
<1>9. e.claimed => ~e.claiming
  BY DEF DiscOK
<1> QED
  BY <1>4, <1>5, <1>6, <1>7, <1>8, <1>9 DEF DiscOK, Counted, Carried

\* An answer of the lease thread clears its flag; a claim that was won was out.
LEMMA ElectorReplies ==
  ASSUME NEW d, NEW m \in Seq(LeaseReply), m # <<>>, DiscOK(d, m)
  PROVE  LET e == ElectorReply(d, Head(m)) IN
         /\ DiscOK(e, Tail(m)) /\ Carried(d, m, e, Tail(m))
         /\ Head(m).kind # "Claim" => e.claiming = d.claiming /\ e.claimed = d.claimed
         /\ Head(m).kind = "Claim" => /\ ~e.claiming /\ d.claiming
                                      /\ e.claimed <=> Head(m).got
<1> DEFINE r == Head(m)
           e == ElectorReply(d, r)
<1>1. d \in Elector /\ r \in LeaseReply /\ r.kind \in {"Read", "Claim", "Renew"}
  BY Answered DEF DiscOK
<1>2. /\ 0 \in 0..NoAge /\ NoAge \in 0..NoAge /\ TTL \in 0..TTL
      /\ RenewEvery \in 0..RenewEvery
  BY ElectionAssumption DEF NoAge
<1>3. /\ r.kind = "Read" => r.leader \in Node \cup {NoNode} /\ r.ok \in BOOLEAN
      /\ r.kind = "Claim" => r.got \in BOOLEAN
  BY <1>1 DEF LeaseReply
<1>4. /\ d.reading \in BOOLEAN /\ d.claiming \in BOOLEAN /\ d.renewing \in BOOLEAN
      /\ d.claimed \in BOOLEAN
  BY <1>1 DEF Elector
<1>5. r.kind = "Claim" => d.claiming /\ ~d.claimed
  <2>1. r.kind = "Claim" => Tally(m, Answers("Claim")) # 0
    BY Answered
  <2>2. Tally(d.ops, Only("Claim")) \in Nat /\ Tally(m, Answers("Claim")) \in Nat
    BY <1>1, Tallies
  <2> QED
    BY <2>1, <2>2, <1>4 DEF DiscOK, Counted, Out, Flag
<1>6. CASE r.kind = "Read"
  <2>1. e = [d EXCEPT !.reading = FALSE, !.leader = r.leader, !.age = 0, !.store_ok = r.ok]
    BY <1>6 DEF ElectorReply
  <2>4. r.leader \in Node \cup {NoNode} /\ r.ok \in BOOLEAN
    BY <1>3, <1>6
  <2>2. /\ e \in Elector /\ e.ops = d.ops /\ e.reading = FALSE /\ e.claiming = d.claiming
        /\ e.renewing = d.renewing /\ e.claimed = d.claimed
    <3> HIDE DEF r, e
    <3> QED
      BY <1>1, <1>2, <2>1, <2>4 DEF Elector
  <2> HIDE DEF e
  <2>3. DiscOK(e, Tail(m)) /\ Carried(d, m, e, Tail(m))
    BY <1>4, <1>6, <2>2, DiscAnswer
  <2> QED
    BY <1>6, <2>2, <2>3 DEF e
<1>7. CASE r.kind = "Claim" /\ r.got
  <2>1. e = [d EXCEPT !.claiming = FALSE, !.holding = TRUE, !.claimed = TRUE, !.left = TTL,
                      !.renew_in = RenewEvery, !.leader = NoNode, !.age = NoAge]
    BY <1>7 DEF ElectorReply
  <2>2. /\ e \in Elector /\ e.ops = d.ops /\ e.reading = d.reading /\ e.claiming = FALSE
        /\ e.renewing = d.renewing /\ e.claimed = TRUE
    BY ZenonT(30), <1>1, <1>2, <1>7, <2>1 DEF Elector
  <2> HIDE DEF e
  <2>3. DiscOK(e, Tail(m)) /\ Carried(d, m, e, Tail(m))
    BY <1>4, <1>7, <2>2, DiscAnswer
  <2> QED
    BY <1>5, <1>7, <2>2, <2>3 DEF e
<1>8. CASE r.kind = "Claim" /\ ~r.got
  <2>1. e = [d EXCEPT !.claiming = FALSE]
    BY <1>8 DEF ElectorReply
  <2>2. /\ e \in Elector /\ e.ops = d.ops /\ e.reading = d.reading /\ e.claiming = FALSE
        /\ e.renewing = d.renewing /\ e.claimed = d.claimed
    BY <1>1, <2>1 DEF Elector
  <2> HIDE DEF e
  <2>3. DiscOK(e, Tail(m)) /\ Carried(d, m, e, Tail(m))
    BY <1>4, <1>8, <2>2, DiscAnswer
  <2> QED
    BY <1>5, <1>8, <2>2, <2>3 DEF e
<1>9. CASE r.kind = "Renew"
  <2>1. \/ e = [d EXCEPT !.renewing = FALSE, !.left = TTL]
        \/ e = [d EXCEPT !.renewing = FALSE, !.holding = FALSE, !.displaced = TRUE]
        \/ e = [d EXCEPT !.renewing = FALSE]
    BY <1>9 DEF ElectorReply
  <2>2. /\ e \in Elector /\ e.ops = d.ops /\ e.reading = d.reading /\ e.claiming = d.claiming
        /\ e.renewing = FALSE /\ e.claimed = d.claimed
    BY <1>1, <1>2, <2>1 DEF Elector
  <2> HIDE DEF e
  <2>3. DiscOK(e, Tail(m)) /\ Carried(d, m, e, Tail(m))
    BY <1>4, <1>9, <2>2, DiscAnswer
  <2> QED
    BY <1>9, <2>2, <2>3 DEF e
<1> QED
  BY <1>1, <1>6, <1>7, <1>8, <1>9

-----------------------------------------------------------------------------
(* The owner's steps: each keeps OwnerOK *)

\* What a tick or a failure keeps of a node that boots.
Onward(s, t) ==
  /\ s.last_leader = NoNode => t.last_leader = NoNode
  /\ Quietly(s.disc, t.disc)
  /\ s.disc.claiming => t.disc.claiming
  /\ ~s.leading /\ ~s.disc.claimed => ~t.leading /\ t.out = s.out

\* What no step of the election touches.
Same(s, t) == t.platform = s.platform /\ t.boot = s.boot /\ t.half = s.half

\* The requests that a handler leaves for its owner.
LEMMA LocalKinds ==
  ASSUME NEW kind \in {"SelfHeartbeat", "StartLeader", "StopLeader", "None"}
  PROVE  /\ Local(kind) \in LinkRequest \cup LocalRequest
         /\ Local(kind).kind = kind
  BY DEF Local, LocalRequest

\* A step that leaves the releases where they are, and a leader's claims.
LEMMA TidyKept ==
  ASSUME NEW s, NEW t, NEW m, NEW k, Tidy(s, m), Carried(s.disc, m, t.disc, k),
         t.leading => s.leading, t.strayed <=> s.strayed,
         t.leading /\ ~s.disc.claiming /\ ~s.disc.claimed /\ ~s.strayed
           => ~t.disc.claiming /\ ~t.disc.claimed
  PROVE  Tidy(t, k)
  BY DEF Tidy, Carried

\* Becoming leader, with nothing left to claim and one release at most.
LEMMA Becoming ==
  ASSUME NEW s \in Owner, NEW m \in Seq(LeaseReply),
         DiscOK(s.disc, m), ~s.disc.claiming, ~s.disc.claimed, Pending(s.disc) <= 1
  PROVE  LET t == BecomeLeader(s) IN
         /\ OwnerOK(t, m) /\ Same(s, t) /\ t.disc = s.disc
         /\ t.leading /\ t.fail_count = 0 /\ t.last_leader = s.last_leader
         /\ t.out = Local("StartLeader")
<1> DEFINE t == BecomeLeader(s)
<1>1. /\ Local("StartLeader") \in LinkRequest \cup LocalRequest
      /\ Local("StartLeader").kind = "StartLeader"
  BY LocalKinds
<1>2. 0 \in 0..ISOLATED_AFTER /\ Me \in Node \cup {NoNode}
  BY ElectionAssumption DEF Node
<1>3. t = [s EXCEPT !.out = Local("StartLeader"), !.leading = TRUE, !.fail_count = 0,
                    !.leader_addr = Me, !.strayed = Releases(s.disc)]
  BY DEF BecomeLeader, Emit, Owner
<1>4. /\ t \in Owner /\ t.disc = s.disc /\ t.leading = TRUE /\ t.fail_count = 0
      /\ t.half = s.half /\ t.out = Local("StartLeader") /\ t.platform = s.platform
      /\ t.boot = s.boot /\ t.last_leader = s.last_leader /\ t.strayed = Releases(s.disc)
  <2>1. Releases(s.disc) \in BOOLEAN
    BY DEF Releases
  <2> QED
    BY ZenonT(30), <1>1, <1>2, <1>3, <2>1 DEF Owner
<1> HIDE DEF t
<1>5. s.disc \in Elector
  BY DEF DiscOK
<1>6. Pending(s.disc) \in Nat /\ (Pending(s.disc) = 0 <=> ~Releases(s.disc))
  BY <1>5, Tallies DEF Pending, Releases
<1>7. Pending(s.disc) # 0 => Guarded(s.disc, m)
  BY Unclaimed
<1>8. Tidy(t, m)
  BY <1>4, <1>6, <1>7 DEF Tidy
<1> QED
  BY <1>1, <1>4, <1>8 DEF OwnerOK, Same, t

\* A take-over claims, or leads with the claim that was won; a leader that claims
\* has strayed.
LEMMA TakingOver ==
  ASSUME NEW s, NEW m \in Seq(LeaseReply), OwnerOK(s, m), s.out = Local("None")
  PROVE  LET t == TryTakeOver(s) IN
         /\ OwnerOK(t, m) /\ Same(s, t) /\ Onward(s, t)
         /\ t.fail_count = 0 \/ (t.fail_count = s.fail_count /\ t.leading = s.leading)
         /\ t.out \in {Local("None"), Local("StartLeader")}
<1> DEFINE d == Invalidate(s.disc)
           e == TryBecomeLeader(d)
           y == s.strayed \/ Strays(s)
           t == [s EXCEPT !.last_leader = NoNode, !.leader_addr = NoNode, !.disc = e,
                          !.strayed = y]
<1>1. s \in Owner /\ s.disc \in Elector /\ DiscOK(s.disc, m) /\ Tidy(s, m)
  BY DEF OwnerOK, Owner
<1>0. NoAge \in 0..NoAge
  BY ElectionAssumption DEF NoAge
<1>2. /\ d \in Elector /\ d.ops = s.disc.ops /\ d.reading = s.disc.reading
      /\ d.claiming = s.disc.claiming /\ d.renewing = s.disc.renewing
      /\ d.claimed = s.disc.claimed /\ d.holding = s.disc.holding /\ d.age = NoAge
  BY <1>0, <1>1 DEF Invalidate, Elector
<1> HIDE DEF d
<1>3. DiscOK(d, m) /\ Carried(s.disc, m, d, m) /\ Carried(d, m, s.disc, m) /\ ~Fresh(d)
  BY <1>1, <1>2, DiscFrame, ElectionAssumption DEF Fresh, NoAge
<1>4. /\ DiscOK(e, m) /\ Quietly(d, e) /\ Carried(d, m, e, m) /\ ~e.claimed
      /\ d.claiming => e.claiming
      /\ d.claimed => ~e.claiming /\ ~Guarded(d, m)
      /\ ~d.claimed /\ ~Claims(d) => e = d
  BY <1>3, TryingToLead
<1>5. Quietly(s.disc, e)
  BY <1>2, <1>3, <1>4 DEF Quietly
<1>6. e \in Elector
  BY <1>4 DEF DiscOK
<1>7. y \in BOOLEAN /\ (y <=> s.strayed \/ Strays(s))
  BY <1>1 DEF Owner
<1>10. Pending(s.disc) \in Nat /\ Carried(s.disc, m, e, m)
  BY <1>1, <1>3, <1>4, Tallies DEF Pending, Carried
<1> HIDE DEF e, y
<1>11. /\ t \in Owner /\ t.disc = e /\ t.leading = s.leading /\ t.fail_count = s.fail_count
      /\ t.half = s.half /\ t.out = s.out /\ t.platform = s.platform /\ t.boot = s.boot
      /\ t.last_leader = NoNode /\ t.strayed = y
  BY <1>1, <1>6, <1>7 DEF Owner
<1> HIDE DEF t
<1>8. CASE Won(d)
  <2> DEFINE u == BecomeLeader(t)
  <2>1. TryTakeOver(s) = u
    BY <1>8 DEF TryTakeOver, d, e, t, y
  <2>2. ~e.claiming /\ ~e.claimed /\ ~Guarded(d, m) /\ s.disc.claimed
    BY <1>2, <1>4, <1>8 DEF Won
  <2>3. Pending(e) <= 1
    BY <1>1, <1>3, <1>10, <2>2 DEF Tidy, Carried
  <2>4. /\ OwnerOK(u, m) /\ Same(t, u) /\ u.disc = t.disc
        /\ u.leading /\ u.fail_count = 0 /\ u.last_leader = t.last_leader
        /\ u.out = Local("StartLeader")
    BY <1>4, <1>11, <2>2, <2>3, Becoming
  <2> HIDE DEF u
  <2> QED
    BY <1>2, <1>4, <1>5, <1>11, <2>1, <2>2, <2>4 DEF Same, Onward
<1>9. CASE ~Won(d)
  <2>1. TryTakeOver(s) = t
    BY <1>9 DEF TryTakeOver, d, e, t, y
  <2>2. ~d.claimed /\ ~s.disc.claimed
    BY <1>2, <1>9 DEF Won
  <2>3. Tidy(t, m)
    <3>1. CASE Strays(s)
      BY <1>1, <1>7, <1>10, <1>11, <3>1 DEF Tidy, Carried, Strays, Claims
    <3>2. CASE ~Strays(s)
      <4>1. s.leading => e = d
        BY <1>2, <1>4, <2>2, <3>2 DEF Strays, Claims
      <4> QED
        BY <1>1, <1>2, <1>7, <1>10, <1>11, <3>2, <4>1, TidyKept
    <3> QED
      BY <3>1, <3>2
  <2>4. OwnerOK(t, m)
    BY <1>4, <1>11, <2>3, LocalKinds DEF OwnerOK
  <2> QED
    BY <1>2, <1>4, <1>5, <1>11, <2>1, <2>4 DEF Same, Onward
<1> QED
  BY <1>8, <1>9

\* A failure is counted.
LEMMA Counting ==
  ASSUME NEW s, NEW m \in Seq(LeaseReply), OwnerOK(s, m),
         s.fail_count < ISOLATED_AFTER, s.out = Local("None")
  PROVE  LET t == CountFailure(s) IN
         /\ OwnerOK(t, m) /\ Same(s, t) /\ Onward(s, t)
         /\ t.leading /\ ~s.leading => t.fail_count = 0
         /\ t.out \in {Local("None"), Local("StartLeader")}
<1> DEFINE t == [s EXCEPT !.fail_count = s.fail_count + 1]
<1>1. s \in Owner /\ s.fail_count \in 0..ISOLATED_AFTER /\ DiscOK(s.disc, m)
  BY DEF OwnerOK, Owner
<1>2. s.fail_count + 1 \in 0..ISOLATED_AFTER
  BY <1>1, ElectionAssumption
<1>3. /\ t \in Owner /\ t.disc = s.disc /\ t.leading = s.leading /\ t.strayed = s.strayed
      /\ t.half = s.half /\ t.out = s.out /\ t.platform = s.platform /\ t.boot = s.boot
      /\ t.last_leader = s.last_leader
  BY <1>1, <1>2 DEF Owner
<1>4. CountFailure(s) = IF t.fail_count >= TAKEOVER_AFTER THEN TryTakeOver(t) ELSE t
  BY DEF CountFailure
<1> HIDE DEF t
<1>5. OwnerOK(t, m)
  BY <1>3 DEF OwnerOK, Tidy
<1>6. CASE t.fail_count >= TAKEOVER_AFTER
  <2> DEFINE u == TryTakeOver(t)
  <2>1. /\ OwnerOK(u, m) /\ Same(t, u) /\ Onward(t, u)
        /\ u.fail_count = 0 \/ u.leading = t.leading
        /\ u.out \in {Local("None"), Local("StartLeader")}
    BY <1>3, <1>5, TakingOver
  <2> HIDE DEF u
  <2>2. CountFailure(s) = u
    BY <1>4, <1>6 DEF u
  <2> QED
    BY <1>3, <2>1, <2>2 DEF Same, Onward
<1>7. CASE ~(t.fail_count >= TAKEOVER_AFTER)
  <2>1. CountFailure(s) = t
    BY <1>4, <1>7
  <2> QED
    BY <1>3, <1>5, <2>1 DEF Same, Onward, Quietly
<1> QED
  BY <1>6, <1>7

\* A failed tick of a node that may count as isolated.
LEMMA Failing ==
  ASSUME NEW s, NEW m \in Seq(LeaseReply),
         OwnerOK(s, m),
         s.fail_count < ISOLATED_AFTER, s.out = Local("None")
  PROVE  LET t == LeaderFailed(s) IN
         /\ OwnerOK(t, m) /\ Same(s, t) /\ Onward(s, t)
         /\ t.fail_count < ISOLATED_AFTER
         /\ t.out \in {Local("None"), Local("StartLeader")}
<1> DEFINE t == CountFailure(s)
           e == AskLeader(t.disc)
           u == [t EXCEPT !.disc = e, !.tasks = t.tasks /\ StoreSaysNoLeader(t.disc),
                          !.fail_count = TAKEOVER_AFTER]
<1>1. /\ OwnerOK(t, m) /\ Same(s, t) /\ Onward(s, t)
      /\ t.out \in {Local("None"), Local("StartLeader")}
  BY Counting
<1>2. LeaderFailed(s) = IF t.fail_count < ISOLATED_AFTER THEN t ELSE u
  BY DEF LeaderFailed
<1> HIDE DEF t
<1>3. CASE t.fail_count < ISOLATED_AFTER
  BY <1>1, <1>2, <1>3
<1>4. CASE ~(t.fail_count < ISOLATED_AFTER)
  <2>1. t \in Owner /\ t.fail_count \in 0..ISOLATED_AFTER /\ DiscOK(t.disc, m) /\ Tidy(t, m)
    BY <1>1 DEF OwnerOK, Owner
  <2>3. /\ DiscOK(e, m) /\ Quietly(t.disc, e) /\ Carried(t.disc, m, e, m)
        /\ e.claiming = t.disc.claiming /\ e.claimed = t.disc.claimed
    BY <2>1, AskingLeader
  <2>4. e \in Elector
    BY <2>3 DEF DiscOK
  <2>5. TAKEOVER_AFTER \in 0..ISOLATED_AFTER /\ TAKEOVER_AFTER < ISOLATED_AFTER
    BY ElectionAssumption
  <2>6. (t.tasks /\ StoreSaysNoLeader(t.disc)) \in BOOLEAN
    OBVIOUS
  <2> HIDE DEF e
  <2>7. /\ u \in Owner /\ u.disc = e /\ u.leading = t.leading /\ u.strayed = t.strayed
        /\ u.fail_count = TAKEOVER_AFTER
        /\ u.half = t.half /\ u.out = t.out /\ u.platform = t.platform /\ u.boot = t.boot
        /\ u.last_leader = t.last_leader
    BY <2>1, <2>4, <2>5, <2>6 DEF Owner
  <2> HIDE DEF u
  <2>2. Tidy(u, m)
    BY <2>1, <2>3, <2>7, TidyKept
  <2>8. OwnerOK(u, m)
    BY <1>1, <2>2, <2>3, <2>7 DEF OwnerOK
  <2>9. Onward(s, u)
    BY <1>1, <2>3, <2>7 DEF Onward, Quietly
  <2> QED
    BY <1>1, <1>2, <1>4, <2>5, <2>7, <2>8, <2>9 DEF Same
<1> QED
  BY <1>3, <1>4

\* A tick without a leader.
LEMMA Alone ==
  ASSUME NEW s, NEW m \in Seq(LeaseReply),
         OwnerOK(s, m), ~s.leading,
         s.fail_count < ISOLATED_AFTER, s.out = Local("None")
  PROVE  LET t == NoLeader(s) IN
         /\ OwnerOK(t, m) /\ Same(s, t) /\ Onward(s, t)
         /\ t.fail_count < ISOLATED_AFTER
         /\ t.out \in {Local("None"), Local("StartLeader")}
<1> DEFINE t == CountFailure(s)
           u == [t EXCEPT !.fail_count = TAKEOVER_AFTER]
<1>1. /\ OwnerOK(t, m) /\ Same(s, t) /\ Onward(s, t)
      /\ t.leading => t.fail_count = 0
      /\ t.out \in {Local("None"), Local("StartLeader")}
  BY Counting
<1>2. NoLeader(s) = IF t.fail_count >= TAKEOVER_AFTER /\ ~t.leading THEN u ELSE t
  BY DEF NoLeader
<1>3. TAKEOVER_AFTER \in 0..ISOLATED_AFTER /\ TAKEOVER_AFTER < ISOLATED_AFTER
  BY ElectionAssumption
<1> HIDE DEF t
<1>4. t \in Owner /\ t.fail_count \in 0..ISOLATED_AFTER
  BY <1>1 DEF OwnerOK, Owner
<1>5. CASE t.fail_count >= TAKEOVER_AFTER /\ ~t.leading
  <2>1. /\ u \in Owner /\ u.disc = t.disc /\ u.leading = t.leading /\ u.strayed = t.strayed
        /\ u.fail_count = TAKEOVER_AFTER
        /\ u.half = t.half /\ u.out = t.out /\ u.platform = t.platform /\ u.boot = t.boot
        /\ u.last_leader = t.last_leader
    BY <1>3, <1>4 DEF Owner
  <2> HIDE DEF u
  <2>2. OwnerOK(u, m)
    BY <1>1, <1>5, <2>1 DEF OwnerOK, Tidy
  <2>3. Onward(s, u)
    BY <1>1, <2>1 DEF Onward
  <2> QED
    BY <1>1, <1>2, <1>3, <1>5, <2>1, <2>2, <2>3 DEF Same
<1>6. CASE ~(t.fail_count >= TAKEOVER_AFTER /\ ~t.leading)
  <2>1. t.fail_count < ISOLATED_AFTER
    BY <1>1, <1>4, <1>6, ElectionAssumption
  <2> QED
    BY <1>1, <1>2, <1>6, <2>1
<1> QED
  BY <1>5, <1>6

\* A leader steps down: the leader half is to be stopped, and the release that
\* may be sent comes after every claim.
LEMMA SteppingDown ==
  ASSUME NEW s, NEW m \in Seq(LeaseReply), NEW release \in BOOLEAN,
         OwnerOK(s, m), s.leading
  PROVE  LET t == StepDown(s, release) IN
         /\ OwnerOK(t, m) /\ Same(s, t) /\ ~t.leading
         /\ t.fail_count = s.fail_count /\ t.out = Local("StopLeader")
<1> DEFINE quiet == [s EXCEPT !.leading = FALSE, !.registered = FALSE,
                              !.last_leader = NoNode, !.leader_addr = NoNode]
           e == ReleaseLeadership(s.disc)
           t == [quiet EXCEPT !.out = Local("StopLeader")]
           u == [t EXCEPT !.disc = e]
<1>1. /\ Local("StopLeader") \in LinkRequest \cup LocalRequest
      /\ Local("StopLeader").kind = "StopLeader"
  BY LocalKinds
<1>2. s \in Owner /\ s.disc \in Elector /\ DiscOK(s.disc, m)
  BY DEF OwnerOK, Owner
<1>3. StepDown(s, release) = IF release THEN u ELSE t
  <2>1. Emit(quiet, "StopLeader") = t
    BY DEF Emit
  <2> QED
    BY <2>1 DEF StepDown
<1>4. /\ DiscOK(e, m) /\ e \in Elector /\ Pending(e) = Pending(s.disc) + 1
      /\ Guarded(s.disc, m) \/ ~s.disc.claiming => Guarded(e, m)
      /\ Pending(s.disc) \in Nat
  BY <1>2, Releasing, Tallies DEF DiscOK, Pending
<1> HIDE DEF e
<1>5. /\ t \in Owner /\ t.disc = s.disc /\ t.leading = FALSE /\ t.fail_count = s.fail_count
      /\ t.half = s.half /\ t.out = Local("StopLeader") /\ t.platform = s.platform
      /\ t.boot = s.boot /\ t.strayed = s.strayed
  BY <1>1, <1>2 DEF Owner
<1> HIDE DEF t
<1>6. /\ u \in Owner /\ u.disc = e /\ u.leading = FALSE /\ u.fail_count = s.fail_count
      /\ u.half = s.half /\ u.out = Local("StopLeader") /\ u.platform = s.platform
      /\ u.boot = s.boot /\ u.strayed = s.strayed
  BY <1>4, <1>5 DEF Owner
<1> HIDE DEF u
<1>7. OwnerOK(t, m)
  BY <1>1, <1>2, <1>5 DEF OwnerOK, Tidy
<1>8. OwnerOK(u, m)
  <2>1. Tidy(u, m)
    BY <1>4, <1>6 DEF OwnerOK, Tidy
  <2> QED
    BY <1>1, <1>4, <1>6, <2>1 DEF OwnerOK
<1> QED
  BY <1>3, <1>5, <1>6, <1>7, <1>8 DEF Same

\* The tick of a leader emits nothing for the link thread.
LEMMA LeaderTicks ==
  ASSUME NEW s, NEW m \in Seq(LeaseReply), NEW connected \in BOOLEAN,
         OwnerOK(s, m), s.leading, s.out = Local("None"),
         s.fail_count < ISOLATED_AFTER
  PROVE  LET t == LeaderTick(s, connected) IN
         OwnerOK(t, m) /\ Same(s, t) /\ t.fail_count < ISOLATED_AFTER
<1>1. s \in Owner /\ s.disc \in Elector /\ DiscOK(s.disc, m)
  BY DEF OwnerOK, Owner
<1>2. CASE s.disc.displaced
  <2> DEFINE e == [s.disc EXCEPT !.displaced = FALSE]
             t == [s EXCEPT !.disc = e]
  <2>1. /\ e \in Elector /\ e.ops = s.disc.ops /\ e.reading = s.disc.reading
        /\ e.claiming = s.disc.claiming /\ e.renewing = s.disc.renewing
        /\ e.claimed = s.disc.claimed
    BY <1>1 DEF Elector
  <2>2. [s EXCEPT !.disc.displaced = FALSE] = t
    BY <1>1 DEF Owner, Elector
  <2> HIDE DEF e
  <2>3. DiscOK(e, m) /\ Carried(s.disc, m, e, m)
    BY <1>1, <2>1, DiscFrame
  <2>4. /\ t \in Owner /\ t.disc = e /\ t.leading = s.leading /\ t.strayed = s.strayed /\ t.fail_count = s.fail_count
        /\ t.half = s.half /\ t.out = s.out /\ t.platform = s.platform /\ t.boot = s.boot
    BY <1>1, <2>1 DEF Owner
  <2> HIDE DEF t
  <2>5. OwnerOK(t, m)
    BY <2>1, <2>3, <2>4, TidyKept DEF OwnerOK
  <2>6. LeaderTick(s, connected) = StepDown(t, FALSE)
    BY <1>2, <2>2 DEF LeaderTick
  <2>7. LET u == StepDown(t, FALSE) IN OwnerOK(u, m) /\ Same(t, u) /\ u.fail_count = t.fail_count
    BY <2>4, <2>5, SteppingDown
  <2> QED
    BY <2>4, <2>6, <2>7 DEF Same
<1>3. CASE ~s.disc.displaced /\ ~StillMine(s.disc) /\ ~connected
  <2>1. LeaderTick(s, connected) = StepDown(s, FALSE)
    BY <1>3 DEF LeaderTick
  <2>2. LET u == StepDown(s, FALSE) IN OwnerOK(u, m) /\ Same(s, u) /\ u.fail_count = s.fail_count
    BY SteppingDown
  <2> QED
    BY <2>1, <2>2
<1>4. CASE ~s.disc.displaced /\ ~(~StillMine(s.disc) /\ ~connected)
  <2> DEFINE f == IF StillMine(s.disc) THEN 0 ELSE s.fail_count
             t == [s EXCEPT !.fail_count = f, !.out = Local("SelfHeartbeat")]
  <2>1. LeaderTick(s, connected) = t
    BY <1>4 DEF LeaderTick, Emit
  <2>2. /\ Local("SelfHeartbeat") \in LinkRequest \cup LocalRequest
        /\ Local("SelfHeartbeat").kind = "SelfHeartbeat"
    BY LocalKinds
  <2>3. f \in 0..ISOLATED_AFTER /\ f <= s.fail_count /\ s.fail_count \in 0..ISOLATED_AFTER
    BY <1>1, ElectionAssumption DEF Owner
  <2> HIDE DEF f
  <2>4. /\ t \in Owner /\ t.disc = s.disc /\ t.leading = s.leading /\ t.strayed = s.strayed /\ t.fail_count = f
        /\ t.half = s.half /\ t.out = Local("SelfHeartbeat") /\ t.platform = s.platform
        /\ t.boot = s.boot
    BY <1>1, <2>2, <2>3 DEF Owner
  <2> HIDE DEF t
  <2>5. OwnerOK(t, m) /\ t.fail_count < ISOLATED_AFTER
    BY <2>2, <2>3, <2>4, ElectionAssumption DEF OwnerOK, Tidy
  <2> QED
    BY <2>1, <2>4, <2>5 DEF Same
<1> QED
  BY <1>2, <1>3, <1>4

\* The tick of the election; a node that boots emits nothing.
LEMMA ElectionTicks ==
  ASSUME NEW s, NEW m \in Seq(LeaseReply),
         NEW connected \in BOOLEAN, OwnerOK(s, m), s.out = Local("None"),
         s.fail_count < ISOLATED_AFTER
  PROVE  LET t == ElectionTick(s, connected) IN
         /\ OwnerOK(t, m) /\ Same(s, t) /\ t.fail_count < ISOLATED_AFTER
         /\ ~s.leading /\ ~s.disc.claimed /\ s.last_leader = NoNode /\ ~Fresh(s.disc)
              => Onward(s, t) /\ t.out = Local("None")
<1> DEFINE leader == IF s.last_leader = NoNode THEN GetLeader(s.disc) ELSE s.last_leader
           e == AskLeader(s.disc)
           t == IF s.last_leader = NoNode THEN [s EXCEPT !.disc = e] ELSE s
           u == ElectionTick(s, connected)
           booting == ~s.leading /\ ~s.disc.claimed /\ s.last_leader = NoNode /\ ~Fresh(s.disc)
<1>1. s \in Owner /\ s.disc \in Elector /\ DiscOK(s.disc, m)
  BY DEF OwnerOK, Owner
<1>2. /\ DiscOK(e, m) /\ Quietly(s.disc, e) /\ e \in Elector
      /\ Carried(s.disc, m, e, m)
      /\ e.claiming = s.disc.claiming /\ e.claimed = s.disc.claimed
  BY <1>1, AskingLeader DEF DiscOK
<1> HIDE DEF e
<1>3. /\ t \in Owner /\ (t.disc = e \/ t.disc = s.disc) /\ t.leading = s.leading /\ t.strayed = s.strayed
      /\ t.fail_count = s.fail_count /\ t.last_leader = s.last_leader
      /\ t.half = s.half /\ t.out = s.out /\ t.platform = s.platform /\ t.boot = s.boot
  BY <1>1, <1>2 DEF Owner
<1>4. u = CASE t.leading -> LeaderTick(t, connected)
            [] ~t.leading /\ leader # NoNode ->
                 [t EXCEPT !.out = [kind |-> IF t.registered THEN "Heartbeat" ELSE "Register",
                                    leader |-> leader]]
            [] OTHER -> IF StoreSaysNoLeader(t.disc) THEN NoLeader(t) ELSE LeaderFailed(t)
  BY DEF ElectionTick, e
<1>5. leader \in Node \cup {NoNode} /\ (booting => leader = NoNode)
  BY <1>1 DEF GetLeader, Owner, Elector
<1> HIDE DEF t, u, leader
<1>6. OwnerOK(t, m)
  <2>1. Carried(s.disc, m, t.disc, m)
    BY <1>2, <1>3 DEF Carried
  <2> QED
    BY <1>2, <1>3, <2>1, TidyKept DEF OwnerOK
<1>7. Same(s, t) /\ Onward(s, t) /\ (~s.disc.claimed => ~t.disc.claimed)
  BY <1>2, <1>3 DEF Same, Onward, Quietly
<1>8. CASE t.leading
  <2>1. u = LeaderTick(t, connected)
    BY <1>4, <1>8
  <2>2. OwnerOK(u, m) /\ Same(t, u) /\ u.fail_count < ISOLATED_AFTER
    BY <1>3, <1>6, <1>8, <2>1, LeaderTicks
  <2> QED
    BY <1>3, <1>7, <1>8, <2>2 DEF Same, u
<1>9. CASE ~t.leading /\ leader # NoNode
  <2> DEFINE kind == IF t.registered THEN "Heartbeat" ELSE "Register"
             r == [kind |-> kind, leader |-> leader]
  <2>1. u = [t EXCEPT !.out = r]
    BY <1>4, <1>9
  <2>2. kind \in {"Register", "Heartbeat"} /\ leader \in Node
    BY <1>5, <1>9
  <2> HIDE DEF kind
  <2>3. r \in LinkRequest /\ r.kind = kind
    BY <2>2 DEF LinkRequest
  <2> HIDE DEF r
  <2>4. /\ u \in Owner /\ u.disc = t.disc /\ u.leading = t.leading /\ u.strayed = t.strayed
        /\ u.fail_count = t.fail_count /\ u.half = t.half /\ u.out = r
        /\ u.platform = t.platform /\ u.boot = t.boot
    BY <1>3, <2>1, <2>3 DEF Owner
  <2>5. t.half = "off"
    BY <1>3, <1>6, <1>9, LocalKinds DEF OwnerOK
  <2>6. OwnerOK(u, m)
    BY <1>6, <1>9, <2>2, <2>3, <2>4, <2>5 DEF OwnerOK, Tidy
  <2> QED
    BY <1>3, <1>5, <1>7, <1>9, <2>4, <2>6 DEF Same, u
<1>10. CASE ~t.leading /\ leader = NoNode
  <2>1. u = NoLeader(t) \/ u = LeaderFailed(t)
    BY <1>4, <1>10
  <2>2. OwnerOK(u, m) /\ Same(t, u) /\ Onward(t, u) /\ u.fail_count < ISOLATED_AFTER
    BY <1>3, <1>6, <1>10, <2>1, Alone, Failing
  <2> HIDE DEF booting
  <2>3. booting => Onward(s, u) /\ u.out = Local("None")
    BY <1>3, <1>7, <2>2 DEF booting, Onward, Quietly
  <2> QED
    BY <1>7, <2>2, <2>3 DEF Same, u, booting
<1> QED
  BY <1>8, <1>9, <1>10

\* The answer to a call at a leader.
LEMMA Replying ==
  ASSUME NEW s, NEW m \in Seq(LeaseReply),
         NEW req \in LinkRequest, NEW result,
         OwnerOK(s, m), s.out = Local("None"), s.fail_count < ISOLATED_AFTER
  PROVE  LET t == ElectionReply(s, req, result) IN
         OwnerOK(t, m) /\ Same(s, t) /\ t.fail_count < ISOLATED_AFTER
<1> DEFINE t == ElectionReply(s, req, result)
           f == Follow(s, req.leader)
<1>1. /\ s \in Owner /\ DiscOK(s.disc, m) /\ s.fail_count \in 0..ISOLATED_AFTER
      /\ req.leader \in Node \cup {NoNode}
  BY DEF OwnerOK, Owner, LinkRequest
<1>3. 0 \in 0..ISOLATED_AFTER /\ 0 < ISOLATED_AFTER
  BY ElectionAssumption
<1>4. /\ f \in Owner /\ f.disc = s.disc /\ f.leading = s.leading /\ f.strayed = s.strayed /\ f.fail_count = 0
      /\ f.half = s.half /\ f.out = s.out /\ f.platform = s.platform /\ f.boot = s.boot
  BY <1>1, <1>3 DEF Owner, Follow
<1> HIDE DEF f
<1>5. \/ t = [f EXCEPT !.registered = TRUE]
      \/ t = f
      \/ t = [s EXCEPT !.registered = FALSE]
      \/ t = LeaderFailed(s)
  BY DEF ElectionReply, f
<1> HIDE DEF t
<1>6. CASE t = LeaderFailed(s)
  BY <1>6, Failing DEF t
<1>7. CASE t # LeaderFailed(s)
  <2>1. /\ t \in Owner /\ t.disc = s.disc /\ t.leading = s.leading /\ t.strayed = s.strayed
        /\ (t.fail_count = 0 \/ t.fail_count = s.fail_count)
        /\ t.half = s.half /\ t.out = s.out /\ t.platform = s.platform /\ t.boot = s.boot
    BY ZenonT(30), <1>1, <1>4, <1>5, <1>7 DEF Owner
  <2>2. OwnerOK(t, m)
    BY <1>1, <2>1 DEF OwnerOK, Tidy
  <2> QED
    BY <1>3, <2>1, <2>2 DEF Same, t
<1> QED
  BY <1>6, <1>7

-----------------------------------------------------------------------------
(* Executing what the election emitted *)

\* The leader half may change, and the request is done with.
LEMMA DoneIsAtRest ==
  ASSUME NEW s, NEW t \in Owner, NEW m, OwnerOK(s, m),
         t.disc = s.disc, t.leading = s.leading /\ t.strayed = s.strayed, t.fail_count = s.fail_count,
         t.out = Local("None"), t.half # "off" => s.leading
  PROVE  AtRest(t, m)
  BY LocalKinds DEF AtRest, OwnerOK, Tidy

\* Stepping down on the owner's own account closes the leader half at once.
LEMMA Resigning ==
  ASSUME NEW s, NEW m \in Seq(LeaseReply), OwnerOK(s, m), s.leading
  PROVE  LET t == Resign(s) IN
         /\ AtRest(t, m) /\ ~t.leading /\ t.half = "off" /\ t.platform = s.platform
         /\ t.boot = s.boot /\ t.fail_count = s.fail_count
<1> DEFINE u == StepDown(s, TRUE)
           t == [u EXCEPT !.half = "off", !.known = FALSE, !.out = Local("None")]
<1>1. /\ OwnerOK(u, m) /\ Same(s, u) /\ ~u.leading /\ u.fail_count = s.fail_count
  BY SteppingDown
<1>2. Resign(s) = t
  BY DEF Resign, Done, Close, Emit
<1> HIDE DEF u
<1>3. u \in Owner /\ Local("None") \in LinkRequest \cup LocalRequest
  BY <1>1, LocalKinds DEF OwnerOK
<1>4. /\ t \in Owner /\ t.disc = u.disc /\ t.leading = u.leading /\ t.strayed = u.strayed
      /\ t.fail_count = u.fail_count /\ t.out = Local("None") /\ t.half = "off"
      /\ t.platform = u.platform /\ t.boot = u.boot
  BY <1>3 DEF Owner
<1> HIDE DEF t
<1>5. AtRest(t, m)
  BY <1>1, <1>4, DoneIsAtRest
<1> QED
  BY <1>1, <1>2, <1>4, <1>5 DEF Same

\* The owner executes the request, and is at rest.
LEMMA Executing ==
  ASSUME NEW s, NEW m \in Seq(LeaseReply), NEW ok \in BOOLEAN,
         OwnerOK(s, m), s.platform = own.platform, Execute(s, ok),
         stateq \in Seq({"Load", "Save"}), Len(stateq) <= STATE_Q,
         Awaits(s, stateq, loads)
  PROVE  /\ AtRest(own', m)
         /\ own'.platform = s.platform /\ own'.boot = s.boot
         /\ own'.fail_count = s.fail_count /\ (own'.leading => s.leading)
         /\ stateq' \in Seq({"Load", "Save"}) /\ Len(stateq') <= STATE_Q
         /\ Awaits(own', stateq', loads)
         /\ s.out = Local("None") => own' = s
<1> DEFINE starts == s.out.kind = "StartLeader" /\ s.half = "off"
           asks == starts /\ HopOS /\ Len(stateq) < STATE_Q
<1>1. s \in Owner /\ Local("None") \in LinkRequest \cup LocalRequest /\ Local("None").kind = "None"
  BY LocalKinds DEF OwnerOK
<1>2. /\ own' = CASE asks -> Done([s EXCEPT !.half = "loading"])
                  [] starts /\ ~HopOS /\ ok -> Done(Open(s))
                  [] starts /\ ~HopOS /\ ~ok -> Done(Resign(s))
                  [] s.out.kind = "StopLeader" -> Done(Close(s))
                  [] s.out.kind = "SelfHeartbeat" /\ s.half = "live" -> Done([s EXCEPT !.known = TRUE])
                  [] OTHER -> Done(s)
      /\ stateq' = IF asks THEN Append(stateq, "Load") ELSE stateq
  BY DEF Execute
<1>3. starts => s.leading
  BY DEF OwnerOK
<1>4. s.half # "off" /\ s.out.kind # "StopLeader" => s.leading
  BY DEF OwnerOK
<1>5. CASE asks
  <2>1. own' = [s EXCEPT !.half = "loading", !.out = Local("None")]
    BY <1>2, <1>5 DEF Done, Emit
  <2>2. /\ own' \in Owner /\ own'.disc = s.disc /\ own'.leading = s.leading /\ own'.strayed = s.strayed
        /\ own'.fail_count = s.fail_count /\ own'.out = Local("None")
        /\ own'.platform = s.platform /\ own'.boot = s.boot
    BY <1>1, <2>1 DEF Owner
  <2>3. AtRest(own', m)
    BY <1>3, <1>5, <2>2, DoneIsAtRest
  <2>4. stateq' = Append(stateq, "Load")
    BY <1>2, <1>5
  <2>5. /\ stateq' \in Seq({"Load", "Save"}) /\ Len(stateq') = Len(stateq) + 1
        /\ Len(stateq) + 1 \in DOMAIN stateq' /\ stateq'[Len(stateq) + 1] = "Load"
        /\ Len(stateq) \in Nat
    BY <2>4, Appended, Sequence
  <2>6. Len(stateq') <= STATE_Q
    BY <1>5, <2>5, ElectionAssumption
  <2> QED
    BY <1>1, <1>5, <2>2, <2>3, <2>5, <2>6 DEF Awaits
<1>6. CASE ~asks
  <2>1. stateq' = stateq
    BY <1>2, <1>6
  <2>2. CASE starts /\ ~HopOS /\ ~ok
    <3> DEFINE t == Resign(s)
    <3>1. own' = Done(t)
      BY <1>2, <1>6, <2>2
    <3>2. /\ AtRest(t, m) /\ ~t.leading /\ t.half = "off" /\ t.platform = s.platform
          /\ t.boot = s.boot /\ t.fail_count = s.fail_count
      BY <1>3, <2>2, Resigning
    <3> HIDE DEF t
    <3>3. own' = t
      <4>1. t \in Owner /\ t.out = Local("None")
        BY <3>2 DEF AtRest, OwnerOK
      <4> QED
        BY <3>1, <4>1 DEF Done, Emit, Owner
    <3> QED
      BY <1>1, <2>1, <2>2, <3>2, <3>3 DEF Awaits
  <2>3. CASE ~(starts /\ ~HopOS /\ ~ok)
    <3>1. \/ starts /\ own' = [s EXCEPT !.half = "live", !.known = TRUE, !.out = Local("None")]
          \/ own' = [s EXCEPT !.half = "off", !.known = FALSE, !.out = Local("None")]
               /\ s.out.kind = "StopLeader"
          \/ own' = [s EXCEPT !.known = TRUE, !.out = Local("None")]
               /\ s.out.kind = "SelfHeartbeat"
          \/ own' = [s EXCEPT !.out = Local("None")] /\ s.out.kind # "StopLeader"
      BY <1>2, <1>6, <2>3 DEF Done, Emit, Open, Close
    <3>2. /\ own' \in Owner /\ own'.disc = s.disc /\ own'.leading = s.leading /\ own'.strayed = s.strayed
          /\ own'.fail_count = s.fail_count /\ own'.out = Local("None")
          /\ own'.platform = s.platform /\ own'.boot = s.boot
      BY ZenonT(30), <1>1, <3>1 DEF Owner
    <3>3. own'.half # "off" => s.leading
      BY <1>1, <1>3, <1>4, <3>1 DEF Owner
    <3>4. AtRest(own', m)
      BY <3>2, <3>3, DoneIsAtRest
    <3>5. own'.half = "loading" => s.half = "loading"
      BY <1>1, <3>1 DEF Owner
    <3>6. s.out = Local("None") => own' = s
      <4>1. [s EXCEPT !.out = s.out] = s
        BY <1>1 DEF Owner
      <4> QED
        BY <1>1, <3>1, <4>1
    <3> QED
      BY <2>1, <3>2, <3>4, <3>5, <3>6 DEF Awaits
  <2> QED
    BY <2>2, <2>3
<1> QED
  BY <1>5, <1>6

-----------------------------------------------------------------------------
(* The owner's actions *)

\* The invariant, with the queues named.
LEMMA AtRestFacts ==
  ASSUME ElectionIInv
  PROVE  /\ own \in Owner /\ own.disc \in Elector /\ DiscOK(own.disc, mail)
         /\ OwnerOK(own, mail) /\ own.out = Local("None")
         /\ mail \in Seq(LeaseReply) /\ link \in Seq(LinkRequest)
         /\ stateq \in Seq({"Load", "Save"}) /\ Len(stateq) <= STATE_Q /\ loads \in Nat
         /\ own.fail_count < ISOLATED_AFTER
         /\ Booting(own, mail, link) /\ Awaits(own, stateq, loads)
         /\ own.boot => ~own.disc.claimed \/ own.platform # "HopOS"
<1>1. link \in Seq(LinkRequest) /\ own \in Owner
  BY DEF ElectionIInv, TypeOK
<1>2. own.disc \in Elector
  BY <1>1 DEF Owner
<1> QED
  BY <1>1, <1>2 DEF ElectionIInv, TypeOK, AtRest, OwnerOK, DiscOK, Booting

\* A node whose elector alone changed.
LEMMA DiscStep ==
  ASSUME NEW s, NEW e, NEW m, NEW k, OwnerOK(s, m), DiscOK(e, k),
         Carried(s.disc, m, e, k),
         s.leading /\ ~s.strayed => ~e.claiming /\ ~e.claimed
  PROVE  LET t == [s EXCEPT !.disc = e] IN
         /\ OwnerOK(t, k) /\ Same(s, t) /\ t.disc = e /\ t.out = s.out
         /\ t.fail_count = s.fail_count /\ t.leading = s.leading /\ t.strayed = s.strayed
         /\ t.last_leader = s.last_leader /\ t.due = s.due
<1> DEFINE t == [s EXCEPT !.disc = e]
<1>1. s \in Owner /\ e \in Elector
  BY DEF OwnerOK, DiscOK
<1>2. /\ t \in Owner /\ t.disc = e /\ t.out = s.out /\ t.fail_count = s.fail_count
      /\ t.leading = s.leading /\ t.strayed = s.strayed /\ t.half = s.half /\ t.platform = s.platform
      /\ t.boot = s.boot /\ t.last_leader = s.last_leader /\ t.due = s.due
  BY <1>1 DEF Owner
<1> HIDE DEF t
<1>3. Tidy(t, k)
  BY <1>2, TidyKept DEF OwnerOK
<1>4. OwnerOK(t, k)
  BY <1>2, <1>3 DEF OwnerOK
<1> QED
  BY <1>2, <1>4 DEF Same, t

\* The owner's tick, the election's included.
LEMMA OwnerTickKeeps ==
  ASSUME ElectionIInv, NEW peers \in BOOLEAN, NEW refused \in BOOLEAN,
         NEW ok \in BOOLEAN, OwnerTick(peers, refused, ok)
  PROVE  ElectionIInv'
<1> DEFINE e == ElectorTick(own.disc)
           s == [own EXCEPT !.disc = e]
           c == s.half = "live" /\ (s.known \/ peers)
           t == IF own.due THEN ElectionTick([s EXCEPT !.due = FALSE], c) ELSE s
           w == IF refused THEN ElectionReply(Done(t), t.out, "Failed") ELSE t
<1>1. /\ own \in Owner /\ DiscOK(own.disc, mail)
      /\ OwnerOK(own, mail) /\ own.out = Local("None")
      /\ mail \in Seq(LeaseReply) /\ link \in Seq(LinkRequest)
      /\ stateq \in Seq({"Load", "Save"}) /\ Len(stateq) <= STATE_Q
      /\ own.fail_count < ISOLATED_AFTER
      /\ Booting(own, mail, link) /\ Awaits(own, stateq, loads)
      /\ own.boot => ~own.disc.claimed \/ own.platform # "HopOS"
  BY AtRestFacts
<1>2. /\ (own.boot => own.platform = "HopOS") /\ (refused => Calls(t))
      /\ Execute(w, ok) /\ link' = SendLink(w, link)
      /\ UNCHANGED <<mail, loads, store, handle, calm>>
  BY DEF OwnerTick, HopOS
<1>3. /\ DiscOK(e, mail) /\ Quietly(own.disc, e)
      /\ Carried(own.disc, mail, e, mail)
      /\ e.claiming = own.disc.claiming /\ e.claimed = own.disc.claimed
  BY <1>1, ElectorTicks
<1> HIDE DEF e
<1>4. /\ OwnerOK(s, mail) /\ Same(own, s) /\ s.disc = e /\ s.out = Local("None")
      /\ s.fail_count < ISOLATED_AFTER /\ s.leading = own.leading /\ s.strayed = own.strayed
      /\ s.last_leader = own.last_leader
  <2>1. own.leading /\ ~own.strayed => ~e.claiming /\ ~e.claimed
    BY <1>1, <1>3 DEF OwnerOK, Tidy
  <2> QED
    BY ZenonT(30), <1>1, <1>3, <2>1, DiscStep
<1>5. c \in BOOLEAN
  OBVIOUS
<1> HIDE DEF s, c
<1>6. /\ OwnerOK(t, mail) /\ Same(own, t) /\ t.fail_count < ISOLATED_AFTER
      /\ own.boot => /\ ~t.leading /\ t.last_leader = NoNode /\ ~Fresh(t.disc)
                     /\ t.disc.claiming /\ Quietly(own.disc, t.disc)
                     /\ t.out = Local("None")
  <2>1. own.boot => /\ ~own.leading /\ own.last_leader = NoNode /\ ~Fresh(own.disc)
                    /\ own.disc.claiming /\ ~own.disc.claimed
    BY <1>1, <1>2 DEF Booting
  <2>2. CASE ~own.due
    BY <1>3, <1>4, <2>1, <2>2 DEF Same, Quietly
  <2>3. CASE own.due
    <3> DEFINE u == [s EXCEPT !.due = FALSE]
    <3>1. s \in Owner
      BY <1>4 DEF OwnerOK
    <3>2. /\ u \in Owner /\ u.disc = s.disc /\ u.out = s.out /\ u.fail_count = s.fail_count
          /\ u.leading = s.leading /\ u.strayed = s.strayed /\ u.half = s.half /\ u.platform = s.platform
          /\ u.boot = s.boot /\ u.last_leader = s.last_leader
      BY <3>1 DEF Owner
    <3>3. t = ElectionTick(u, c)
      BY <2>3
    <3> HIDE DEF t, u
    <3>4. OwnerOK(u, mail)
      BY <1>4, <3>2 DEF OwnerOK, Tidy
    <3>5. /\ OwnerOK(t, mail) /\ Same(u, t) /\ t.fail_count < ISOLATED_AFTER
          /\ ~u.leading /\ ~u.disc.claimed /\ u.last_leader = NoNode /\ ~Fresh(u.disc)
              => Onward(u, t) /\ t.out = Local("None")
      BY <1>1, <1>2, <1>4, <1>5, <3>2, <3>3, <3>4, ElectionTicks
    <3>6. Same(own, t)
      BY <1>4, <3>2, <3>5 DEF Same
    <3>7. own.boot => ~u.leading /\ ~u.disc.claimed /\ u.last_leader = NoNode /\ ~Fresh(u.disc)
                        /\ u.disc.claiming
      BY <1>3, <1>4, <2>1, <3>2 DEF Quietly
    <3>8. own.boot => /\ ~t.leading /\ t.last_leader = NoNode /\ ~Fresh(t.disc)
                     /\ t.disc.claiming /\ Quietly(own.disc, t.disc)
                     /\ t.out = Local("None")
      BY <1>3, <1>4, <3>2, <3>5, <3>7 DEF Onward, Quietly
    <3> QED
      BY <3>5, <3>6, <3>8
  <2> QED
    BY <2>2, <2>3
<1> HIDE DEF t
<1>7. /\ OwnerOK(w, mail) /\ Same(own, w) /\ w.fail_count < ISOLATED_AFTER
      /\ own.boot => w = t
  <2>1. CASE ~refused
    BY <1>6, <2>1
  <2>2. CASE refused
    <3> DEFINE v == Done(t)
    <3>1. t \in Owner /\ t.out \in LinkRequest \cup LocalRequest /\ Calls(t)
      BY <1>2, <1>6, <2>2 DEF OwnerOK, Owner
    <3>2. t.out \in LinkRequest /\ ~t.leading /\ t.half = "off"
      BY <1>6, <3>1 DEF OwnerOK, Calls, LocalRequest
    <3>3. v = [t EXCEPT !.out = Local("None")] /\ Local("None") \in LinkRequest \cup LocalRequest
      BY LocalKinds DEF Done, Emit
    <3>4. /\ v \in Owner /\ v.disc = t.disc /\ v.leading = t.leading /\ v.strayed = t.strayed
          /\ v.fail_count = t.fail_count /\ v.out = Local("None") /\ v.half = t.half
          /\ v.platform = t.platform /\ v.boot = t.boot
      BY <3>1, <3>3 DEF Owner
    <3> HIDE DEF v
    <3>5. OwnerOK(v, mail)
      BY <1>6, <3>2, <3>4, DoneIsAtRest DEF AtRest
    <3> DEFINE z == ElectionReply(v, t.out, "Failed")
    <3>6. OwnerOK(z, mail) /\ Same(v, z) /\ z.fail_count < ISOLATED_AFTER
      BY <1>1, <1>6, <3>2, <3>4, <3>5, Replying
    <3> HIDE DEF z
    <3>7. w = z
      BY <2>2 DEF z, v
    <3>8. ~own.boot
      BY <1>6, <3>1, LocalKinds DEF Calls
    <3> QED
      BY <1>6, <3>4, <3>6, <3>7, <3>8 DEF Same
  <2> QED
    BY <2>1, <2>2
<1> HIDE DEF w
<1>12. Awaits(w, stateq, loads) /\ w.platform = own.platform /\ w.boot = own.boot
  BY <1>1, <1>7 DEF Awaits, Same
<1>8. /\ AtRest(own', mail) /\ own'.platform = w.platform /\ own'.boot = w.boot
      /\ own'.fail_count = w.fail_count
      /\ stateq' \in Seq({"Load", "Save"}) /\ Len(stateq') <= STATE_Q
      /\ Awaits(own', stateq', loads)
      /\ w.out = Local("None") => own' = w
  BY <1>1, <1>2, <1>7, <1>12, Executing
<1>9. link' \in Seq(LinkRequest)
  <2>1. CASE Calls(w)
    <3>1. w.out \in LinkRequest
      BY <1>7, <2>1 DEF OwnerOK, Owner, LocalRequest, Calls
    <3>2. link' = Append(link, w.out)
      BY <1>2, <2>1 DEF SendLink
    <3> QED
      BY <1>1, <3>1, <3>2, Appended
  <2>2. CASE ~Calls(w)
    BY <1>1, <1>2, <2>2 DEF SendLink
  <2> QED
    BY <2>1, <2>2
<1>10. Booting(own', mail', link')
  <2> SUFFICES ASSUME own'.boot PROVE Booting(own', mail', link')
    BY DEF Booting
  <2>1. own.boot /\ own.platform = "HopOS" /\ own' = t /\ mail' = mail /\ w = t
    BY <1>2, <1>6, <1>7, <1>8, <1>12
  <2>2. link = <<>> /\ link' = link
    BY <1>1, <1>2, <1>6, <2>1, LocalKinds DEF Booting, SendLink, Calls
  <2> QED
    BY <1>1, <1>6, <1>12, <2>1, <2>2 DEF Booting, Quietly
<1>11. TypeOK'
  BY <1>2, <1>8, <1>9 DEF ElectionIInv, TypeOK, AtRest, OwnerOK
<1> QED
  BY <1>2, <1>7, <1>8, <1>9, <1>10, <1>11 DEF ElectionIInv

\* A handler that took a message and executes t keeps the invariant.
LEMMA HandlerKeeps ==
  ASSUME ElectionIInv, NEW t, NEW ok \in BOOLEAN,
         mail' \in Seq(LeaseReply), link' \in Seq(LinkRequest),
         OwnerOK(t, mail'), t.fail_count < ISOLATED_AFTER,
         t.platform = own.platform, t.half = own.half, ~t.boot,
         Execute(t, ok), UNCHANGED <<loads, store, handle, calm>>
  PROVE  ElectionIInv'
<1>1. /\ stateq \in Seq({"Load", "Save"}) /\ Len(stateq) <= STATE_Q
      /\ Awaits(own, stateq, loads)
  BY AtRestFacts
<1>2. Awaits(t, stateq, loads) /\ t.platform = own.platform
  BY <1>1 DEF Awaits
<1>4. /\ AtRest(own', mail') /\ own'.boot = t.boot
      /\ own'.fail_count = t.fail_count
      /\ stateq' \in Seq({"Load", "Save"}) /\ Len(stateq') <= STATE_Q
      /\ Awaits(own', stateq', loads)
  BY <1>1, <1>2, Executing
<1>5. TypeOK'
  BY <1>4 DEF ElectionIInv, TypeOK, AtRest, OwnerOK
<1> QED
  BY <1>4, <1>5 DEF ElectionIInv, Booting

\* An answer of the lease thread, the boot claim's included.
LEMMA OnLeaseKeeps ==
  ASSUME ElectionIInv, NEW ok \in BOOLEAN, OnLease(ok)
  PROVE  ElectionIInv'
<1> DEFINE r == Head(mail)
           e == ElectorReply(own.disc, r)
           s == [own EXCEPT !.disc = e]
           boots == HopOS /\ own.boot /\ r.kind = "Claim"
           t == IF boots THEN [s EXCEPT !.boot = FALSE] ELSE s
           b == TryBecomeLeader(t.disc)
           v == [t EXCEPT !.disc = b]
           u == IF boots /\ r.got /\ ~t.leading THEN BecomeLeader(v) ELSE t
<1>1. /\ own \in Owner /\ DiscOK(own.disc, mail)
      /\ OwnerOK(own, mail)
      /\ mail \in Seq(LeaseReply) /\ link \in Seq(LinkRequest)
      /\ own.fail_count < ISOLATED_AFTER
      /\ Booting(own, mail, link)
  BY AtRestFacts
<1>2. /\ mail # <<>> /\ mail' = Tail(mail) /\ Execute(u, ok)
      /\ UNCHANGED <<link, loads, store, handle, calm>>
  BY DEF OnLease
<1>3. /\ DiscOK(e, Tail(mail)) /\ Carried(own.disc, mail, e, Tail(mail))
      /\ r.kind # "Claim" => e.claiming = own.disc.claiming /\ e.claimed = own.disc.claimed
      /\ r.kind = "Claim" => ~e.claiming /\ own.disc.claiming /\ (e.claimed <=> r.got)
  BY <1>1, <1>2, ElectorReplies
<1>4. Tail(mail) \in Seq(LeaseReply)
  BY <1>1, <1>2, Tailed
<1> HIDE DEF e
<1>5. /\ OwnerOK(s, Tail(mail)) /\ Same(own, s) /\ s.disc = e
      /\ s.fail_count < ISOLATED_AFTER /\ s.leading = own.leading /\ s.strayed = own.strayed
  <2>1. own.leading /\ ~own.strayed => ~e.claiming /\ ~e.claimed
    BY <1>1, <1>3 DEF OwnerOK, Tidy
  <2> QED
    BY <1>1, <1>3, <2>1, DiscStep
<1> HIDE DEF s
<1>6. own.boot => boots /\ link = <<>> /\ ~own.leading
  BY <1>1, <1>2 DEF Booting, HopOS
<1>7. /\ OwnerOK(t, Tail(mail)) /\ t.platform = own.platform /\ ~t.boot
      /\ t.half = own.half /\ t.disc = e /\ t.fail_count < ISOLATED_AFTER
      /\ t.leading = own.leading /\ t.strayed = own.strayed
  <2>1. s \in Owner /\ own.boot \in BOOLEAN
    BY <1>1, <1>5 DEF OwnerOK, Owner
  <2>2. /\ t \in Owner /\ t.platform = s.platform /\ ~t.boot /\ t.half = s.half
        /\ t.disc = s.disc /\ t.fail_count = s.fail_count /\ t.leading = s.leading /\ t.strayed = s.strayed
        /\ t.out = s.out
    <3>1. CASE boots
      BY <2>1, <3>1 DEF Owner
    <3>2. CASE ~boots
      BY <1>5, <1>6, <2>1, <3>2 DEF Same
    <3> QED
      BY <3>1, <3>2
  <2> HIDE DEF t
  <2> QED
    BY <1>5, <2>2 DEF OwnerOK, Tidy, Same
<1> HIDE DEF t
<1>8. /\ OwnerOK(u, Tail(mail)) /\ u.platform = own.platform /\ ~u.boot
      /\ u.half = own.half /\ u.fail_count < ISOLATED_AFTER
  <2>1. CASE boots /\ r.got /\ ~t.leading
    <3>1. /\ DiscOK(b, Tail(mail)) /\ ~b.claimed /\ ~b.claiming
          /\ Carried(t.disc, Tail(mail), b, Tail(mail)) /\ ~Guarded(t.disc, Tail(mail))
      BY <1>3, <1>4, <1>7, <2>1, TryingToLead
    <3> HIDE DEF b
    <3>2. t \in Owner /\ b \in Elector /\ t.disc \in Elector /\ Tidy(t, Tail(mail))
      BY <1>7, <3>1 DEF OwnerOK, DiscOK
    <3>3. Pending(b) <= 1
      BY <1>4, <3>1, <3>2, Tallies DEF Tidy, Carried, Pending
    <3>4. /\ v \in Owner /\ v.disc = b /\ v.platform = t.platform /\ v.half = t.half
          /\ v.boot = t.boot
      BY <3>2 DEF Owner
    <3> HIDE DEF v
    <3> DEFINE w == BecomeLeader(v)
    <3>5. OwnerOK(w, Tail(mail)) /\ Same(v, w) /\ w.fail_count = 0
      BY <1>4, <3>1, <3>3, <3>4, Becoming
    <3> HIDE DEF w
    <3>6. u = w
      BY <2>1 DEF w
    <3> QED
      BY <1>7, <3>4, <3>5, <3>6, ElectionAssumption DEF Same
  <2>2. CASE ~(boots /\ r.got /\ ~t.leading)
    BY <1>7, <2>2
  <2> QED
    BY <2>1, <2>2
<1> HIDE DEF u
<1> QED
  BY <1>1, <1>2, <1>4, <1>8, HandlerKeeps

\* A late answer or failure of a call at a leader.
LEMMA OnLinkKeeps ==
  ASSUME ElectionIInv, NEW ok \in BOOLEAN, NEW result, OnLink(result, ok)
  PROVE  ElectionIInv'
<1> DEFINE s == ElectionReply(own, Head(link), result)
<1>1. /\ OwnerOK(own, mail) /\ own.out = Local("None")
      /\ mail \in Seq(LeaseReply) /\ link \in Seq(LinkRequest)
      /\ own.fail_count < ISOLATED_AFTER
      /\ Booting(own, mail, link)
  BY AtRestFacts
<1>2. /\ link # <<>> /\ link' = Tail(link) /\ Execute(s, ok)
      /\ UNCHANGED <<mail, loads, store, handle, calm>>
  BY DEF OnLink
<1>3. Head(link) \in LinkRequest /\ Tail(link) \in Seq(LinkRequest)
  BY <1>1, <1>2, Tailed
<1>5. OwnerOK(s, mail) /\ Same(own, s) /\ s.fail_count < ISOLATED_AFTER
  BY <1>1, <1>3, Replying
<1>6. ~own.boot
  BY <1>1, <1>2 DEF Booting
<1> HIDE DEF s
<1> QED
  BY <1>1, <1>2, <1>3, <1>5, <1>6, HandlerKeeps DEF Same

\* The first step on a host.
LEMMA BootKeeps ==
  ASSUME ElectionIInv, NEW ok \in BOOLEAN, Boot(ok)
  PROVE  ElectionIInv'
<1> DEFINE b == TryBecomeLeader(own.disc)
           s == [own EXCEPT !.boot = FALSE, !.disc = b]
           u == IF Won(own.disc) THEN BecomeLeader(s) ELSE s
<1>1. /\ own \in Owner /\ DiscOK(own.disc, mail)
      /\ OwnerOK(own, mail) /\ own.out = Local("None")
      /\ mail \in Seq(LeaseReply) /\ link \in Seq(LinkRequest)
      /\ own.fail_count < ISOLATED_AFTER
      /\ Booting(own, mail, link)
  BY AtRestFacts
<1>2. /\ own.boot /\ Execute(u, ok) /\ UNCHANGED <<mail, link, loads, store, handle, calm>>
  BY DEF Boot
<1>3. link = <<>> /\ ~own.leading
  BY <1>1, <1>2 DEF Booting
<1>4. /\ DiscOK(b, mail) /\ ~b.claimed /\ Carried(own.disc, mail, b, mail)
      /\ own.disc.claimed => ~b.claiming /\ ~Guarded(own.disc, mail)
  BY <1>1, TryingToLead
<1> HIDE DEF b
<1>5. b \in Elector
  BY <1>4 DEF DiscOK
<1>6. /\ s \in Owner /\ s.disc = b /\ s.out = own.out /\ s.fail_count = own.fail_count
      /\ s.leading = own.leading /\ s.strayed = own.strayed /\ s.half = own.half /\ s.platform = own.platform
      /\ s.boot = FALSE
  BY <1>1, <1>5 DEF Owner
<1> HIDE DEF s
<1>7. OwnerOK(s, mail)
  BY <1>1, <1>3, <1>4, <1>6, TidyKept DEF OwnerOK
<1>8. /\ OwnerOK(u, mail) /\ u.platform = own.platform /\ ~u.boot
      /\ u.half = own.half /\ u.fail_count < ISOLATED_AFTER
  <2>1. CASE Won(own.disc)
    <3> DEFINE w == BecomeLeader(s)
    <3>1. Pending(b) <= 1
      <4>1. Tidy(own, mail) /\ own.disc \in Elector
        BY <1>1 DEF OwnerOK, DiscOK
      <4> QED
        BY <1>1, <1>4, <2>1, <4>1, Tallies DEF Tidy, Carried, Pending, Won
    <3>2. OwnerOK(w, mail) /\ Same(s, w) /\ w.fail_count = 0
      BY <1>1, <1>4, <1>6, <2>1, <3>1, Becoming DEF Won
    <3> HIDE DEF w
    <3>3. u = w
      BY <2>1 DEF w
    <3> QED
      BY <1>6, <3>2, <3>3, ElectionAssumption DEF Same
  <2>2. CASE ~Won(own.disc)
    BY <1>1, <1>6, <1>7, <2>2
  <2> QED
    BY <2>1, <2>2
<1> HIDE DEF u
<1> QED
  BY <1>1, <1>2, <1>8, HandlerKeeps

\* The committed state arrives, in time or after a step down.
LEMMA OnLoadedKeeps ==
  ASSUME ElectionIInv, NEW ok \in BOOLEAN, OnLoaded(ok)
  PROVE  ElectionIInv'
<1> DEFINE h == [own EXCEPT !.half = "off"]
<1>1. /\ own \in Owner /\ OwnerOK(own, mail) /\ own.out = Local("None")
      /\ mail \in Seq(LeaseReply) /\ loads \in Nat
      /\ own.fail_count < ISOLATED_AFTER
      /\ Booting(own, mail, link)
  BY AtRestFacts
<1>2. /\ loads > 0 /\ loads' = loads - 1
      /\ own' = CASE own.half # "loading" -> own
                  [] own.half = "loading" /\ ~own.leading -> [own EXCEPT !.half = "off"]
                  [] own.half = "loading" /\ own.leading /\ ok -> Open(own)
                  [] OTHER -> Resign([own EXCEPT !.half = "off"])
      /\ UNCHANGED <<mail, link, stateq, store, handle, calm>>
  BY DEF OnLoaded
<1>3. own.half # "off" => own.leading
  BY <1>1, LocalKinds DEF OwnerOK
<1>4. /\ AtRest(own', mail) /\ own'.fail_count < ISOLATED_AFTER
      /\ own'.half # "loading"
      /\ own'.boot => own' = own
  <2>1. CASE own.half # "loading"
    BY <1>1, <1>2, <2>1 DEF AtRest
  <2>2. CASE own.half = "loading" /\ ok
    <3>1. own' = [own EXCEPT !.half = "live", !.known = TRUE]
      BY <1>2, <1>3, <2>2 DEF Open
    <3>2. /\ own' \in Owner /\ own'.disc = own.disc /\ own'.leading = own.leading /\ own'.strayed = own.strayed
          /\ own'.fail_count = own.fail_count /\ own'.out = own.out
          /\ own'.half = "live" /\ own'.boot = own.boot
      BY <1>1, <3>1 DEF Owner
    <3> QED
      BY <1>1, <1>3, <2>2, <3>2, DoneIsAtRest DEF Booting
  <2>3. CASE own.half = "loading" /\ ~ok
    <3>1. own' = Resign(h)
      BY <1>2, <1>3, <2>3
    <3>2. /\ h \in Owner /\ h.disc = own.disc /\ h.leading = own.leading /\ h.strayed = own.strayed
          /\ h.fail_count = own.fail_count /\ h.out = own.out
          /\ h.half = "off" /\ h.boot = own.boot
      BY <1>1 DEF Owner
    <3> HIDE DEF h
    <3>3. OwnerOK(h, mail)
      BY <1>1, <3>2 DEF OwnerOK, Tidy
    <3>4. LET t == Resign(h) IN
          /\ AtRest(t, mail) /\ t.half = "off"
          /\ t.boot = h.boot /\ t.fail_count = h.fail_count
      BY <1>1, <1>3, <2>3, <3>2, <3>3, Resigning
    <3> QED
      BY <1>1, <1>3, <2>3, <3>1, <3>2, <3>4 DEF Booting
  <2> QED
    BY <2>1, <2>2, <2>3
<1>5. Booting(own', mail', link')
  BY <1>1, <1>2, <1>4 DEF Booting
<1>6. TypeOK'
  BY <1>1, <1>2, <1>4 DEF ElectionIInv, TypeOK, AtRest, OwnerOK
<1> QED
  BY <1>2, <1>4, <1>5, <1>6 DEF ElectionIInv, Awaits

-----------------------------------------------------------------------------
(* The lease thread *)

\* An operation is served, and its answer is in the mail.
LEMMA DiscServe ==
  ASSUME NEW d, NEW e \in Elector, NEW m \in Seq(LeaseReply), DiscOK(d, m),
         d.ops # <<>>, NEW r \in LeaseReply, r.kind = Head(d.ops),
         e = [d EXCEPT !.ops = Tail(d.ops)]
  PROVE  DiscOK(e, Append(m, r)) /\ Carried(d, m, e, Append(m, r))
<1> DEFINE op == Head(d.ops)
           T(x) == Tally(e.ops, Only(x))
           U(x) == Tally(m, Answers(x))
<1>1. d \in Elector /\ d.ops \in Seq(LeaseOp)
  BY DEF DiscOK, Elector
<1>2. /\ e.ops = Tail(d.ops) /\ e.reading = d.reading /\ e.claiming = d.claiming
      /\ e.renewing = d.renewing /\ e.claimed = d.claimed
  BY <1>1 DEF Elector
<1>3. \A x : T(x) \in Nat /\ U(x) \in Nat /\ Tally(d.ops, Only(x)) \in Nat
  BY <1>1, Tallies
<1>4. \A x : Tally(Tail(d.ops), Only(x)) = Tally(d.ops, Only(x))
                                             - (IF Head(d.ops) \in Only(x) THEN 1 ELSE 0)
  BY <1>1, TallyTailed
<1>5. \A x : Tally(d.ops, Only(x)) = T(x) + (IF op = x THEN 1 ELSE 0)
  <2>1. \A x : Head(d.ops) \in Only(x) <=> op = x
    BY DEF Only
  <2> QED
    BY <1>2, <1>3, <1>4, <2>1
<1>6. \A x : Tally(Append(m, r), Answers(x)) = U(x) + (IF r \in Answers(x) THEN 1 ELSE 0)
  BY TallyAppended
<1>7. \A x : Tally(Append(m, r), Answers(x)) = U(x) + (IF op = x THEN 1 ELSE 0)
  <2>1. \A x : r \in Answers(x) <=> op = x
    BY DEF Answers
  <2> QED
    BY <1>6, <2>1
<1>8. op # "Release"
  BY DEF LeaseReply
<1>9. \A x : Out(e, Append(m, r), x) = Out(d, m, x)
  <2> SUFFICES ASSUME NEW x PROVE Out(e, Append(m, r), x) = Out(d, m, x)
    OBVIOUS
  <2>1. /\ Out(e, Append(m, r), x) = T(x) + Tally(Append(m, r), Answers(x))
        /\ Out(d, m, x) = Tally(d.ops, Only(x)) + U(x)
    BY DEF Out
  <2> HIDE DEF op, T, U
  <2> QED
    BY <1>3, <1>5, <1>7, <2>1
<1>10. T("Release") = Tally(d.ops, Only("Release"))
  <2> HIDE DEF op, T, U
  <2> QED
    BY <1>3, <1>5, <1>8
<1>11. Counted(e, Append(m, r))
  BY <1>2, <1>9, <1>10 DEF DiscOK, Counted
<1>12. Guarded(d, m) => Guarded(e, Append(m, r))
  <2> SUFFICES ASSUME NEW j \in DOMAIN d.ops, d.ops[j] = "Release", ~d.claimed,
                      Tally(m, Answers("Claim")) = 0, \A i \in 1..j : d.ops[i] # "Claim"
               PROVE  Guarded(e, Append(m, r))
    BY DEF Guarded
  <2>1. /\ Len(d.ops) \in Nat \ {0} /\ DOMAIN d.ops = 1..Len(d.ops) /\ op = d.ops[1]
        /\ DOMAIN e.ops = 1..Len(d.ops) - 1
        /\ \A i \in 1..Len(d.ops) - 1 : e.ops[i] = d.ops[i + 1]
    BY <1>1, <1>2, Tailed, Sequence
  <2>2. 1 \in 1..j /\ j # 1
    BY <1>8, <2>1
  <2>3. op # "Claim"
    BY <2>1, <2>2
  <2>4. /\ j - 1 \in DOMAIN e.ops /\ (j - 1) + 1 = j
        /\ \A i \in 1..j - 1 : i \in 1..Len(d.ops) - 1 /\ i + 1 \in 1..j
    BY <2>1, <2>2
  <2>5. e.ops[j - 1] = "Release" /\ \A i \in 1..j - 1 : e.ops[i] # "Claim"
    BY <2>1, <2>4
  <2>6. Tally(Append(m, r), Answers("Claim")) = 0
    <3> HIDE DEF op
    <3> QED
      BY <1>7, <2>3
  <2> QED
    BY <1>2, <2>4, <2>5, <2>6 DEF Guarded
<1> QED
  BY <1>2, <1>10, <1>11, <1>12 DEF DiscOK, Carried, Pending

\* A release is served; nobody is answered.
LEMMA DiscReleased ==
  ASSUME NEW d, NEW e \in Elector, NEW m \in Seq(LeaseReply), DiscOK(d, m),
         d.ops # <<>>, Head(d.ops) = "Release", e = [d EXCEPT !.ops = Tail(d.ops)]
  PROVE  DiscOK(e, m) /\ Pending(e) \in Nat /\ Pending(d) = Pending(e) + 1
<1> DEFINE T(x) == Tally(e.ops, Only(x))
<1>1. d \in Elector /\ d.ops \in Seq(LeaseOp)
  BY DEF DiscOK, Elector
<1>2. /\ e.ops = Tail(d.ops) /\ e.reading = d.reading /\ e.claiming = d.claiming
      /\ e.renewing = d.renewing /\ e.claimed = d.claimed
  BY <1>1 DEF Elector
<1>3. \A x : T(x) \in Nat /\ Tally(d.ops, Only(x)) \in Nat
  BY <1>1, Tallies
<1>4. \A x : Tally(Tail(d.ops), Only(x)) = Tally(d.ops, Only(x))
                                             - (IF Head(d.ops) \in Only(x) THEN 1 ELSE 0)
  BY <1>1, TallyTailed
<1>5. \A x : Tally(d.ops, Only(x)) = T(x) + (IF x = "Release" THEN 1 ELSE 0)
  <2>1. \A x : Head(d.ops) \in Only(x) <=> x = "Release"
    BY DEF Only
  <2> QED
    BY <1>2, <1>3, <1>4, <2>1
<1> HIDE DEF T
<1>6. /\ T("Read") = Tally(d.ops, Only("Read")) /\ T("Claim") = Tally(d.ops, Only("Claim"))
      /\ T("Renew") = Tally(d.ops, Only("Renew"))
      /\ Tally(d.ops, Only("Release")) = T("Release") + 1
  BY <1>3, <1>5
<1>7. Counted(e, m)
  BY <1>2, <1>6 DEF DiscOK, Counted, Out, T
<1> QED
  BY <1>2, <1>3, <1>6, <1>7 DEF DiscOK, Pending, T

\* The head of the queue leaves it.
LEMMA Taken ==
  ASSUME ElectionIInv, NEW op, Take(op)
  PROVE  LET e == [own.disc EXCEPT !.ops = Tail(own.disc.ops)] IN
         /\ e \in Elector /\ own.disc.ops # <<>> /\ Head(own.disc.ops) = op
         /\ own' = [own EXCEPT !.disc = e]
         /\ e.claiming = own.disc.claiming /\ e.claimed = own.disc.claimed
         /\ e.age = own.disc.age
         /\ UNCHANGED <<link, stateq, loads, calm>>
<1>1. own \in Owner /\ own.disc \in Elector
  BY AtRestFacts
<1>2. own.disc.ops # <<>> /\ Head(own.disc.ops) = op /\ UNCHANGED <<link, stateq, loads, calm>>
  BY DEF Take
<1>3. own.disc.ops \in Seq(LeaseOp) /\ Tail(own.disc.ops) \in Seq(LeaseOp)
  BY <1>1, <1>2, Tailed DEF Elector
<1>4. own' = [own EXCEPT !.disc = [own.disc EXCEPT !.ops = Tail(own.disc.ops)]]
  BY <1>1 DEF Take, Owner, Elector
<1> QED
  BY <1>1, <1>2, <1>3, <1>4 DEF Elector

\* The lease thread answers an operation.
LEMMA ServedKeeps ==
  ASSUME ElectionIInv, NEW op, Take(op), NEW r \in LeaseReply, r.kind = op,
         mail' = Append(mail, r), store' \in Lease, handle' \in {"none", "current", "stale"}
  PROVE  ElectionIInv'
<1> DEFINE e == [own.disc EXCEPT !.ops = Tail(own.disc.ops)]
<1>1. /\ own \in Owner /\ DiscOK(own.disc, mail) /\ OwnerOK(own, mail)
      /\ own.out = Local("None") /\ mail \in Seq(LeaseReply)
      /\ Booting(own, mail, link) /\ Awaits(own, stateq, loads)
      /\ own.fail_count < ISOLATED_AFTER
  BY AtRestFacts
<1>2. /\ e \in Elector /\ own.disc.ops # <<>> /\ Head(own.disc.ops) = op
      /\ own' = [own EXCEPT !.disc = e]
      /\ e.claiming = own.disc.claiming /\ e.claimed = own.disc.claimed
      /\ e.age = own.disc.age
      /\ UNCHANGED <<link, stateq, loads, calm>>
  BY Taken
<1>3. DiscOK(e, Append(mail, r)) /\ Carried(own.disc, mail, e, Append(mail, r))
  BY <1>1, <1>2, DiscServe
<1> HIDE DEF e
<1>4. own.leading /\ ~own.strayed => ~e.claiming /\ ~e.claimed
  BY <1>1, <1>2 DEF OwnerOK, Tidy
<1>5. /\ OwnerOK(own', mail') /\ Same(own, own') /\ own'.disc = e /\ own'.out = own.out
      /\ own'.fail_count = own.fail_count /\ own'.leading = own.leading /\ own'.strayed = own.strayed
      /\ own'.last_leader = own.last_leader
  BY ZenonT(30), <1>1, <1>2, <1>3, <1>4, DiscStep
<1>6. /\ mail' \in Seq(LeaseReply) /\ mail' # <<>>
      /\ mail # <<>> => Head(mail') = Head(mail)
      /\ mail = <<>> => Head(mail') = r
  BY <1>1, Appended, Sequence
<1>7. Booting(own', mail', link')
  BY <1>1, <1>2, <1>5, <1>6 DEF Booting, Same, Fresh
<1>8. Awaits(own', stateq', loads')
  BY <1>1, <1>2, <1>5 DEF Awaits, Same
<1>9. TypeOK'
  BY <1>2, <1>5, <1>6 DEF ElectionIInv, TypeOK, OwnerOK
<1> QED
  BY <1>1, <1>2, <1>5, <1>7, <1>8, <1>9 DEF ElectionIInv, AtRest

\* What the lease thread writes.
LEMMA WrittenIsLease == Written \in Lease /\ [owner |-> NoNode, left |-> -1] \in Lease
  BY ElectionAssumption DEF Written, Lease, Node

\* The lease thread serves the head of its queue.
LEMMA LeaseThreadKeeps ==
  ASSUME ElectionIInv, LeaseThread
  PROVE  ElectionIInv'
<1>1. store \in Lease /\ handle \in {"none", "current", "stale"}
  BY DEF ElectionIInv, TypeOK
<1>2. ASSUME NEW ok \in BOOLEAN, ServeRead(ok)
      PROVE  ElectionIInv'
  <2> DEFINE r == [kind |-> "Read", ok |-> ok,
                   leader |-> IF ok /\ ~Expired THEN store.owner ELSE NoNode]
  <2>1. Take("Read") /\ mail' = Append(mail, r) /\ store' = store /\ handle' = handle
    BY <1>2 DEF ServeRead, Answer
  <2>2. r \in LeaseReply /\ r.kind = "Read"
    BY <1>1 DEF LeaseReply, Lease
  <2> HIDE DEF r
  <2> QED
    BY <1>1, <2>1, <2>2, ServedKeeps
<1>3. \A got, held \in BOOLEAN : \A op \in {"Claim", "Renew"} :
        ClaimReply(op, got, held) \in LeaseReply /\ ClaimReply(op, got, held).kind = op
  BY DEF ClaimReply, LeaseReply
<1>4. ASSUME NEW outcome \in Outcome, NEW op \in {"Claim", "Renew"},
             ServeClaim(op, outcome) \/ (op = "Renew" /\ ServeRenew(outcome))
      PROVE  ElectionIInv'
  <2>1. Take(op)
    BY <1>4 DEF ServeClaim, ServeRenew
  <2>2. /\ store' \in Lease /\ handle' \in {"none", "current", "stale"}
        /\ \E got, held \in BOOLEAN : mail' = Append(mail, ClaimReply(op, got, held))
    BY <1>1, <1>4, WrittenIsLease DEF ServeClaim, ServeRenew, Answer, Unconfirmed
  <2> QED
    BY <1>3, <2>1, <2>2, ServedKeeps
<1>5. ASSUME NEW ok \in BOOLEAN, ServeRelease(ok)
      PROVE  ElectionIInv'
  <2> DEFINE e == [own.disc EXCEPT !.ops = Tail(own.disc.ops)]
  <2>1. /\ own \in Owner /\ DiscOK(own.disc, mail) /\ OwnerOK(own, mail)
        /\ own.out = Local("None") /\ mail \in Seq(LeaseReply)
        /\ Booting(own, mail, link) /\ Awaits(own, stateq, loads)
        /\ own.fail_count < ISOLATED_AFTER
    BY AtRestFacts
  <2>2. /\ Take("Release") /\ mail' = mail /\ handle' = "none" /\ store' \in Lease
    BY <1>1, <1>5, WrittenIsLease DEF ServeRelease
  <2>3. /\ e \in Elector /\ own.disc.ops # <<>> /\ Head(own.disc.ops) = "Release"
        /\ own' = [own EXCEPT !.disc = e]
        /\ e.claiming = own.disc.claiming /\ e.claimed = own.disc.claimed
        /\ e.age = own.disc.age
        /\ UNCHANGED <<link, stateq, loads, calm>>
    BY <2>2, Taken
  <2>4. DiscOK(e, mail) /\ Pending(e) \in Nat /\ Pending(own.disc) = Pending(e) + 1
    BY <2>1, <2>3, DiscReleased
  <2> HIDE DEF e
  <2>5. /\ own' \in Owner /\ own'.disc = e /\ own'.out = own.out
        /\ own'.fail_count = own.fail_count
        /\ own'.leading = own.leading /\ own'.strayed = own.strayed
        /\ own'.half = own.half /\ own'.platform = own.platform
        /\ own'.boot = own.boot /\ own'.last_leader = own.last_leader
    BY <2>1, <2>3 DEF Owner
  <2>10. Tidy(own', mail)
    BY <2>1, <2>4, <2>5 DEF OwnerOK, Tidy
  <2>6. OwnerOK(own', mail') /\ Same(own, own')
    BY <2>1, <2>2, <2>4, <2>5, <2>10 DEF OwnerOK, Same
  <2>7. Booting(own', mail', link')
    BY <2>1, <2>2, <2>3, <2>5 DEF Booting, Fresh
  <2>8. Awaits(own', stateq', loads')
    BY <2>1, <2>3, <2>6 DEF Awaits, Same
  <2>9. TypeOK'
    BY <2>1, <2>2, <2>3, <2>5 DEF ElectionIInv, TypeOK, OwnerOK
  <2> QED
    BY <2>1, <2>2, <2>3, <2>5, <2>6, <2>7, <2>8, <2>9 DEF ElectionIInv, AtRest
<1> QED
  BY <1>2, <1>4, <1>5 DEF LeaseThread

-----------------------------------------------------------------------------
(* The surroundings, the state task, time and restarts *)

\* A step that touches nothing the invariant speaks of but types.
LEMMA ApartKeeps ==
  ASSUME ElectionIInv, own' \in Owner, own'.disc = own.disc, own'.leading = own.leading /\ own'.strayed = own.strayed,
         own'.fail_count = own.fail_count, own'.out = own.out, own'.half = own.half,
         own'.platform = own.platform, own'.boot = own.boot,
         own'.last_leader = own.last_leader, UNCHANGED <<mail, link>>,
         stateq' \in Seq({"Load", "Save"}), Len(stateq') <= STATE_Q, loads' \in Nat,
         Awaits(own, stateq, loads) => Awaits(own, stateq', loads'),
         store' \in Lease, handle' \in {"none", "current", "stale"}, calm' \in BOOLEAN
  PROVE  ElectionIInv'
<1>1. AtRest(own', mail')
  BY DEF ElectionIInv, AtRest, OwnerOK, Tidy
<1>2. Booting(own', mail', link')
  BY DEF ElectionIInv, Booting
<1>3. Awaits(own', stateq', loads')
  BY DEF ElectionIInv, Awaits
<1>4. TypeOK'
  BY DEF ElectionIInv, TypeOK
<1> QED
  BY <1>1, <1>2, <1>3, <1>4 DEF ElectionIInv

\* The other nodes, the state task and the leader's saves.
LEMMA SurroundingsKeep ==
  ASSUME ElectionIInv,
         Unregister \/ Place \/ Save \/ StateTask \/ Calm
           \/ \E o \in Others : OtherWrites(o) \/ OtherReleases(o)
  PROVE  ElectionIInv'
<1>1. /\ own \in Owner /\ stateq \in Seq({"Load", "Save"}) /\ Len(stateq) <= STATE_Q
      /\ loads \in Nat /\ store \in Lease /\ handle \in {"none", "current", "stale"}
      /\ calm \in BOOLEAN /\ Len(stateq) \in Nat
  BY Sequence DEF ElectionIInv, TypeOK
<1>2. ASSUME Unregister \/ Place
      PROVE  ElectionIInv'
  <2>1. /\ own' = [own EXCEPT !.known = FALSE] \/ own' = [own EXCEPT !.tasks = TRUE]
        /\ UNCHANGED <<mail, link, stateq, loads, store, handle, calm>>
    BY <1>2 DEF Unregister, Place
  <2>2. /\ own' \in Owner /\ own'.disc = own.disc /\ own'.leading = own.leading /\ own'.strayed = own.strayed
        /\ own'.fail_count = own.fail_count /\ own'.out = own.out /\ own'.half = own.half
        /\ own'.platform = own.platform /\ own'.boot = own.boot
        /\ own'.last_leader = own.last_leader
    BY <1>1, <2>1 DEF Owner
  <2> QED
    BY <1>1, <2>1, <2>2, ApartKeeps
<1>3. ASSUME Save
      PROVE  ElectionIInv'
  <2>1. /\ stateq' = Append(stateq, "Save") /\ Len(stateq) < STATE_Q
        /\ UNCHANGED <<own, mail, link, loads, store, handle, calm>>
    BY <1>3 DEF Save
  <2>2. /\ stateq' \in Seq({"Load", "Save"}) /\ Len(stateq') = Len(stateq) + 1
        /\ DOMAIN stateq = 1..Len(stateq) /\ DOMAIN stateq' = 1..Len(stateq) + 1
        /\ \A i \in 1..Len(stateq) : stateq'[i] = stateq[i]
    BY <1>1, <2>1, Appended, Sequence
  <2>3. Len(stateq') <= STATE_Q /\ DOMAIN stateq \subseteq DOMAIN stateq'
    BY <1>1, <2>1, <2>2, ElectionAssumption
  <2>4. Awaits(own, stateq, loads) => Awaits(own, stateq', loads')
    BY <2>1, <2>2, <2>3 DEF Awaits
  <2> QED
    BY <1>1, <2>1, <2>2, <2>3, <2>4, ApartKeeps
<1>4. ASSUME StateTask
      PROVE  ElectionIInv'
  <2>1. /\ stateq # <<>> /\ stateq' = Tail(stateq)
        /\ loads' = IF Head(stateq) = "Load" THEN loads + 1 ELSE loads
        /\ UNCHANGED <<own, mail, link, store, handle, calm>>
    BY <1>4 DEF StateTask
  <2>2. /\ stateq' \in Seq({"Load", "Save"}) /\ Len(stateq') = Len(stateq) - 1
        /\ Len(stateq) \in Nat \ {0}
        /\ DOMAIN stateq = 1..Len(stateq) /\ DOMAIN stateq' = 1..Len(stateq) - 1
        /\ Head(stateq) = stateq[1]
        /\ \A i \in 1..Len(stateq) - 1 : stateq'[i] = stateq[i + 1]
    BY <1>1, <2>1, Tailed, Sequence
  <2>3. Len(stateq') <= STATE_Q /\ loads' \in Nat
    BY <1>1, <2>1, <2>2, ElectionAssumption
  <2>4. ASSUME NEW i \in DOMAIN stateq, stateq[i] = "Load"
        PROVE  loads' > 0 \/ \E k \in DOMAIN stateq' : stateq'[k] = "Load"
    <3>1. CASE i = 1
      BY <1>1, <2>1, <2>2, <2>4, <3>1
    <3>2. CASE i # 1
      <4>1. i - 1 \in DOMAIN stateq' /\ stateq'[i - 1] = stateq[(i - 1) + 1] /\ (i - 1) + 1 = i
        BY <2>2, <3>2
      <4> QED
        BY <2>4, <4>1
    <3> QED
      BY <3>1, <3>2
  <2>5. Awaits(own, stateq, loads) => Awaits(own, stateq', loads')
    BY <1>1, <2>1, <2>4 DEF Awaits
  <2> QED
    BY <1>1, <2>1, <2>2, <2>3, <2>5, ApartKeeps
<1>5. ASSUME Calm
      PROVE  ElectionIInv'
  BY <1>1, <1>5, ApartKeeps DEF Calm
<1>6. ASSUME NEW o \in Others, OtherWrites(o) \/ OtherReleases(o)
      PROVE  ElectionIInv'
  <2>1. [owner |-> o, left |-> TTL] \in Lease
    BY ElectionAssumption DEF Lease, Node
  <2>2. store' \in Lease /\ handle' \in {"none", "current", "stale"}
        /\ UNCHANGED <<own, mail, link, stateq, loads, calm>>
    BY <1>1, <1>6, <2>1, WrittenIsLease DEF OtherWrites, OtherReleases
  <2> QED
    BY <1>1, <2>2, ApartKeeps
<1> QED
  BY <1>2, <1>3, <1>4, <1>5, <1>6

\* One tick of time.
LEMMA TimeKeeps ==
  ASSUME ElectionIInv, Time
  PROVE  ElectionIInv'
<1> DEFINE d == own.disc
           a == IF d.age < TTL THEN d.age + 1 ELSE d.age
           e == [d EXCEPT !.left = Decrease(d.left, 0), !.renew_in = Decrease(d.renew_in, 0),
                          !.age = a]
<1>1. /\ own \in Owner /\ d \in Elector /\ DiscOK(d, mail) /\ OwnerOK(own, mail)
      /\ own.out = Local("None") /\ Booting(own, mail, link) /\ Awaits(own, stateq, loads)
      /\ own.fail_count < ISOLATED_AFTER
  BY AtRestFacts
<1>2. /\ own' = [own EXCEPT !.due = TRUE, !.disc = e]
      /\ store' = [store EXCEPT !.left = Decrease(store.left, -1)]
      /\ UNCHANGED <<mail, link, stateq, loads, handle, calm>>
  BY <1>1 DEF Time, Owner, Elector
<1>3. /\ d.left \in 0..TTL /\ d.renew_in \in 0..RenewEvery /\ d.age \in 0..NoAge
  BY <1>1 DEF Elector
<1>4. /\ Decrease(d.left, 0) \in 0..TTL /\ Decrease(d.renew_in, 0) \in 0..RenewEvery
      /\ a \in 0..NoAge /\ (a < TTL => d.age < TTL)
  BY <1>3, ElectionAssumption DEF Decrease, NoAge
<1> HIDE DEF a
<1>5. /\ e \in Elector /\ e.ops = d.ops /\ e.reading = d.reading
      /\ e.claiming = d.claiming /\ e.renewing = d.renewing /\ e.claimed = d.claimed
      /\ e.age = a
  BY <1>1, <1>4 DEF Elector
<1> HIDE DEF e
<1>6. DiscOK(e, mail) /\ Carried(d, mail, e, mail)
  BY <1>1, <1>5, DiscFrame
<1>7. /\ own' \in Owner /\ own'.disc = e /\ own'.leading = own.leading /\ own'.strayed = own.strayed
      /\ own'.fail_count = own.fail_count /\ own'.out = own.out /\ own'.half = own.half
      /\ own'.platform = own.platform /\ own'.boot = own.boot
      /\ own'.last_leader = own.last_leader
  BY <1>1, <1>2, <1>5 DEF Owner
<1>8. OwnerOK(own', mail')
  BY <1>1, <1>2, <1>5, <1>6, <1>7, TidyKept DEF OwnerOK
<1>9. Booting(own', mail', link')
  BY <1>1, <1>2, <1>4, <1>5, <1>7 DEF Booting, Fresh
<1>10. store' \in Lease
  <2>1. store \in Lease /\ store.left \in (-1)..TTL
    BY DEF ElectionIInv, TypeOK, Lease
  <2>2. Decrease(store.left, -1) \in (-1)..TTL
    BY <2>1, ElectionAssumption DEF Decrease
  <2> QED
    BY <1>2, <2>1, <2>2 DEF Lease
<1>11. TypeOK'
  BY <1>2, <1>7, <1>10 DEF ElectionIInv, TypeOK
<1> QED
  BY <1>1, <1>2, <1>7, <1>8, <1>9, <1>11 DEF ElectionIInv, AtRest, Awaits

\* A fresh process satisfies the invariant.
LEMMA FreshIsAtRest ==
  ASSUME NEW p \in Platforms, NEW holding \in BOOLEAN, holding => p # "HopOS"
  PROVE  LET s == FreshProcess(p, holding) IN
         /\ AtRest(s, <<>>) /\ Booting(s, <<>>, <<>>)
         /\ s.fail_count < ISOLATED_AFTER /\ s.half = "off"
<1> DEFINE s == FreshProcess(p, holding)
           d == s.disc
           hop == p = "HopOS"
<1>1. /\ 0 \in 0..TTL /\ TTL \in 0..TTL /\ NoAge \in 0..NoAge /\ ~(NoAge < TTL)
      /\ RenewEvery \in 0..RenewEvery /\ 0 \in 0..ISOLATED_AFTER /\ 0 < ISOLATED_AFTER
  BY ElectionAssumption DEF NoAge
<1>2. <<>> \in Seq(LeaseOp) /\ <<"Claim">> \in Seq(LeaseOp) /\ hop \in BOOLEAN
  BY DEF LeaseOp
<1>3. /\ d.ops = (IF hop THEN <<"Claim">> ELSE <<>>) /\ d.reading = FALSE /\ d.renewing = FALSE
      /\ d.claiming = hop /\ d.claimed = holding /\ d.age = NoAge
      /\ d \in Elector
  <2>1. d = [leader |-> NoNode, age |-> NoAge, store_ok |-> FALSE, reading |-> FALSE,
             holding |-> holding, left |-> IF holding THEN TTL ELSE 0,
             renewing |-> FALSE, renew_in |-> RenewEvery,
             claiming |-> hop, claimed |-> holding, displaced |-> FALSE,
             ops |-> IF hop THEN <<"Claim">> ELSE <<>>]
    BY DEF FreshProcess
  <2>2. (IF holding THEN TTL ELSE 0) \in 0..TTL /\ NoNode \in Node \cup {NoNode}
    BY <1>1
  <2>3. (IF hop THEN <<"Claim">> ELSE <<>>) \in Seq(LeaseOp)
    BY <1>2
  <2> HIDE DEF d, hop
  <2> QED
    BY <1>1, <1>2, <2>1, <2>2, <2>3 DEF Elector
<1>4. /\ s.platform = p /\ s.leading = FALSE /\ s.last_leader = NoNode /\ s.fail_count = 0
      /\ s.half = "off" /\ s.boot = TRUE /\ s.out = Local("None") /\ s \in Owner
      /\ s.strayed = FALSE
  <2>1. NoNode \in Node \cup {NoNode} /\ Local("None") \in LinkRequest \cup LocalRequest
    BY LocalKinds
  <2>2. s = [platform |-> p, disc |-> d,
             leading |-> FALSE, registered |-> FALSE, last_leader |-> NoNode, fail_count |-> 0,
             half |-> "off", known |-> FALSE, leader_addr |-> NoNode, tasks |-> FALSE,
             due |-> FALSE, boot |-> TRUE, strayed |-> FALSE, out |-> Local("None")]
    BY DEF FreshProcess
  <2> HIDE DEF s, d
  <2> QED
    BY <1>1, <1>3, <2>1, <2>2 DEF Owner
<1> HIDE DEF s, d, hop
<1>5. \A x : Tally(<<>>, Answers(x)) = 0 /\ Tally(<<>>, Only(x)) = 0
  BY TallyNone
<1>6. /\ Tally(<<"Claim">>, Only("Read")) = 0 /\ Tally(<<"Claim">>, Only("Renew")) = 0
      /\ Tally(<<"Claim">>, Only("Release")) = 0 /\ Tally(<<"Claim">>, Only("Claim")) = 1
  <2>1. <<"Claim">> = Append(<<>>, "Claim") /\ "Claim" \in LeaseOp
    BY DEF LeaseOp
  <2>5. \A x : Tally(Append(<<>>, "Claim"), Only(x))
                 = Tally(<<>>, Only(x)) + (IF "Claim" \in Only(x) THEN 1 ELSE 0)
    BY <1>2, <2>1, TallyAppended
  <2>2. \A x : Tally(<<"Claim">>, Only(x))
                 = Tally(<<>>, Only(x)) + (IF "Claim" \in Only(x) THEN 1 ELSE 0)
    BY <2>1, <2>5, Zenon
  <2>3. \A x : "Claim" \in Only(x) <=> x = "Claim"
    BY DEF Only
  <2>4. \A x : Tally(<<"Claim">>, Only(x)) = IF x = "Claim" THEN 1 ELSE 0
    BY <1>5, <2>2, <2>3
  <2> QED
    BY <2>4
<1>7. Counted(d, <<>>)
  BY <1>3, <1>5, <1>6 DEF Counted, Out, Flag
<1>8. Pending(d) = 0
  BY <1>3, <1>5, <1>6 DEF Pending
<1>9. DiscOK(d, <<>>)
  BY <1>3, <1>7 DEF DiscOK, hop
<1>10. AtRest(s, <<>>)
  <2>1. Tidy(s, <<>>)
    BY <1>4, <1>8 DEF Tidy, d
  <2> QED
    BY <1>4, <1>9, <2>1, LocalKinds DEF AtRest, OwnerOK, d
<1>11. Booting(s, <<>>, <<>>)
  <2>1. <<"Claim">> # <<>> /\ Head(<<"Claim">>) = "Claim"
    OBVIOUS
  <2>2. s.disc.age = NoAge /\ s.disc.claiming = hop
        /\ s.disc.ops = (IF hop THEN <<"Claim">> ELSE <<>>)
    BY <1>3 DEF d
  <2>3. ~Fresh(s.disc)
    BY <1>1, <2>2 DEF Fresh
  <2> QED
    BY <1>4, <2>1, <2>2, <2>3 DEF Booting, hop
<1> QED
  BY <1>1, <1>4, <1>10, <1>11 DEF s

\* A restart.
LEMMA RestartKeeps ==
  ASSUME ElectionIInv, NEW holding \in BOOLEAN, Restart(holding)
  PROVE  ElectionIInv'
<1> DEFINE s == FreshProcess(own.platform, holding)
<1>1. own.platform \in Platforms /\ own.tasks \in BOOLEAN
  BY DEF ElectionIInv, TypeOK, Owner
<1>2. /\ holding => own.platform # "HopOS"
      /\ own' = [s EXCEPT !.tasks = own.tasks]
      /\ mail' = <<>> /\ link' = <<>> /\ stateq' = <<>> /\ loads' = 0
      /\ handle' \in {"none", "current", "stale"} /\ calm' = calm
      /\ store' = Written \/ store' = store
  BY DEF Restart, HopOS
<1>3. /\ AtRest(s, <<>>) /\ Booting(s, <<>>, <<>>)
      /\ s.fail_count < ISOLATED_AFTER /\ s.half = "off"
  BY <1>1, <1>2, FreshIsAtRest
<1> HIDE DEF s
<1>4. s \in Owner
  BY <1>3 DEF AtRest, OwnerOK
<1>5. /\ own' \in Owner /\ own'.disc = s.disc /\ own'.leading = s.leading /\ own'.strayed = s.strayed
      /\ own'.fail_count = s.fail_count /\ own'.out = s.out /\ own'.half = s.half
      /\ own'.platform = s.platform /\ own'.boot = s.boot
      /\ own'.last_leader = s.last_leader
  BY <1>1, <1>2, <1>4 DEF Owner
<1>6. AtRest(own', <<>>)
  BY <1>3, <1>5 DEF AtRest, OwnerOK, Tidy
<1>7. Booting(own', <<>>, <<>>)
  BY <1>3, <1>5 DEF Booting
<1>8. /\ mail' \in Seq(LeaseReply) /\ link' \in Seq(LinkRequest)
      /\ stateq' \in Seq({"Load", "Save"}) /\ Len(stateq') <= STATE_Q
  BY <1>2, ElectionAssumption
<1>9. TypeOK'
  BY <1>2, <1>5, <1>8, WrittenIsLease DEF ElectionIInv, TypeOK
<1> QED
  BY <1>2, <1>3, <1>5, <1>6, <1>7, <1>8, <1>9 DEF ElectionIInv, Awaits

\* The initial states satisfy the inductive invariant.
LEMMA ElectionStarts == Init => ElectionIInv
<1> SUFFICES ASSUME Init PROVE ElectionIInv
  OBVIOUS
<1>1. PICK p \in Platforms : own = FreshProcess(p, FALSE)
  BY DEF Init
<1>2. /\ mail = <<>> /\ link = <<>> /\ stateq = <<>> /\ loads = 0 /\ calm = FALSE
      /\ handle = "none"
  BY DEF Init
<1>3. /\ AtRest(own, <<>>) /\ Booting(own, <<>>, <<>>)
      /\ own.fail_count < ISOLATED_AFTER /\ own.half = "off"
  BY <1>1, FreshIsAtRest
<1>4. store \in Lease
  BY WrittenIsLease DEF Init, Lease
<1>5. /\ mail \in Seq(LeaseReply) /\ link \in Seq(LinkRequest)
      /\ stateq \in Seq({"Load", "Save"}) /\ Len(stateq) <= STATE_Q
  BY <1>2, ElectionAssumption
<1>6. TypeOK
  BY <1>2, <1>3, <1>4, <1>5 DEF TypeOK, AtRest, OwnerOK
<1> QED
  BY <1>2, <1>3, <1>5, <1>6 DEF ElectionIInv, Awaits

-----------------------------------------------------------------------------
(* The theorem *)

\* Every step keeps the inductive invariant.
LEMMA ElectionSteps ==
  ASSUME ElectionIInv, [Next]_vars
  PROVE  ElectionIInv'
<1>1. CASE OwnerStep
  BY <1>1, OwnerTickKeeps, OnLeaseKeeps, OnLinkKeeps, OnLoadedKeeps, BootKeeps
     DEF OwnerStep
<1>2. CASE LeaseThread
  BY <1>2, LeaseThreadKeeps
<1>3. CASE StateTask
  BY <1>3, SurroundingsKeep
<1>4. CASE Time
  BY <1>4, TimeKeeps
<1>5. CASE Surroundings
  BY <1>5, SurroundingsKeep, RestartKeeps DEF Surroundings
<1>6. CASE UNCHANGED vars
  <2>1. /\ own' = own /\ mail' = mail /\ link' = link /\ stateq' = stateq
        /\ loads' = loads /\ store' = store /\ handle' = handle /\ calm' = calm
    BY <1>6 DEF vars
  <2>2. TypeOK'
    BY <2>1 DEF ElectionIInv, TypeOK
  <2> QED
    BY <2>1, <2>2 DEF ElectionIInv
<1> QED
  BY <1>1, <1>2, <1>3, <1>4, <1>5, <1>6 DEF Next, NodeStep

\* The inductive invariant implies the invariant that is checked.
LEMMA ElectionImplied == ElectionIInv => ElectionInv
<1> SUFFICES ASSUME ElectionIInv PROVE ElectionInv
  OBVIOUS
<1>1. /\ own \in Owner /\ own.disc \in Elector /\ DiscOK(own.disc, mail)
      /\ OwnerOK(own, mail) /\ own.out = Local("None")
      /\ mail \in Seq(LeaseReply) /\ Awaits(own, stateq, loads)
  BY AtRestFacts
<1>2. ServesOnlyWhileLeading
  BY <1>1, LocalKinds DEF OwnerOK, ServesOnlyWhileLeading
<1>3. StoppedBeforeRelease
  <2>1. Releases(own.disc) => Pending(own.disc) # 0
    BY <1>1, Tallies DEF Releases, Pending
  <2> QED
    BY <1>1, <1>2, <2>1 DEF OwnerOK, Tidy, ServesOnlyWhileLeading, StoppedBeforeRelease
<1>4. LoadingIsAwaited
  BY <1>1 DEF LoadingIsAwaited, Awaits
<1>5. OneOfEachKind
  <2>1. ASSUME NEW op
        PROVE  Outstanding(op) = Out(own.disc, mail, op)
    <3>1. {i \in DOMAIN own.disc.ops : own.disc.ops[i] = op}
            = {i \in DOMAIN own.disc.ops : own.disc.ops[i] \in Only(op)}
      BY DEF Only
    <3>2. {i \in DOMAIN mail : mail[i].kind = op} = {i \in DOMAIN mail : mail[i] \in Answers(op)}
      <4>1. \A i \in DOMAIN mail : mail[i] \in LeaseReply
        BY <1>1, Sequence
      <4> QED
        BY <4>1 DEF Answers
    <3> QED
      BY <3>1, <3>2 DEF Outstanding, Out, Tally
  <2>2. Tally(mail, Answers("Release")) = 0
    <3>1. \A i \in DOMAIN mail : mail[i] \in LeaseReply
      BY <1>1, Sequence
    <3>2. \A i \in DOMAIN mail : mail[i] \notin Answers("Release")
      BY <3>1 DEF Answers, LeaseReply
    <3> QED
      BY <1>1, <3>2, Tallied
  <2>3. Tally(own.disc.ops, Only("Release")) \in Nat
    BY <1>1, Tallies
  <2>4. Outstanding("Release") <= IF own.strayed THEN 2 ELSE 1
    BY <1>1, <2>1, <2>2, <2>3 DEF Out, OwnerOK, Tidy, Pending
  <2> QED
    BY <1>1, <2>1, <2>4 DEF OneOfEachKind, DiscOK, Counted, Flag
<1> QED
  BY <1>2, <1>3, <1>4, <1>5 DEF ElectionInv, ElectionIInv

\* Whatever order ticks, late answers, failed loads and restarts come in: at most
\* one operation of each kind is out, the leader half serves only while the
\* election leads, it has stopped before its release is served unless it strayed,
\* and a half that waits for the state has a load under way (elector.rs,
\* election.rs, node.rs).
THEOREM ElectionSafe == Spec => []ElectionInv
<1>1. ElectionIInv /\ [Next]_vars => ElectionIInv'
  BY ElectionSteps
<1> QED
  BY <1>1, ElectionStarts, ElectionImplied, PTL DEF Spec
=============================================================================
