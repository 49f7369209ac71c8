----------------------------- MODULE StateProofs -----------------------------
(***************************************************************************)
(* Proofs about module CommittedState, for any nodes, jobs and bounds, and *)
(* whatever calls are under way when a term begins.                        *)
(***************************************************************************)
EXTENDS CommittedState, QueueLemmas

USE StateAssumption

-----------------------------------------------------------------------------
(* The inductive invariant, for one node: s is its state, c the blob, r what  *)
(* may be missing from its snapshots, x the nodes whose terms were crossed.   *)

\* The only mail is of saves that failed.
OnlyFailures(s) == \A i \in 1..Len(s.mail) : s.mail[i].kind = "SaveFailed"

\* What was in a and is not in b may be missing.
Kept(a, b, r) == a \ b \subseteq r

\* A load whose answer the owner waits for: on a host the last operation in the
\* queue; on HopOS, in a term that is not crossed, the only thing under way, and
\* its answer is still true.
Awaited(n, s, c, x) ==
  IF n \in Host
  THEN /\ s.queue # <<>>
       /\ s.queue[Len(s.queue)].kind = "Load"
       /\ \A i \in 1..Len(s.queue) : i # Len(s.queue) => s.queue[i].kind # "Load"
  ELSE n \in x \/ ( /\ s.held = Nothing
                   /\ \/ s.queue = <<[kind |-> "Load"]>> /\ s.mail = <<>>
                      \/ /\ s.queue = <<>> /\ Len(s.mail) = 1 /\ s.mail[1].kind = "Loaded"
                         /\ s.mail[1].got.ok => s.mail[1].got.blob = c )

\* What the store holds once all that is under way is written.
Newest(s, c) ==
  IF s.queue # <<>> THEN s.queue[Len(s.queue)].jobs
  ELSE IF s.held # Nothing THEN s.held[1] ELSE Jobs(c)

\* The queue, the held snapshot and the mail fit the leader half.
Orderly(n, s, c, x) ==
  /\ s.writing => s.held # Nothing
  /\ n \in Host => s.held = Nothing /\ OnlyFailures(s)
  /\ s.half = "loading" => Awaited(n, s, c, x)
  /\ s.half # "loading" /\ n \in Host => \A i \in 1..Len(s.queue) : s.queue[i].kind # "Load"
  /\ s.half = "live" /\ (n \in Host \/ n \notin x)
       => OnlyFailures(s) /\ \A i \in 1..Len(s.queue) : s.queue[i].kind = "Save"

\* A clean leader's jobs are what the store will hold.
CleanIsNewest(n, s, c, x) ==
  n \notin x /\ s.half = "live" /\ s.dirty = "clean" /\ s.mail = <<>> => s.jobs = Newest(s, c)

\* Nothing that is committed or about to be is missing from what comes after it:
\* the store, the held snapshot, the queue in its order, the leader's memory.
InOrder(s, c, r) ==
  /\ \A i \in 1..Len(s.queue) : s.queue[i].kind = "Save" =>
       /\ Kept(Jobs(c), s.queue[i].jobs, r)
       /\ s.held # Nothing => Kept(s.held[1], s.queue[i].jobs, r)
       /\ \A j \in 1..Len(s.queue) : i < j /\ s.queue[j].kind = "Save"
                                     => Kept(s.queue[i].jobs, s.queue[j].jobs, r)
       /\ s.half = "live" => Kept(s.queue[i].jobs, s.jobs, r)
  /\ s.held # Nothing => Kept(Jobs(c), s.held[1], r)
  /\ s.half = "live" => Kept(Jobs(c), s.jobs, r)
  /\ s.half = "live" /\ s.held # Nothing => Kept(s.held[1], s.jobs, r)

\* A HopOS node that waits for a load may be told what was committed before its
\* own calls were done: all that they bring, and all that was committed since, may
\* be missing.
Told(n, s, c, r) ==
  s.half = "loading" /\ n \notin Host =>
    /\ s.held # Nothing => s.held[1] \subseteq r
    /\ \A i \in 1..Len(s.queue) : s.queue[i].kind = "Save" => s.queue[i].jobs \subseteq r
    /\ \A i \in 1..Len(s.mail) : s.mail[i].kind = "Loaded" /\ s.mail[i].got.ok
                                 => Kept(Jobs(c), Jobs(s.mail[i].got.blob), r)

\* A node's state, with room for its queue.
Fits(s) == s \in NodeState /\ Len(s.queue) <= STATE_Q

Good(n, s, c, r, x) ==
  /\ Fits(s) /\ Orderly(n, s, c, x) /\ CleanIsNewest(n, s, c, x)
  /\ InOrder(s, c, r) /\ Told(n, s, c, r)

\* A node of the specification.
NodeGood(n) == Good(n, node[n], committed, removed \cup unseen[n], crossed)

\* The inductive invariant: every node is in order.
StateIInv ==
  /\ committed \in Blob /\ late \subseteq StateSnapshot
  /\ node \in [Node -> NodeState]
  /\ crossed \subseteq Node /\ unseen \in [Node -> SUBSET StateJob]
  /\ removed \subseteq StateJob
  /\ mutations \in 0..MaxMutations /\ faults \in 0..MaxFaults /\ terms \in 0..MaxTerms
  /\ \A n \in Node : NodeGood(n)

-----------------------------------------------------------------------------
(* The state of a node *)

\* The fields of a node's state.
LEMMA Fields ==
  ASSUME NEW s \in NodeState
  PROVE  /\ s.half \in {"off", "loading", "live"} /\ s.jobs \in StateSnapshot
         /\ s.dirty \in {"clean", "dirty", "seen"}
         /\ s.queue \in Seq(StateOp) /\ s.held \in Blob /\ s.writing \in BOOLEAN
         /\ s.mail \in Seq(Mail)
         /\ Len(s.queue) \in Nat /\ DOMAIN s.queue = 1..Len(s.queue)
         /\ \A i \in 1..Len(s.queue) : s.queue[i] \in StateOp
         /\ s.queue = <<>> <=> Len(s.queue) = 0
         /\ Len(s.mail) \in Nat /\ DOMAIN s.mail = 1..Len(s.mail)
         /\ \A i \in 1..Len(s.mail) : s.mail[i] \in Mail
         /\ s.mail = <<>> <=> Len(s.mail) = 0
<1>1. /\ s.half \in {"off", "loading", "live"} /\ s.jobs \in StateSnapshot
      /\ s.dirty \in {"clean", "dirty", "seen"}
      /\ s.queue \in Seq(StateOp) /\ s.held \in Blob /\ s.writing \in BOOLEAN
      /\ s.mail \in Seq(Mail)
  BY DEF NodeState
<1> QED
  BY <1>1, Sequence

\* A blob is absent or has one snapshot.
LEMMA Blobs ==
  /\ Nothing \in Blob /\ Jobs(Nothing) = {}
  /\ \A b \in Blob : Jobs(b) \in StateSnapshot
                     /\ (b # Nothing => b[1] \in StateSnapshot /\ Jobs(b) = b[1])
  /\ \A s \in StateSnapshot : <<s>> \in Blob /\ <<s>> # Nothing /\ Jobs(<<s>>) = s /\ <<s>>[1] = s
  BY DEF Blob, Nothing, Jobs, StateSnapshot

\* An operation of the queue that saves has a snapshot.
LEMMA Ops ==
  \A op \in StateOp : /\ op.kind \in {"Load", "Skip", "Save"}
                      /\ op.kind = "Save" => op.jobs \in StateSnapshot
  BY DEF StateOp

\* What quiet means.
LEMMA QuietIs ==
  ASSUME NEW s \in NodeState
  PROVE  Quiet(s) <=> s.half = "off" /\ s.held = Nothing /\ s.queue = <<>> /\ s.mail = <<>>
  BY Fields DEF Quiet, Saving

\* A quiet node is in order whatever is committed.
LEMMA QuietGood ==
  ASSUME NEW n, NEW s, Fits(s), Quiet(s), s.writing => s.held # Nothing, NEW c, NEW r, NEW x
  PROVE  Good(n, s, c, r, x)
<1>1. /\ s.half = "off" /\ s.held = Nothing /\ s.queue = <<>> /\ s.mail = <<>>
      /\ Len(s.queue) = 0 /\ Len(s.mail) = 0
  BY QuietIs, Fields DEF Fits
<1>2. Orderly(n, s, c, x)
  BY <1>1 DEF Orderly, OnlyFailures
<1>3. CleanIsNewest(n, s, c, x)
  BY <1>1 DEF CleanIsNewest
<1>4. InOrder(s, c, r)
  BY <1>1 DEF InOrder
<1>5. Told(n, s, c, r)
  BY <1>1 DEF Told
<1> QED
  BY <1>2, <1>3, <1>4, <1>5 DEF Good

\* A node stays in order when more may be missing, and when its term is crossed.
LEMMA Looser ==
  ASSUME NEW n, NEW s \in NodeState, NEW c, NEW r, NEW x, NEW q, NEW y,
         r \subseteq q, n \in x => n \in y, Good(n, s, c, r, x)
  PROVE  Good(n, s, c, q, y)
<1>1. ASSUME NEW a, NEW b, Kept(a, b, r) PROVE Kept(a, b, q)
  BY <1>1 DEF Kept
<1>2. InOrder(s, c, q)
  BY <1>1 DEF Good, InOrder
<1>3. Told(n, s, c, q)
  BY <1>1 DEF Good, Told
<1>4. Orderly(n, s, c, y) /\ CleanIsNewest(n, s, c, y)
  BY DEF Good, Orderly, Awaited, CleanIsNewest
<1> QED
  BY <1>2, <1>3, <1>4 DEF Good

\* A node stays in order when a write that is not its own crosses its term: what
\* the write brings may be missing.
LEMMA CrossedGood ==
  ASSUME NEW n, NEW s \in NodeState, NEW c, NEW d, NEW r, NEW x, NEW q, NEW y, n \in y,
         r \subseteq q, Jobs(d) \ Jobs(c) \subseteq q, Good(n, s, c, r, x)
  PROVE  Good(n, s, d, q, y)
<1>1. ASSUME NEW a, NEW b, Kept(a, b, r) PROVE Kept(a, b, q)
  BY <1>1 DEF Kept
<1>2. ASSUME NEW b, Kept(Jobs(c), b, r) PROVE Kept(Jobs(d), b, q)
  BY <1>2 DEF Kept
<1>3. InOrder(s, d, q)
  BY <1>1, <1>2 DEF Good, InOrder
<1>4. Told(n, s, d, q)
  BY <1>2 DEF Good, Told
<1>5. Orderly(n, s, d, y) /\ CleanIsNewest(n, s, d, y)
  BY DEF Good, Orderly, Awaited, CleanIsNewest
<1> QED
  BY <1>3, <1>4, <1>5 DEF Good

-----------------------------------------------------------------------------
(* What each operation makes of a node *)

\* What a node may still write is outstanding.
LEMMA OutstandingIs ==
  ASSUME NEW s \in NodeState
  PROVE  /\ s.held # Nothing => s.held[1] \subseteq Outstanding(s)
         /\ \A i \in 1..Len(s.queue) : s.queue[i].kind = "Save" => s.queue[i].jobs \subseteq Outstanding(s)
         /\ Outstanding(s) \subseteq StateJob
<1>1. DOMAIN s.queue = 1..Len(s.queue) /\ \A i \in 1..Len(s.queue) : s.queue[i] \in StateOp
  BY Fields
<1>2. s.held # Nothing => s.held[1] \subseteq Outstanding(s)
  BY DEF Outstanding, Jobs
<1>3. \A i \in 1..Len(s.queue) : s.queue[i].kind = "Save" => s.queue[i].jobs \subseteq Outstanding(s)
  BY <1>1 DEF Outstanding
<1>4. Jobs(s.held) \in StateSnapshot
  BY Fields, Blobs
<1>5. \A i \in 1..Len(s.queue) : s.queue[i].kind = "Save" => s.queue[i].jobs \in StateSnapshot
  BY <1>1, Ops
<1>6. Outstanding(s) \subseteq StateJob
  BY <1>1, <1>4, <1>5 DEF Outstanding, StateSnapshot
<1> QED
  BY <1>2, <1>3, <1>6

\* A node that wins asks for the state: with nothing under way, or on a host with
\* its saves before the load, or on HopOS in a term that is crossed.
LEMMA WinGood ==
  ASSUME NEW n, NEW s, NEW c \in Blob, NEW r, NEW x, Good(n, s, c, r, x),
         s.half = "off", Room(s),
         \/ Quiet(s)
         \/ n \in Host
         \/ n \in x /\ Jobs(c) \subseteq r /\ Outstanding(s) \subseteq r
  PROVE  Good(n, [Enqueue(s, [kind |-> "Load"]) EXCEPT !.half = "loading"], c, r, x)
<1> DEFINE op == [kind |-> "Load"]
           t == [Enqueue(s, op) EXCEPT !.half = "loading"]
<1>1. s \in NodeState /\ Len(s.queue) < STATE_Q
  BY DEF Good, Fits, Room
<1>2. op \in StateOp /\ op.kind = "Load"
  BY DEF StateOp
<1>3. /\ t.half = "loading" /\ t.queue = Append(s.queue, op) /\ t.held = s.held
      /\ t.writing = s.writing /\ t.mail = s.mail /\ t \in NodeState
  BY <1>1, <1>2, Fields, Appended DEF NodeState, Enqueue
<1> HIDE DEF t, op
<1>4. /\ Len(t.queue) = Len(s.queue) + 1 /\ t.queue # <<>>
      /\ t.queue[Len(s.queue) + 1] = op
      /\ \A i \in 1..Len(s.queue) : t.queue[i] = s.queue[i]
  BY SMTT(30), <1>1, <1>2, <1>3, Fields, Appended
<1>5. Fits(t)
  BY <1>1, <1>3, <1>4, Fields DEF Fits
<1>6. Awaited(n, t, c, x)
  <2>1. CASE n \in Host
    BY <2>1, <1>1, <1>2, <1>3, <1>4, Fields DEF Awaited, Good, Orderly
  <2>2. CASE n \notin Host /\ Quiet(s)
    <3>1. t.held = Nothing /\ s.queue = <<>> /\ t.mail = <<>>
      BY <2>2, <1>1, <1>3, QuietIs
    <3>2. t.queue = <<op>>
      BY <3>1, <1>3
    <3> QED
      BY <2>2, <3>1, <3>2 DEF Awaited, op
  <2>3. CASE n \notin Host /\ n \in x
    BY <2>3 DEF Awaited
  <2> QED
    BY <2>1, <2>2, <2>3
<1>7. Orderly(n, t, c, x)
  BY <1>3, <1>6 DEF Good, Orderly, OnlyFailures
<1>8. CleanIsNewest(n, t, c, x)
  BY <1>3 DEF CleanIsNewest
<1>9. InOrder(t, c, r)
  BY <1>1, <1>2, <1>3, <1>4, Fields DEF Good, InOrder
<1>10. Told(n, t, c, r)
  <2>1. CASE n \in Host
    BY <2>1 DEF Told
  <2>2. CASE Quiet(s)
    <3>1. t.held = Nothing /\ Len(s.queue) = 0 /\ Len(t.mail) = 0
      BY <2>2, <1>1, <1>3, QuietIs, Fields
    <3>2. Len(t.queue) = 1 /\ t.queue[1].kind = "Load"
      BY <3>1, <1>2, <1>4
    <3>3. \A i \in 1..Len(t.queue) : t.queue[i].kind # "Save"
      BY <3>2
    <3> QED
      BY <3>1, <3>3 DEF Told
  <2>3. CASE Jobs(c) \subseteq r /\ Outstanding(s) \subseteq r
    <3>1. s.held # Nothing => s.held[1] \subseteq r
      BY <2>3, <1>1, OutstandingIs
    <3>2. \A i \in 1..Len(s.queue) : s.queue[i].kind = "Save" => s.queue[i].jobs \subseteq r
      BY <2>3, <1>1, OutstandingIs
    <3>3. \A i \in 1..Len(t.queue) : t.queue[i].kind = "Save" => t.queue[i].jobs \subseteq r
      <4>1. Len(s.queue) \in Nat
        BY <1>1, Fields
      <4>2. \A i \in 1..Len(t.queue) : i \in 1..Len(s.queue) \/ i = Len(s.queue) + 1
        BY <1>4, <4>1
      <4> QED
        BY <3>2, <1>2, <1>4, <4>2
    <3>4. \A L : Kept(Jobs(c), L, r)
      BY <2>3 DEF Kept
    <3> QED
      BY <3>1, <3>3, <3>4, <1>3 DEF Told
  <2> QED
    BY <2>1, <2>2, <2>3
<1> QED
  BY <1>5, <1>7, <1>8, <1>9, <1>10 DEF Good, t, op

\* A leader that steps down leaves what is queued in order.
LEMMA ClosedGood ==
  ASSUME NEW n, NEW s, NEW c \in Blob, NEW r, NEW x, Good(n, s, c, r, x),
         s.half # "loading" \/ n \notin Host
  PROVE  Good(n, Closed(s), c, r, x)
<1> DEFINE t == Closed(s)
<1>1. s \in NodeState
  BY DEF Good, Fits
<1>2. /\ t.half = "off" /\ t.queue = s.queue /\ t.held = s.held /\ t.mail = s.mail
      /\ t.writing = s.writing /\ t \in NodeState
  BY <1>1 DEF NodeState, Closed, StateSnapshot
<1> HIDE DEF t
<1>3. Fits(t)
  BY <1>2 DEF Good, Fits
<1>4. Orderly(n, t, c, x)
  BY <1>2 DEF Good, Orderly, OnlyFailures
<1>5. CleanIsNewest(n, t, c, x)
  BY <1>2 DEF CleanIsNewest
<1>6. InOrder(t, c, r) /\ Told(n, t, c, r)
  BY <1>2 DEF Good, InOrder, Told
<1> QED
  BY <1>3, <1>4, <1>5, <1>6 DEF Good, t

\* A node that starts again is quiet.
LEMMA CrashGood ==
  ASSUME NEW n, NEW s \in NodeState, NEW c, NEW r, NEW x, NEW t,
         t = [Closed(s) EXCEPT !.queue = <<>>, !.held = Nothing, !.writing = FALSE, !.mail = <<>>]
  PROVE  Quiet(t) /\ Good(n, t, c, r, x)
<1>0. <<>> \in Seq(StateOp) /\ <<>> \in Seq(Mail) /\ {} \in StateSnapshot /\ Nothing \in Blob
  BY Blobs DEF StateSnapshot
<1>1. /\ t.half = "off" /\ t.queue = <<>> /\ t.held = Nothing /\ t.mail = <<>>
      /\ t.writing = FALSE /\ t \in NodeState
  BY <1>0 DEF NodeState, Closed
<1>2. Fits(t)
  BY <1>1, StateAssumption DEF Fits
<1>3. Quiet(t)
  BY <1>1, QuietIs
<1> QED
  BY <1>1, <1>2, <1>3, QuietGood

\* A mutation that is not yet saved leaves the leader dirty.
LEMMA MutateGood ==
  ASSUME NEW n, NEW s, NEW c \in Blob, NEW r, NEW x, NEW q, Good(n, s, c, r, x), r \subseteq q,
         s.half = "live", NEW J \in StateSnapshot, Kept(s.jobs, J, q)
  PROVE  Good(n, MakeDirty(WithJobs(s, J)), c, q, x)
<1> DEFINE t == MakeDirty(WithJobs(s, J))
<1>1. s \in NodeState /\ Good(n, s, c, q, x)
  BY Looser DEF Good, Fits
<1>2. /\ t.half = "live" /\ t.queue = s.queue /\ t.held = s.held /\ t.mail = s.mail
      /\ t.writing = s.writing /\ t.jobs = J /\ t.dirty # "clean" /\ t \in NodeState
  <2>1. CASE s.dirty = "clean"
    BY <2>1, <1>1 DEF NodeState, MakeDirty, WithJobs
  <2>2. CASE s.dirty # "clean"
    BY <2>2, <1>1 DEF NodeState, MakeDirty, WithJobs
  <2> QED
    BY <2>1, <2>2
<1> HIDE DEF t
<1>3. Fits(t)
  BY <1>2 DEF Good, Fits
<1>4. Orderly(n, t, c, x)
  BY <1>2 DEF Good, Orderly, OnlyFailures
<1>5. CleanIsNewest(n, t, c, x)
  BY <1>2 DEF CleanIsNewest
<1>6. ASSUME NEW a, Kept(a, s.jobs, q) PROVE Kept(a, t.jobs, q)
  BY <1>6, <1>2 DEF Kept
<1>7. InOrder(t, c, q) /\ Told(n, t, c, q)
  BY <1>1, <1>2, <1>6 DEF Good, InOrder, Told
<1> QED
  BY <1>3, <1>4, <1>5, <1>7 DEF Good, t

\* The debounce window opens, or the snapshot is the last in the queue, or the
\* leader stays dirty because the queue is full.
LEMMA PollGood ==
  ASSUME NEW n, NEW s, NEW c \in Blob, NEW r, NEW x, Good(n, s, c, r, x),
         s.half = "live", s.dirty # "clean"
  PROVE  Good(n, Polled(s), c, r, x)
<1> DEFINE t == Polled(s)
           op == [kind |-> "Save", jobs |-> s.jobs]
<1>1. s \in NodeState
  BY DEF Good, Fits
<1>2. ASSUME NEW d \in {"dirty", "seen"}, t = [s EXCEPT !.dirty = d]
      PROVE  Good(n, t, c, r, x)
  <2>1. /\ t.half = s.half /\ t.queue = s.queue /\ t.held = s.held /\ t.mail = s.mail
        /\ t.writing = s.writing /\ t.jobs = s.jobs /\ t.dirty # "clean" /\ t \in NodeState
    BY <1>1, <1>2 DEF NodeState
  <2> HIDE DEF t
  <2>2. /\ Fits(t) /\ Orderly(n, t, c, x) /\ CleanIsNewest(n, t, c, x) /\ InOrder(t, c, r)
        /\ Told(n, t, c, r)
    BY <2>1 DEF Good, Fits, Orderly, OnlyFailures, CleanIsNewest, InOrder, Told
  <2> QED
    BY <2>2 DEF Good
<1>3. ASSUME Room(s), t = Enqueue([s EXCEPT !.dirty = "clean"], op)
      PROVE  Good(n, t, c, r, x)
  <2>1. op \in StateOp /\ op.kind = "Save" /\ op.jobs = s.jobs
    BY <1>1, Fields DEF StateOp
  <2> HIDE DEF op
  <2>2. /\ t.half = "live" /\ t.queue = Append(s.queue, op) /\ t.held = s.held /\ t.mail = s.mail
        /\ t.writing = s.writing /\ t.jobs = s.jobs /\ t \in NodeState
    BY <1>1, <1>3, <2>1, Fields, Appended DEF NodeState, Enqueue
  <2> HIDE DEF t
  <2>3. /\ Len(t.queue) = Len(s.queue) + 1 /\ t.queue # <<>> /\ Len(s.queue) \in Nat
        /\ t.queue[Len(s.queue) + 1] = op
        /\ \A i \in 1..Len(s.queue) : t.queue[i] = s.queue[i]
    BY <1>1, <2>1, <2>2, Fields, Appended
  <2>4. Fits(t)
    BY <1>1, <1>3, <2>2, <2>3, Fields DEF Fits, Room
  <2>5. Orderly(n, t, c, x)
    BY <1>1, <2>1, <2>2, <2>3 DEF Good, Orderly, OnlyFailures
  <2>6. CleanIsNewest(n, t, c, x)
    BY <2>1, <2>2, <2>3 DEF CleanIsNewest, Newest
  <2>7. Kept(s.jobs, s.jobs, r)
    BY DEF Kept
  <2>8. InOrder(t, c, r) /\ Told(n, t, c, r)
    BY <1>1, <2>1, <2>2, <2>3, <2>7 DEF Good, InOrder, Told
  <2> QED
    BY <2>4, <2>5, <2>6, <2>8 DEF Good
<1>4. \/ \E d \in {"dirty", "seen"} : t = [s EXCEPT !.dirty = d]
      \/ Room(s) /\ t = Enqueue([s EXCEPT !.dirty = "clean"], op)
  BY DEF Polled
<1> HIDE DEF t
<1> QED
  BY <1>2, <1>3, <1>4 DEF t

\* The answer of a load opens the leader half with what is committed, or not at all.
LEMMA OpenedGood ==
  ASSUME NEW n, NEW s, NEW c \in Blob, NEW r, NEW x, NEW got \in Answer,
         Fits(s), s.queue = <<>>, s.held = Nothing, ~s.writing, OnlyFailures(s),
         got.ok => got.blob = c
  PROVE  Good(n, Opened(s, got), c, r, x)
<1> DEFINE t == Opened(s, got)
<1>1. s \in NodeState /\ got.ok \in BOOLEAN
  BY DEF Fits, Answer
<1>2. Len(s.queue) = 0 /\ InitJobs \in StateSnapshot
  BY <1>1, StateAssumption, Fields DEF StateSnapshot
<1>3. /\ t.queue = s.queue /\ t.held = s.held /\ t.mail = s.mail /\ t.writing = s.writing
      /\ t \in NodeState
      /\ \/ t.half = "off"
         \/ t.half = "live" /\ (t.dirty = "clean" => t.jobs = Jobs(c)) /\ Kept(Jobs(c), t.jobs, r)
  <2>1. CASE ~got.ok
    BY <2>1, <1>1 DEF Opened, Closed, NodeState, StateSnapshot
  <2>2. CASE got.ok /\ got.blob = Nothing
    <3>1. Jobs(c) = {}
      BY <2>2, Blobs
    <3> DEFINE u == [s EXCEPT !.half = "live", !.jobs = InitJobs]
    <3>2. /\ u.queue = s.queue /\ u.held = s.held /\ u.mail = s.mail /\ u.writing = s.writing
          /\ u.jobs = InitJobs /\ u.half = "live" /\ u \in NodeState
      BY <1>1, <1>2 DEF NodeState
    <3>3. t = IF InitJobs = {} THEN u ELSE MakeDirty(u)
      BY <2>2 DEF Opened
    <3> HIDE DEF u, t
    <3>4. CASE InitJobs = {}
      BY <3>1, <3>2, <3>3, <3>4 DEF Kept
    <3>5. CASE InitJobs # {}
      <4>1. MakeDirty(u) = IF u.dirty = "clean" THEN [u EXCEPT !.dirty = "dirty"] ELSE u
        BY DEF MakeDirty
      <4>2. /\ t.queue = u.queue /\ t.held = u.held /\ t.mail = u.mail /\ t.writing = u.writing
            /\ t.half = "live" /\ t \in NodeState /\ t.dirty # "clean"
        BY <3>2, <3>3, <3>5, <4>1 DEF NodeState
      <4> QED
        BY <3>1, <3>2, <4>2 DEF Kept
    <3> QED
      BY <3>4, <3>5
  <2>3. CASE got.ok /\ got.blob # Nothing
    <3>1. got.blob[1] \in StateSnapshot /\ Jobs(c) = got.blob[1]
      BY <2>3, Blobs
    <3> DEFINE j == got.blob[1]
    <3>2. t = [s EXCEPT !.half = "live", !.jobs = j]
      BY <2>3 DEF Opened
    <3>3. j \in StateSnapshot /\ Jobs(c) = j
      BY <3>1
    <3> HIDE DEF t, j
    <3>4. /\ t.queue = s.queue /\ t.held = s.held /\ t.mail = s.mail /\ t.writing = s.writing
          /\ t.half = "live" /\ t.jobs = j /\ t \in NodeState
      BY <1>1, <3>2, <3>3 DEF NodeState
    <3> QED
      BY <3>3, <3>4 DEF Kept
  <2> QED
    BY <1>1, <2>1, <2>2, <2>3
<1> HIDE DEF t
<1>4. Fits(t)
  BY <1>3 DEF Fits
<1>5. Orderly(n, t, c, x)
  BY <1>2, <1>3 DEF Orderly, OnlyFailures
<1>6. CleanIsNewest(n, t, c, x)
  BY <1>3 DEF CleanIsNewest, Newest
<1>7. InOrder(t, c, r) /\ Told(n, t, c, r)
  BY <1>2, <1>3 DEF InOrder, Told
<1> QED
  BY <1>4, <1>5, <1>6, <1>7 DEF Good, t

\* The answer of an earlier load opens a HopOS leader half in a term that is
\* crossed: what it does not tell may be missing.
LEMMA OpenedLate ==
  ASSUME NEW n, n \notin Host, NEW s, NEW c \in Blob, NEW r, NEW got \in Answer, NEW x, n \in x,
         Good(n, s, c, r, x), s.half = "loading",
         got.ok => Kept(Jobs(c), Jobs(got.blob), r),
         NEW t \in NodeState, t.half = s.half, t.jobs = s.jobs, t.queue = s.queue, t.held = s.held,
         t.writing = s.writing
  PROVE  Good(n, Opened(t, got), c, r, x)
<1> DEFINE v == Opened(t, got)
<1>1. got.ok \in BOOLEAN /\ got.blob \in Blob /\ InitJobs \in StateSnapshot
  BY StateAssumption DEF Answer, StateSnapshot
<1>2. /\ v.queue = s.queue /\ v.held = s.held /\ v.writing = s.writing /\ v \in NodeState
      /\ v.half = "off" \/ (v.half = "live" /\ got.ok /\ Jobs(got.blob) \subseteq v.jobs)
  <2>1. CASE ~got.ok
    BY <2>1, <1>1 DEF Opened, Closed, NodeState, StateSnapshot
  <2>2. CASE got.ok /\ got.blob = Nothing
    <3> DEFINE u == [t EXCEPT !.half = "live", !.jobs = InitJobs]
    <3>1. /\ u.queue = s.queue /\ u.held = s.held /\ u.writing = s.writing
          /\ u.half = "live" /\ u \in NodeState
      BY <1>1 DEF NodeState
    <3>2. v = IF InitJobs = {} THEN u ELSE MakeDirty(u)
      BY <2>2 DEF Opened
    <3> HIDE DEF u, v
    <3>3. MakeDirty(u) = IF u.dirty = "clean" THEN [u EXCEPT !.dirty = "dirty"] ELSE u
      BY DEF MakeDirty
    <3>4. /\ v.queue = u.queue /\ v.held = u.held /\ v.writing = u.writing
          /\ v.half = "live" /\ v \in NodeState
      BY <3>1, <3>2, <3>3 DEF NodeState
    <3> QED
      BY <2>2, <3>1, <3>4, Blobs
  <2>3. CASE got.ok /\ got.blob # Nothing
    <3> DEFINE j == got.blob[1]
    <3>1. j \in StateSnapshot /\ Jobs(got.blob) = j
      BY <2>3, <1>1, Blobs
    <3>2. v = [t EXCEPT !.half = "live", !.jobs = j]
      BY <2>3 DEF Opened
    <3> HIDE DEF v, j
    <3>3. /\ v.queue = t.queue /\ v.held = t.held /\ v.writing = t.writing
          /\ v.half = "live" /\ v.jobs = j /\ v \in NodeState
      BY <3>1, <3>2 DEF NodeState
    <3> QED
      BY <2>3, <3>1, <3>3
  <2> QED
    BY <1>1, <2>1, <2>2, <2>3
<1> HIDE DEF v
<1>3. Fits(v) /\ Orderly(n, v, c, x) /\ CleanIsNewest(n, v, c, x) /\ Told(n, v, c, r)
  BY <1>2 DEF Good, Fits, Orderly, CleanIsNewest, Told
<1>4. ASSUME NEW a, a \subseteq r PROVE Kept(a, v.jobs, r)
  BY <1>4 DEF Kept
<1>5. v.half = "live" => Kept(Jobs(c), v.jobs, r)
  BY <1>2 DEF Kept
<1>6. InOrder(v, c, r)
  BY <1>2, <1>4, <1>5 DEF Good, InOrder, Told
<1> QED
  BY <1>3, <1>6 DEF Good, v

\* Mail is handled: a failed save makes the leader dirty, an answer opens it.
LEMMA MailGood ==
  ASSUME NEW n, NEW s, NEW c \in Blob, NEW r, NEW x, Good(n, s, c, r, x),
         s.mail # <<>>, n \in Host => s.half # "loading"
  PROVE  Good(n, Handled(s), c, r, x)
<1> DEFINE m == Head(s.mail)
           t == [s EXCEPT !.mail = Tail(@)]
<1>1. s \in NodeState
  BY DEF Good, Fits
<1>2. /\ m = s.mail[1] /\ m \in Mail /\ Tail(s.mail) \in Seq(Mail)
      /\ Len(s.mail) \in Nat \ {0} /\ Len(Tail(s.mail)) = Len(s.mail) - 1
      /\ \A i \in 1..Len(s.mail) - 1 : Tail(s.mail)[i] = s.mail[i + 1]
  BY <1>1, Fields, Tailed
<1>3. /\ t.half = s.half /\ t.queue = s.queue /\ t.held = s.held /\ t.writing = s.writing
      /\ t.jobs = s.jobs /\ t.dirty = s.dirty /\ t.mail = Tail(s.mail) /\ t \in NodeState
  BY <1>1, <1>2 DEF NodeState
<1>4. Handled(s) = CASE m.kind = "SaveFailed" /\ s.half = "live" -> MakeDirty(t)
                     [] m.kind = "Loaded" /\ s.half = "loading" -> Opened(t, m.got)
                     [] OTHER -> t
  BY DEF Handled
<1> HIDE DEF m, t
<1>5. OnlyFailures(s) => OnlyFailures(t)
  BY <1>2, <1>3 DEF OnlyFailures
<1>6. Fits(t)
  BY <1>3 DEF Good, Fits
<1>10. ASSUME s.half # "loading", Handled(s) = t \/ (s.half = "live" /\ Handled(s) = MakeDirty(t)),
              Handled(s).dirty = "clean" => n \in x \/ s.half = "off"
       PROVE  Good(n, Handled(s), c, r, x)
  <2> DEFINE u == Handled(s)
  <2>1. /\ u.half = s.half /\ u.queue = s.queue /\ u.held = s.held /\ u.writing = s.writing
        /\ u.jobs = s.jobs /\ u.mail = t.mail /\ u \in NodeState
        /\ u.dirty = "clean" => n \in x \/ s.half = "off"
    <3>1. MakeDirty(t) = IF t.dirty = "clean" THEN [t EXCEPT !.dirty = "dirty"] ELSE t
      BY DEF MakeDirty
    <3>2. CASE u = t
      BY <1>3, <1>10, <3>2
    <3>3. CASE u = [t EXCEPT !.dirty = "dirty"]
      BY <1>3, <1>10, <3>3 DEF NodeState
    <3> QED
      BY <1>10, <3>1, <3>2, <3>3
  <2> HIDE DEF u
  <2>2. Fits(u) /\ (OnlyFailures(s) => OnlyFailures(u))
    BY <1>5, <1>6, <1>3, <2>1 DEF Fits, OnlyFailures
  <2>3. Orderly(n, u, c, x) /\ CleanIsNewest(n, u, c, x) /\ InOrder(u, c, r) /\ Told(n, u, c, r)
    BY <1>10, <2>1, <2>2 DEF Good, Orderly, CleanIsNewest, InOrder, Told
  <2> QED
    BY <2>2, <2>3 DEF Good, u
<1>7. CASE s.half = "live"
  <2>1. CASE m.kind = "SaveFailed"
    <3>1. Handled(s) = MakeDirty(t)
      BY <1>4, <1>7, <2>1
    <3>2. MakeDirty(t).dirty # "clean"
      BY <1>3 DEF MakeDirty, NodeState
    <3> QED
      BY <1>7, <1>10, <3>1, <3>2
  <2>2. CASE m.kind # "SaveFailed"
    <3>1. Handled(s) = t
      BY <1>4, <1>7, <2>2
    <3>2. n \in x
      BY <1>2, <1>7, <2>2 DEF Good, Orderly, OnlyFailures
    <3> QED
      BY <1>7, <1>10, <3>1, <3>2
  <2> QED
    BY <2>1, <2>2
<1>8. CASE s.half = "loading" /\ n \notin x
  <2>1. Awaited(n, s, c, x) /\ n \notin Host
    BY <1>8 DEF Good, Orderly
  <2>2. /\ s.held = Nothing /\ s.queue = <<>> /\ Len(s.mail) = 1 /\ m.kind = "Loaded"
        /\ m.got.ok => m.got.blob = c
    BY <1>2, <1>8, <2>1 DEF Awaited
  <2>3. m.got \in Answer
    BY <1>2, <2>2 DEF Mail
  <2>4. Handled(s) = Opened(t, m.got)
    BY <1>4, <1>8, <2>2
  <2>5. OnlyFailures(t) /\ ~t.writing
    BY <1>2, <1>3, <2>2 DEF OnlyFailures, Good, Orderly
  <2> QED
    BY <1>3, <1>6, <2>2, <2>3, <2>4, <2>5, OpenedGood
<1>11. CASE s.half = "loading" /\ n \in x
  <2>1. n \notin Host /\ n \in x
    BY <1>11
  <2>2. CASE m.kind = "Loaded"
    <3>1. m.got \in Answer
      BY <1>2, <2>2 DEF Mail
    <3>2. m.got.ok => Kept(Jobs(c), Jobs(m.got.blob), r)
      BY <1>2, <1>11, <2>1, <2>2 DEF Good, Told
    <3>3. Handled(s) = Opened(t, m.got)
      BY <1>4, <1>11, <2>2
    <3>4. Good(n, Opened(t, m.got), c, r, x)
      BY <1>3, <1>11, <2>1, <3>1, <3>2, OpenedLate
    <3> QED
      BY <2>1, <3>3, <3>4
  <2>3. CASE m.kind # "Loaded"
    <3>1. Handled(s) = t
      BY <1>4, <1>11, <2>3
    <3>2. Orderly(n, t, c, x) /\ CleanIsNewest(n, t, c, x) /\ InOrder(t, c, r)
      BY <1>3, <1>11, <2>1 DEF Good, Orderly, Awaited, CleanIsNewest, InOrder
    <3>3. \A i \in 1..Len(t.mail) : i + 1 \in 1..Len(s.mail) /\ t.mail[i] = s.mail[i + 1]
      BY <1>2, <1>3
    <3>4. Told(n, t, c, r)
      BY <1>3, <3>3 DEF Good, Told
    <3> QED
      BY <1>6, <3>1, <3>2, <3>4 DEF Good
  <2> QED
    BY <2>2, <2>3
<1>9. CASE s.half = "off"
  <2>1. Handled(s) = t
    BY <1>4, <1>9
  <2> QED
    BY <1>9, <1>10, <2>1
<1> QED
  BY <1>1, <1>7, <1>8, <1>9, <1>11, Fields

\* A load that nobody waits for is skipped, and the rest of the queue stays.
LEMMA TimeoutGood ==
  ASSUME NEW n \in Host, NEW s, NEW c \in Blob, NEW r, NEW x, Good(n, s, c, r, x), s.half = "loading",
         NEW t, t = WithoutLoad(Closed(s))
  PROVE  Good(n, t, c, r, x)
<1> DEFINE q == [i \in 1..Len(s.queue) |->
                   IF s.queue[i].kind = "Load" THEN [kind |-> "Skip"] ELSE s.queue[i]]
<1>1. s \in NodeState
  BY DEF Good, Fits
<1>2. [kind |-> "Skip"] \in StateOp
  BY DEF StateOp
<1>3. q \in Seq(StateOp) /\ Len(q) = Len(s.queue)
  <2>1. q \in [1..Len(s.queue) -> StateOp]
    BY <1>1, <1>2, Fields
  <2> QED
    BY <1>1, <2>1, Fields
<1>4. /\ t.half = "off" /\ t.queue = q /\ t.held = s.held /\ t.mail = s.mail
      /\ t.writing = s.writing /\ t \in NodeState
  BY ZenonT(30), <1>1, <1>3, Fields DEF NodeState, Closed, StateSnapshot, WithoutLoad
<1>5. \A i \in 1..Len(t.queue) : t.queue[i].kind = "Save" => t.queue[i] = s.queue[i]
  BY <1>3, <1>4
<1>6. \A i \in 1..Len(t.queue) : t.queue[i].kind # "Load"
  BY <1>3, <1>4
<1>7. Len(t.queue) = Len(s.queue)
  BY <1>3, <1>4
<1> HIDE DEF q
<1>8. Fits(t)
  BY <1>4, <1>7 DEF Good, Fits
<1>9. Orderly(n, t, c, x) /\ CleanIsNewest(n, t, c, x)
  BY <1>4, <1>6 DEF Good, Orderly, OnlyFailures, CleanIsNewest
<1>10. InOrder(t, c, r) /\ Told(n, t, c, r)
  BY <1>4, <1>5, <1>7 DEF Good, InOrder, Told
<1> QED
  BY <1>8, <1>9, <1>10 DEF Good

\* The queue without its first operation.
LEMMA TakenIs ==
  ASSUME NEW s \in NodeState, s.queue # <<>>
  PROVE  /\ Taken(s) \in NodeState
         /\ Taken(s).half = s.half /\ Taken(s).jobs = s.jobs /\ Taken(s).dirty = s.dirty
         /\ Taken(s).held = s.held /\ Taken(s).writing = s.writing /\ Taken(s).mail = s.mail
         /\ Len(s.queue) \in Nat \ {0} /\ Len(Taken(s).queue) = Len(s.queue) - 1
         /\ \A i \in 1..Len(s.queue) - 1 : Taken(s).queue[i] = s.queue[i + 1]
         /\ Taken(s).queue = <<>> <=> Len(s.queue) = 1
         /\ Head(s.queue) = s.queue[1] /\ s.queue[1] \in StateOp
<1>1. s.queue \in Seq(StateOp)
  BY Fields
<1>2. /\ Tail(s.queue) \in Seq(StateOp) /\ Len(Tail(s.queue)) = Len(s.queue) - 1
      /\ \A i \in 1..Len(s.queue) - 1 : Tail(s.queue)[i] = s.queue[i + 1]
      /\ Tail(s.queue) = <<>> <=> Len(s.queue) = 1
      /\ Head(s.queue) = s.queue[1] /\ s.queue[1] \in StateOp
      /\ Len(s.queue) \in Nat \ {0}
  BY <1>1, Tailed
<1>3. /\ Taken(s) \in NodeState
      /\ Taken(s).half = s.half /\ Taken(s).jobs = s.jobs /\ Taken(s).dirty = s.dirty
      /\ Taken(s).held = s.held /\ Taken(s).writing = s.writing /\ Taken(s).mail = s.mail
      /\ Taken(s).queue = Tail(s.queue)
  BY <1>2 DEF NodeState, Taken
<1> QED
  BY <1>2, <1>3

\* What is left of the queue of a host is in order, whatever was first in it.
LEMMA RestInOrder ==
  ASSUME NEW n, NEW s, NEW c \in Blob, NEW r, NEW x, Good(n, s, c, r, x), s.queue # <<>>
  PROVE  InOrder(Taken(s), c, r)
<1> DEFINE t == Taken(s)
<1>1. s \in NodeState
  BY DEF Good, Fits
<1>2. /\ t.half = s.half /\ t.jobs = s.jobs /\ t.held = s.held
      /\ Len(s.queue) \in Nat \ {0} /\ Len(t.queue) = Len(s.queue) - 1
      /\ \A i \in 1..Len(s.queue) - 1 : t.queue[i] = s.queue[i + 1]
  BY <1>1, TakenIs
<1> HIDE DEF t
<1>3. \A i \in 1..Len(t.queue) : i + 1 \in 1..Len(s.queue) /\ t.queue[i] = s.queue[i + 1]
  BY <1>2
<1>4. \A i, j \in 1..Len(t.queue) : i < j => i + 1 < j + 1
  BY <1>2
<1>5. InOrder(t, c, r)
  BY <1>2, <1>3, <1>4 DEF Good, InOrder
<1> QED
  BY <1>5 DEF t

\* t is s after a write that failed or not: a failure is mail.
Wrote(s, t, failed) ==
  /\ Fits(t) /\ t \in NodeState
  /\ t.half = s.half /\ t.jobs = s.jobs /\ t.dirty = s.dirty /\ t.queue = s.queue
  /\ t.held = s.held /\ t.writing = s.writing
  /\ OnlyFailures(s) => OnlyFailures(t)
  /\ t.mail = <<>> => ~failed /\ s.mail = <<>>
  /\ \A i \in 1..Len(t.mail) : t.mail[i].kind = "Loaded" => i \in 1..Len(s.mail) /\ t.mail[i] = s.mail[i]

\* The mail of a save that failed.
LEMMA Failing ==
  ASSUME NEW s, Fits(s), NEW failed \in BOOLEAN, NEW t,
         t = IF failed THEN Mailed(s, [kind |-> "SaveFailed"]) ELSE s
  PROVE  Wrote(s, t, failed)
<1> DEFINE m == [kind |-> "SaveFailed"]
<1>1. s \in NodeState /\ m \in Mail /\ m.kind = "SaveFailed"
  BY DEF Fits, Mail
<1> HIDE DEF m
<1>2. /\ Append(s.mail, m) \in Seq(Mail) /\ Len(Append(s.mail, m)) = Len(s.mail) + 1
      /\ Append(s.mail, m)[Len(s.mail) + 1] = m /\ Append(s.mail, m) # <<>>
      /\ \A i \in 1..Len(s.mail) : Append(s.mail, m)[i] = s.mail[i]
  BY <1>1, Fields, Appended
<1>3. CASE failed
  <2>1. /\ t \in NodeState /\ t.mail = Append(s.mail, m)
        /\ t.half = s.half /\ t.jobs = s.jobs /\ t.dirty = s.dirty /\ t.queue = s.queue
        /\ t.held = s.held /\ t.writing = s.writing
    BY <1>1, <1>2, <1>3 DEF NodeState, m, Mailed
  <2>5. Len(s.mail) \in Nat
    BY <1>1, Fields
  <2>6. /\ Len(t.mail) = Len(s.mail) + 1 /\ t.mail[Len(s.mail) + 1] = m
        /\ \A i \in 1..Len(s.mail) : t.mail[i] = s.mail[i]
    BY <1>2, <2>1
  <2>7. \A i \in 1..Len(t.mail) : i \in 1..Len(s.mail) \/ i = Len(s.mail) + 1
    BY <2>5, <2>6
  <2>2. OnlyFailures(s) => OnlyFailures(t)
    BY <1>1, <2>6, <2>7 DEF OnlyFailures
  <2>3. \A i \in 1..Len(t.mail) : t.mail[i].kind = "Loaded" => i \in 1..Len(s.mail) /\ t.mail[i] = s.mail[i]
    BY <1>1, <2>6, <2>7
  <2>4. t.mail # <<>> /\ Len(t.queue) <= STATE_Q
    BY <1>2, <2>1 DEF Fits
  <2> QED
    BY <1>3, <2>1, <2>2, <2>3, <2>4 DEF Fits, Wrote
<1>4. CASE ~failed
  BY <1>1, <1>4 DEF Wrote
<1> QED
  BY <1>3, <1>4

\* A host writes the first snapshot in its queue: all that follows has kept it.
LEMMA HostSaveGood ==
  ASSUME NEW n \in Host, NEW s, NEW c \in Blob, NEW r, NEW x, Good(n, s, c, r, x),
         s.queue # <<>>, Head(s.queue).kind = "Save", NEW failed \in BOOLEAN, NEW d,
         d = <<Head(s.queue).jobs>> \/ (failed /\ d = c),
         NEW t, Wrote(Taken(s), t, failed)
  PROVE  d \in Blob /\ Kept(Jobs(c), Jobs(d), r) /\ Good(n, t, d, r, x)
<1> DEFINE u == Taken(s)
<1>1. s \in NodeState /\ Len(s.queue) <= STATE_Q
  BY DEF Good, Fits
<1>2. /\ u \in NodeState
      /\ u.half = s.half /\ u.jobs = s.jobs /\ u.dirty = s.dirty
      /\ u.held = s.held /\ u.writing = s.writing /\ u.mail = s.mail
      /\ Len(s.queue) \in Nat \ {0} /\ Len(u.queue) = Len(s.queue) - 1
      /\ \A i \in 1..Len(s.queue) - 1 : u.queue[i] = s.queue[i + 1]
      /\ u.queue = <<>> <=> Len(s.queue) = 1
      /\ Head(s.queue) = s.queue[1] /\ s.queue[1] \in StateOp
  BY <1>1, TakenIs
<1>4. /\ Fits(t) /\ t \in NodeState
      /\ t.half = u.half /\ t.jobs = u.jobs /\ t.dirty = u.dirty /\ t.queue = u.queue
      /\ t.held = u.held /\ t.writing = u.writing
      /\ OnlyFailures(u) => OnlyFailures(t)
      /\ t.mail = <<>> => ~failed /\ u.mail = <<>>
  BY DEF Wrote
<1>5. InOrder(u, c, r)
  BY RestInOrder
<1> HIDE DEF u
<1>3. t.queue = u.queue /\ Len(t.queue) = Len(s.queue) - 1
  BY <1>2, <1>4
<1>12. \A i \in 1..Len(t.queue) : i + 1 \in 1..Len(s.queue) /\ t.queue[i] = s.queue[i + 1]
  BY <1>2, <1>3
<1>6. /\ s.queue[1].jobs \in StateSnapshot /\ s.queue[1].kind = "Save" /\ 1 \in 1..Len(s.queue)
      /\ Kept(Jobs(c), s.queue[1].jobs, r)
  BY <1>2, Ops DEF Good, InOrder
<1>7. Kept(Jobs(c), Jobs(c), r)
  BY DEF Kept
<1>8. d \in Blob /\ Kept(Jobs(c), Jobs(d), r)
  BY <1>2, <1>6, <1>7, Blobs
<1>9. s.held = Nothing /\ OnlyFailures(s) /\ ~s.writing
  BY DEF Good, Orderly
<1>10. OnlyFailures(t)
  BY <1>2, <1>4, <1>9 DEF OnlyFailures
<1>11. ASSUME t.half = "loading" PROVE Awaited(n, t, d, x)
  <2>1. Awaited(n, s, c, x)
    BY <1>2, <1>4, <1>11 DEF Good, Orderly
  <2>2. Len(s.queue) > 1
    BY <1>2, <1>6, <2>1 DEF Awaited
  <2>3. /\ t.queue # <<>> /\ Len(t.queue) \in 1..Len(t.queue)
        /\ t.queue[Len(t.queue)] = s.queue[Len(s.queue)]
    BY <1>2, <1>3, <1>12, <2>2
  <2>4. ASSUME NEW i \in 1..Len(t.queue), i # Len(t.queue) PROVE t.queue[i].kind # "Load"
    <3>1. i + 1 \in 1..Len(s.queue) /\ i + 1 # Len(s.queue) /\ t.queue[i] = s.queue[i + 1]
      BY <1>2, <1>3, <1>12, <2>4
    <3> QED
      BY <2>1, <3>1 DEF Awaited
  <2> QED
    BY <2>1, <2>3, <2>4 DEF Awaited
<1>13. Orderly(n, t, d, x)
  BY <1>2, <1>4, <1>9, <1>10, <1>11, <1>12 DEF Good, Orderly
<1>14. CleanIsNewest(n, t, d, x)
  <2> SUFFICES ASSUME n \notin x, t.half = "live", t.dirty = "clean", t.mail = <<>>
               PROVE  t.jobs = Newest(t, d)
    BY DEF CleanIsNewest
  <2>1. s.jobs = s.queue[Len(s.queue)].jobs /\ d = <<s.queue[1].jobs>>
    BY <1>2, <1>4 DEF Good, CleanIsNewest, Newest
  <2>2. CASE Len(s.queue) = 1
    BY <2>1, <2>2, <1>2, <1>4, <1>6, <1>9, Blobs DEF Newest
  <2>3. CASE Len(s.queue) # 1
    <3>1. t.queue[Len(t.queue)] = s.queue[Len(s.queue)]
      BY <2>3, <1>2, <1>4
    <3> QED
      BY <2>1, <2>3, <3>1, <1>2, <1>4 DEF Newest
  <2> QED
    BY <2>2, <2>3
<1>15. InOrder(t, d, r)
  <2>1. CASE d = c
    BY <2>1, <1>4, <1>5 DEF InOrder
  <2>2. CASE d = <<s.queue[1].jobs>>
    <3>1. Jobs(d) = s.queue[1].jobs
      BY <2>2, <1>6, Blobs
    <3>2. \A i \in 1..Len(t.queue) : t.queue[i].kind = "Save" => Kept(Jobs(d), t.queue[i].jobs, r)
      <4> SUFFICES ASSUME NEW i \in 1..Len(t.queue), t.queue[i].kind = "Save"
                   PROVE  Kept(s.queue[1].jobs, t.queue[i].jobs, r)
        BY <3>1
      <4>1. i + 1 \in 1..Len(s.queue) /\ t.queue[i] = s.queue[i + 1] /\ 1 < i + 1
        BY <1>2, <1>4, <1>12
      <4> QED
        BY <1>6, <4>1 DEF Good, InOrder
    <3>3. t.half = "live" => Kept(Jobs(d), t.jobs, r)
      BY <1>2, <1>4, <1>6, <3>1 DEF Good, InOrder
    <3> QED
      BY <1>2, <1>4, <1>5, <1>9, <3>2, <3>3 DEF InOrder
  <2> QED
    BY <1>2, <2>1, <2>2
<1>16. Told(n, t, d, r)
  BY DEF Told
<1> QED
  BY <1>4, <1>8, <1>13, <1>14, <1>15, <1>16 DEF Good

\* A host's load is the last in its queue, so what it finds is what is committed.
LEMMA HostLoadGood ==
  ASSUME NEW n \in Host, NEW s, NEW c \in Blob, NEW r, NEW x, Good(n, s, c, r, x),
         s.queue # <<>>, Head(s.queue).kind = "Load",
         NEW got \in Answer, got.ok => got.blob = c
  PROVE  Good(n, Opened(Taken(s), got), c, r, x)
<1>1. s \in NodeState /\ Len(s.queue) <= STATE_Q
  BY DEF Good, Fits
<1>2. /\ Taken(s) \in NodeState /\ Taken(s).held = s.held /\ Taken(s).writing = s.writing
      /\ Taken(s).mail = s.mail
      /\ Len(s.queue) \in Nat \ {0} /\ Len(Taken(s).queue) = Len(s.queue) - 1
      /\ Taken(s).queue = <<>> <=> Len(s.queue) = 1
      /\ Head(s.queue) = s.queue[1] /\ 1 \in 1..Len(s.queue)
  BY <1>1, TakenIs
<1>3. Awaited(n, s, c, x) /\ s.held = Nothing /\ OnlyFailures(s) /\ ~s.writing
  BY <1>2 DEF Good, Orderly
<1>4. Len(s.queue) = 1
  BY <1>2, <1>3 DEF Awaited
<1>5. Fits(Taken(s)) /\ OnlyFailures(Taken(s))
  BY <1>1, <1>2, <1>3, StateAssumption DEF Fits, OnlyFailures
<1> QED
  BY <1>2, <1>3, <1>4, <1>5, OpenedGood

\* A load that nobody waits for changes nothing.
LEMMA HostSkipGood ==
  ASSUME NEW n \in Host, NEW s, NEW c \in Blob, NEW r, NEW x, Good(n, s, c, r, x),
         s.queue # <<>>, Head(s.queue).kind = "Skip"
  PROVE  Good(n, Taken(s), c, r, x)
<1> DEFINE t == Taken(s)
<1>1. s \in NodeState /\ Len(s.queue) <= STATE_Q
  BY DEF Good, Fits
<1>2. /\ t \in NodeState
      /\ t.half = s.half /\ t.jobs = s.jobs /\ t.dirty = s.dirty
      /\ t.held = s.held /\ t.writing = s.writing /\ t.mail = s.mail
      /\ Len(s.queue) \in Nat \ {0} /\ Len(t.queue) = Len(s.queue) - 1
      /\ \A i \in 1..Len(s.queue) - 1 : t.queue[i] = s.queue[i + 1]
      /\ t.queue = <<>> <=> Len(s.queue) = 1
      /\ Head(s.queue) = s.queue[1] /\ 1 \in 1..Len(s.queue)
  BY <1>1, TakenIs
<1>3. InOrder(t, c, r)
  BY RestInOrder
<1> HIDE DEF t
<1>4. \A i \in 1..Len(t.queue) : i + 1 \in 1..Len(s.queue) /\ t.queue[i] = s.queue[i + 1]
  BY <1>2
<1>5. Fits(t)
  BY <1>1, <1>2, StateAssumption DEF Fits
<1>6. s.half # "live"
  BY <1>2 DEF Good, Orderly
<1>7. ASSUME s.half = "loading" PROVE Awaited(n, t, c, x)
  <2>1. Awaited(n, s, c, x)
    BY <1>7 DEF Good, Orderly
  <2>2. Len(s.queue) > 1
    BY <1>2, <2>1 DEF Awaited
  <2> QED
    BY SMTT(30), <1>2, <1>4, <2>1, <2>2 DEF Awaited
<1>8. Orderly(n, t, c, x) /\ CleanIsNewest(n, t, c, x) /\ Told(n, t, c, r)
  BY <1>2, <1>4, <1>6, <1>7 DEF Good, Orderly, OnlyFailures, CleanIsNewest, Told
<1> QED
  BY <1>3, <1>5, <1>8 DEF Good, t

\* HopOS keeps the newest of the snapshots: it has kept the one before it.
LEMMA CoalesceGood ==
  ASSUME NEW n, n \notin Host, NEW s, NEW c \in Blob, NEW r, NEW x, Good(n, s, c, r, x),
         s.queue # <<>>, Head(s.queue).kind = "Save", ~s.writing
  PROVE  Good(n, Drained([Taken(s) EXCEPT !.held = <<Head(s.queue).jobs>>]), c, r, x)
<1> DEFINE u == Taken(s)
           v == [u EXCEPT !.held = <<Head(s.queue).jobs>>]
           t == Drained(v)
<1>1. s \in NodeState /\ Len(s.queue) <= STATE_Q
  BY DEF Good, Fits
<1>2. /\ u \in NodeState
      /\ u.half = s.half /\ u.jobs = s.jobs /\ u.dirty = s.dirty
      /\ u.held = s.held /\ u.writing = s.writing /\ u.mail = s.mail
      /\ Len(s.queue) \in Nat \ {0} /\ Len(u.queue) = Len(s.queue) - 1
      /\ \A i \in 1..Len(s.queue) - 1 : u.queue[i] = s.queue[i + 1]
      /\ u.queue = <<>> <=> Len(s.queue) = 1
      /\ Head(s.queue) = s.queue[1] /\ s.queue[1] \in StateOp /\ 1 \in 1..Len(s.queue)
  BY <1>1, TakenIs
<1>3. InOrder(u, c, r)
  BY RestInOrder
<1>4. /\ s.queue[1].jobs \in StateSnapshot /\ s.queue[1].kind = "Save"
      /\ <<s.queue[1].jobs>> \in Blob /\ <<s.queue[1].jobs>> # Nothing
  BY <1>2, Ops, Blobs
<1> HIDE DEF u
<1>5. /\ v \in NodeState
      /\ v.half = u.half /\ v.jobs = u.jobs /\ v.dirty = u.dirty /\ v.queue = u.queue
      /\ v.held = <<s.queue[1].jobs>> /\ v.mail = u.mail
  BY <1>2, <1>4 DEF NodeState
<1> HIDE DEF v
<1>6. /\ t \in NodeState
      /\ t.half = v.half /\ t.jobs = v.jobs /\ t.dirty = v.dirty /\ t.queue = v.queue
      /\ t.held = v.held /\ t.mail = v.mail
  BY <1>5 DEF NodeState, Drained
<1> HIDE DEF t
<1>7. /\ t.half = s.half /\ t.jobs = s.jobs /\ t.dirty = s.dirty /\ t.mail = s.mail
      /\ t.queue = u.queue /\ Len(t.queue) = Len(s.queue) - 1
      /\ t.held # Nothing /\ t.held[1] = s.queue[1].jobs
  BY <1>2, <1>4, <1>5, <1>6
<1>8. \A i \in 1..Len(t.queue) : i + 1 \in 1..Len(s.queue) /\ t.queue[i] = s.queue[i + 1]
  BY <1>2, <1>7
<1>9. s.half # "loading" \/ n \in x
  BY <1>2, <1>4 DEF Good, Orderly, Awaited
<1>10. Fits(t)
  BY <1>1, <1>2, <1>6, <1>7, StateAssumption DEF Fits
<1>11. Orderly(n, t, c, x)
  BY <1>7, <1>8, <1>9 DEF Good, Orderly, Awaited, OnlyFailures
<1>12. CleanIsNewest(n, t, c, x)
  <2> SUFFICES ASSUME n \notin x, t.half = "live", t.dirty = "clean", t.mail = <<>>
               PROVE  t.jobs = Newest(t, c)
    BY DEF CleanIsNewest
  <2>1. s.jobs = s.queue[Len(s.queue)].jobs
    BY <1>7 DEF Good, CleanIsNewest, Newest
  <2>2. CASE Len(s.queue) = 1
    BY <2>1, <2>2, <1>2, <1>7 DEF Newest
  <2>3. CASE Len(s.queue) # 1
    <3>1. t.queue # <<>> /\ t.queue[Len(t.queue)] = s.queue[Len(s.queue)]
      BY <2>3, <1>2, <1>7, <1>8
    <3> QED
      BY <2>1, <3>1, <1>7 DEF Newest
  <2> QED
    BY <2>2, <2>3
<1>13. InOrder(t, c, r)
  <2>1. ASSUME NEW i \in 1..Len(t.queue), t.queue[i].kind = "Save"
        PROVE  Kept(t.held[1], t.queue[i].jobs, r)
    <3>1. i + 1 \in 1..Len(s.queue) /\ t.queue[i] = s.queue[i + 1] /\ 1 < i + 1
      BY <1>2, <1>7, <1>8
    <3> QED
      BY <1>2, <1>4, <1>7, <2>1, <3>1 DEF Good, InOrder
  <2>2. Kept(Jobs(c), t.held[1], r)
    BY <1>2, <1>4, <1>7 DEF Good, InOrder
  <2>3. t.half = "live" => Kept(t.held[1], t.jobs, r)
    BY <1>2, <1>4, <1>7 DEF Good, InOrder
  <2> QED
    BY <1>2, <1>3, <1>7, <2>1, <2>2, <2>3 DEF InOrder
<1>14. Told(n, t, c, r)
  BY <1>2, <1>4, <1>7, <1>8 DEF Good, Told
<1> QED
  BY <1>10, <1>11, <1>12, <1>13, <1>14 DEF Good, t, v, u

\* HopOS answers a load first; the owner that waits for it has nothing else
\* under way, so the answer stays true until it is handled, unless its term is
\* crossed.
LEMMA AnswerGood ==
  ASSUME NEW n, n \notin Host, NEW s, NEW c \in Blob, NEW r, NEW x, Good(n, s, c, r, x),
         s.queue # <<>>, Head(s.queue).kind = "Load", ~s.writing,
         NEW got \in Answer, got.ok => got.blob = c
  PROVE  Good(n, Drained(Mailed(Taken(s), [kind |-> "Loaded", got |-> got])), c, r, x)
<1> DEFINE u == Taken(s)
           m == [kind |-> "Loaded", got |-> got]
           v == Mailed(u, m)
           t == Drained(v)
<1>1. s \in NodeState /\ Len(s.queue) <= STATE_Q
  BY DEF Good, Fits
<1>2. /\ u \in NodeState
      /\ u.half = s.half /\ u.jobs = s.jobs /\ u.dirty = s.dirty
      /\ u.held = s.held /\ u.writing = s.writing /\ u.mail = s.mail
      /\ Len(s.queue) \in Nat \ {0} /\ Len(u.queue) = Len(s.queue) - 1
      /\ \A i \in 1..Len(s.queue) - 1 : u.queue[i] = s.queue[i + 1]
      /\ u.queue = <<>> <=> Len(s.queue) = 1
      /\ Head(s.queue) = s.queue[1] /\ s.queue[1] \in StateOp /\ 1 \in 1..Len(s.queue)
  BY <1>1, TakenIs
<1>3. InOrder(u, c, r)
  BY RestInOrder
<1>4. m \in Mail /\ m.kind = "Loaded" /\ m.got = got
  BY DEF Mail
<1> HIDE DEF u, m
<1>5. /\ v \in NodeState
      /\ v.half = u.half /\ v.jobs = u.jobs /\ v.dirty = u.dirty /\ v.queue = u.queue
      /\ v.held = u.held /\ v.mail = Append(u.mail, m)
  BY <1>2, <1>4, Fields, Appended DEF NodeState, Mailed
<1> HIDE DEF v
<1>6. /\ t \in NodeState
      /\ t.half = v.half /\ t.jobs = v.jobs /\ t.dirty = v.dirty /\ t.queue = v.queue
      /\ t.held = v.held /\ t.mail = v.mail /\ (t.writing => t.held # Nothing)
  BY <1>5 DEF NodeState, Drained
<1> HIDE DEF t
<1>7. /\ t.half = s.half /\ t.jobs = s.jobs /\ t.dirty = s.dirty
      /\ t.queue = u.queue /\ Len(t.queue) = Len(s.queue) - 1
      /\ t.held = s.held /\ t.mail = Append(s.mail, m)
  BY <1>2, <1>5, <1>6
<1>8. s.half # "live" \/ n \in x
  BY <1>2 DEF Good, Orderly
<1>9. Fits(t)
  BY <1>1, <1>2, <1>6, <1>7, StateAssumption DEF Fits
<1>10. ASSUME s.half = "loading" PROVE Awaited(n, t, c, x)
  <2> SUFFICES ASSUME n \notin x PROVE Awaited(n, t, c, x)
    BY DEF Awaited
  <2>1. s.held = Nothing /\ s.queue = <<[kind |-> "Load"]>> /\ s.mail = <<>>
    BY <1>10 DEF Good, Orderly, Awaited
  <2>2. t.queue = <<>>
    BY <1>2, <1>7, <2>1
  <2>3. Len(t.mail) = 1 /\ t.mail[1] = m
    BY <1>4, <1>7, <2>1
  <2> QED
    BY <1>4, <1>7, <2>1, <2>2, <2>3 DEF Awaited
<1>11. Orderly(n, t, c, x) /\ CleanIsNewest(n, t, c, x)
  BY <1>6, <1>7, <1>8, <1>10 DEF Orderly, CleanIsNewest
<1>12. InOrder(t, c, r)
  BY <1>2, <1>3, <1>7 DEF InOrder
<1>13. ASSUME s.half = "loading" PROVE Told(n, t, c, r)
  <2>1. Kept(Jobs(c), Jobs(c), r)
    BY DEF Kept
  <2>2. /\ Len(t.mail) = Len(s.mail) + 1 /\ t.mail[Len(s.mail) + 1] = m /\ Len(s.mail) \in Nat
        /\ \A i \in 1..Len(s.mail) : t.mail[i] = s.mail[i]
    BY <1>1, <1>4, <1>7, Fields, Appended
  <2>3. \A i \in 1..Len(t.mail) : t.mail[i].kind = "Loaded" /\ t.mail[i].got.ok
                                 => Kept(Jobs(c), Jobs(t.mail[i].got.blob), r)
    BY <1>4, <1>13, <2>1, <2>2 DEF Good, Told
  <2>4. \A i \in 1..Len(t.queue) : i + 1 \in 1..Len(s.queue) /\ t.queue[i] = s.queue[i + 1]
    BY <1>2, <1>7
  <2> QED
    BY <1>7, <1>13, <2>3, <2>4 DEF Good, Told
<1>14. Told(n, t, c, r)
  BY <1>7, <1>13 DEF Told
<1> QED
  BY <1>9, <1>11, <1>12, <1>14 DEF Good, t, v, u, m

\* HopOS writes the snapshot that it holds: all that is queued has kept it.
LEMMA EndWriteGood ==
  ASSUME NEW n, n \notin Host, NEW s, NEW c \in Blob, NEW r, NEW x, Good(n, s, c, r, x),
         s.writing, NEW failed \in BOOLEAN, NEW d,
         d = <<s.held[1]>> \/ (failed /\ d = c),
         NEW t, Wrote([s EXCEPT !.held = Nothing, !.writing = FALSE], t, failed)
  PROVE  d \in Blob /\ Kept(Jobs(c), Jobs(d), r) /\ Good(n, t, d, r, x)
<1> DEFINE u == [s EXCEPT !.held = Nothing, !.writing = FALSE]
<1>1. s \in NodeState /\ s.held \in Blob
  BY Fields DEF Good, Fits
<1>2. /\ u.half = s.half /\ u.jobs = s.jobs /\ u.dirty = s.dirty /\ u.queue = s.queue
      /\ u.held = Nothing /\ u.writing = FALSE /\ u.mail = s.mail
  BY <1>1 DEF NodeState
<1> HIDE DEF u
<1>3. Wrote(u, t, failed)
  BY DEF u
<1>4. /\ Fits(t) /\ t \in NodeState
      /\ t.half = s.half /\ t.jobs = s.jobs /\ t.dirty = s.dirty /\ t.queue = s.queue
      /\ t.held = Nothing /\ t.writing = FALSE
      /\ OnlyFailures(s) => OnlyFailures(t)
      /\ t.mail = <<>> => ~failed /\ s.mail = <<>>
  BY <1>2, <1>3 DEF Wrote, OnlyFailures
<1>5. s.held # Nothing /\ s.held[1] \in StateSnapshot
  BY <1>1, Blobs DEF Good, Orderly
<1>6. Kept(Jobs(c), Jobs(c), r)
  BY DEF Kept
<1>7. d \in Blob /\ Kept(Jobs(c), Jobs(d), r) /\ (d # c => Jobs(d) = s.held[1])
  BY <1>5, <1>6, Blobs DEF Good, InOrder
<1>8. Orderly(n, t, d, x)
  BY <1>4, <1>5 DEF Good, Orderly, Awaited
<1>9. CleanIsNewest(n, t, d, x)
  <2>1. t.mail = <<>> => Jobs(d) = s.held[1]
    BY <1>4, <1>5, <1>7, Blobs
  <2> QED
    BY <1>4, <1>5, <2>1 DEF Good, CleanIsNewest, Newest
<1>10. InOrder(t, d, r)
  BY <1>4, <1>5, <1>7 DEF Good, InOrder
<1>11. Told(n, t, d, r)
  <2> SUFFICES ASSUME t.half = "loading" PROVE Told(n, t, d, r)
    BY DEF Told
  <2>1. \A L : s.held[1] \subseteq r => Kept(s.held[1], L, r)
    BY DEF Kept
  <2>2. s.mail = u.mail /\ \A i \in 1..Len(t.mail) :
          t.mail[i].kind = "Loaded" => i \in 1..Len(s.mail) /\ t.mail[i] = s.mail[i]
    BY <1>2, <1>3 DEF Wrote
  <2> QED
    BY <1>4, <1>5, <1>7, <2>1, <2>2 DEF Good, Told
<1> QED
  BY <1>4, <1>7, <1>8, <1>9, <1>10, <1>11 DEF Good

-----------------------------------------------------------------------------
(* The steps of the specification *)

\* The answer that a load gives.
LEMMA GotIs ==
  ASSUME committed \in Blob, NEW failed \in BOOLEAN
  PROVE  Got(failed) \in Answer /\ (Got(failed).ok => Got(failed).blob = committed)
  BY Blobs DEF Got, Answer

\* All nodes start quiet.
LEMMA StateInitOK == StateInit => StateIInv
<1> SUFFICES ASSUME StateInit
             PROVE  StateIInv
  OBVIOUS
<1> DEFINE s == [half |-> "off", jobs |-> {}, dirty |-> "clean", queue |-> <<>>,
                 held |-> Nothing, writing |-> FALSE, mail |-> <<>>]
<1>1. s \in NodeState /\ Len(s.queue) = 0 /\ ~s.writing
  BY Blobs DEF NodeState, StateSnapshot
<1>2. s.half = "off" /\ s.held = Nothing /\ s.queue = <<>> /\ s.mail = <<>>
  OBVIOUS
<1>3. node = [n \in Node |-> s]
  BY DEF StateInit
<1> HIDE DEF s
<1>4. Fits(s) /\ Quiet(s)
  BY <1>1, <1>2, StateAssumption, QuietIs DEF Fits
<1>5. ASSUME NEW n \in Node PROVE NodeGood(n)
  BY <1>1, <1>3, <1>4, QuietGood DEF NodeGood
<1>6. /\ committed \in Blob /\ late \subseteq StateSnapshot /\ node \in [Node -> NodeState]
      /\ crossed \subseteq Node /\ unseen \in [Node -> SUBSET StateJob] /\ removed \subseteq StateJob
      /\ mutations \in 0..MaxMutations /\ faults \in 0..MaxFaults /\ terms \in 0..MaxTerms
  <2>1. committed \in Blob /\ late = {} /\ crossed = {} /\ unseen = [n \in Node |-> {}]
    BY DEF StateInit
  <2>2. removed = {} /\ mutations = 0 /\ faults = 0 /\ terms = 0
    BY DEF StateInit
  <2>3. node \in [Node -> NodeState]
    BY <1>1, <1>3
  <2> QED
    BY <2>1, <2>2, <2>3, StateAssumption
<1> QED
  BY <1>5, <1>6 DEF StateIInv

\* A step of one node that is not seen by the others.
LEMMA OneNode ==
  ASSUME StateIInv, NEW n \in Node, NEW t, node' = [node EXCEPT ![n] = t],
         UNCHANGED committed, late' \subseteq StateSnapshot,
         crossed' \subseteq Node, unseen' \in [Node -> SUBSET StateJob],
         \A m \in Node \ {n} : (m \in crossed' <=> m \in crossed) /\ unseen'[m] = unseen[m],
         removed \subseteq removed', removed' \subseteq StateJob,
         Good(n, t, committed, removed' \cup unseen'[n], crossed'),
         mutations' \in 0..MaxMutations, faults' \in 0..MaxFaults, terms' \in 0..MaxTerms
  PROVE  StateIInv'
<1>1. /\ node' \in [Node -> NodeState] /\ node'[n] = t
      /\ \A m \in Node \ {n} : node'[m] = node[m] /\ node[m] \in NodeState
  BY DEF StateIInv, Good, Fits
<1>2. ASSUME NEW m \in Node \ {n} PROVE NodeGood(m)'
  <2>1. Good(m, node[m], committed, removed \cup unseen[m], crossed)
    BY DEF StateIInv, NodeGood
  <2>2. Good(m, node[m], committed, removed' \cup unseen[m], crossed')
    BY <1>1, <2>1, Looser
  <2> QED
    BY <1>1, <2>2 DEF NodeGood
<1>3. NodeGood(n)'
  BY <1>1 DEF NodeGood
<1> QED
  BY <1>1, <1>2, <1>3 DEF StateIInv

\* A write that is applied crosses the terms of the others.
LEMMA Applied ==
  ASSUME StateIInv, NEW snapshot \in StateSnapshot, NEW others \in SUBSET Node,
         Apply(snapshot, others), late' \subseteq StateSnapshot, UNCHANGED removed,
         node' \in [Node -> NodeState],
         \A m \in others : node'[m] = node[m],
         \A m \in Node \ others :
           Good(m, node'[m], <<snapshot>>, removed \cup unseen[m], crossed),
         mutations' \in 0..MaxMutations, faults' \in 0..MaxFaults, terms' \in 0..MaxTerms
  PROVE  StateIInv'
<1>1. /\ committed' = <<snapshot>> /\ committed' \in Blob /\ Jobs(committed') = snapshot
      /\ crossed' = crossed \cup others /\ snapshot \subseteq StateJob
      /\ unseen' = [n \in Node |-> IF n \in others THEN unseen[n] \cup (snapshot \ Jobs(committed))
                                                   ELSE unseen[n]]
  BY Blobs DEF Apply, StateSnapshot
<1>2. crossed' \subseteq Node /\ unseen' \in [Node -> SUBSET StateJob] /\ removed' \subseteq StateJob
  BY <1>1 DEF StateIInv
<1>3. ASSUME NEW m \in others PROVE NodeGood(m)'
  <2>1. Good(m, node[m], committed, removed \cup unseen[m], crossed) /\ node[m] \in NodeState
    BY DEF StateIInv, NodeGood
  <2>2. unseen'[m] = unseen[m] \cup (snapshot \ Jobs(committed)) /\ m \in crossed'
    BY <1>1
  <2>3. Good(m, node[m], committed', removed \cup unseen'[m], crossed')
    BY <1>1, <2>1, <2>2, CrossedGood
  <2> QED
    BY <2>2, <2>3 DEF NodeGood
<1>4. ASSUME NEW m \in Node \ others PROVE NodeGood(m)'
  <2>1. unseen'[m] = unseen[m] /\ (m \in crossed => m \in crossed') /\ node'[m] \in NodeState
    BY <1>1
  <2> QED
    BY <1>1, <2>1, Looser DEF NodeGood
<1> QED
  BY <1>1, <1>2, <1>3, <1>4 DEF StateIInv

\* A step keeps the invariant, and no write of a node forgets what it could know.
LEMMA StateStep ==
  ASSUME StateIInv, [StateNext]_stateVars
  PROVE  /\ StateIInv'
         /\ \A n \in Node : node'[n] # node[n]
              => Kept(Jobs(committed), Jobs(committed'), removed \cup unseen[n])
<1>0. \A r : Kept(Jobs(committed), Jobs(committed), r)
  BY DEF Kept
<1>g. ASSUME NEW n \in Node
      PROVE  /\ Good(n, node[n], committed, removed \cup unseen[n], crossed)
             /\ node[n] \in NodeState
  BY DEF StateIInv, NodeGood
<1>t. /\ committed \in Blob /\ late \subseteq StateSnapshot /\ removed \subseteq StateJob
      /\ crossed \subseteq Node /\ unseen \in [Node -> SUBSET StateJob]
      /\ mutations \in 0..MaxMutations /\ faults \in 0..MaxFaults /\ terms \in 0..MaxTerms
  BY DEF StateIInv
<1>1. CASE LateWrite
  <2>1. PICK snapshot \in late : Apply(snapshot, Node) /\ late' = late \ {snapshot}
    BY <1>1 DEF LateWrite
  <2>2. UNCHANGED <<node, removed, mutations, faults, terms>>
    BY <1>1 DEF LateWrite
  <2>3. node' \in [Node -> NodeState]
    BY <2>2 DEF StateIInv
  <2>4. StateIInv'
    BY <1>t, <2>1, <2>2, <2>3, Applied
  <2> QED
    BY <2>2, <2>4
<1>2. ASSUME NEW n \in Node, Win(n) PROVE StateIInv' /\ UNCHANGED committed
  <2> DEFINE t == [Enqueue(node[n], [kind |-> "Load"]) EXCEPT !.half = "loading"]
  <2>1. /\ node' = [node EXCEPT ![n] = t] /\ node[n].half = "off" /\ Room(node[n])
        /\ terms' \in 0..MaxTerms /\ UNCHANGED <<committed, late, removed, mutations, faults>>
    BY <1>2, <1>t, StateAssumption DEF Win
  <2>2. node[n] \in NodeState /\ Outstanding(node[n]) \subseteq StateJob /\ Jobs(committed) \subseteq StateJob
    BY <1>g, <1>t, OutstandingIs, Blobs DEF StateSnapshot
  <2>3. /\ crossed' \subseteq Node /\ unseen' \in [Node -> SUBSET StateJob]
        /\ \A m \in Node \ {n} : (m \in crossed' <=> m \in crossed) /\ unseen'[m] = unseen[m]
    BY <1>2, <1>t, <2>2 DEF Win
  <2>4. Good(n, t, committed, removed \cup unseen'[n], crossed')
    <3>1. CASE Quiet(node[n])
      <4>1. Good(n, node[n], committed, removed \cup unseen'[n], crossed')
        BY <1>g, <3>1, QuietGood DEF Good, Orderly
      <4> QED
        BY <1>t, <2>1, <3>1, <4>1, WinGood
    <3>2. CASE ~Quiet(node[n]) /\ n \in Host
      <4>1. crossed' = crossed /\ unseen' = unseen
        BY <1>2, <3>2 DEF Win
      <4> QED
        BY <1>g, <1>t, <2>1, <3>2, <4>1, WinGood
    <3>3. CASE ~Quiet(node[n]) /\ n \notin Host
      <4>1. /\ n \in crossed'
            /\ unseen'[n] = unseen[n] \cup Jobs(committed) \cup Outstanding(node[n])
        BY <1>2, <1>t, <3>3 DEF Win
      <4>2. Good(n, node[n], committed, removed \cup unseen'[n], crossed')
        <5>1. removed \cup unseen[n] \subseteq removed \cup unseen'[n]
          BY <4>1
        <5>2. Good(n, node[n], committed, removed \cup unseen[n], crossed)
          BY <1>g
        <5> QED
          BY <2>2, <4>1, <5>1, <5>2, Looser
      <4>3. /\ Jobs(committed) \subseteq removed \cup unseen'[n]
            /\ Outstanding(node[n]) \subseteq removed \cup unseen'[n]
        BY <4>1
      <4> QED
        BY <1>t, <2>1, <4>1, <4>2, <4>3, WinGood
    <3> QED
      BY <3>1, <3>2, <3>3
  <2> HIDE DEF t
  <2>5. late' \subseteq StateSnapshot /\ removed \subseteq removed' /\ removed' \subseteq StateJob
        /\ Good(n, t, committed, removed' \cup unseen'[n], crossed')
        /\ mutations' \in 0..MaxMutations /\ faults' \in 0..MaxFaults
    BY <1>t, <2>1, <2>4
  <2> QED
    BY <2>1, <2>3, <2>5, OneNode
<1>3. ASSUME NEW n \in Node, NEW t, node' = [node EXCEPT ![n] = t],
             UNCHANGED <<committed, crossed, unseen, terms>>, late' \subseteq StateSnapshot,
             removed \subseteq removed', removed' \subseteq StateJob,
             Good(n, t, committed, removed' \cup unseen[n], crossed),
             mutations' \in 0..MaxMutations, faults' \in 0..MaxFaults
      PROVE  StateIInv'
  BY <1>3, <1>t, OneNode
<1>4. ASSUME NEW n \in Node, StepDown(n) PROVE StateIInv' /\ UNCHANGED committed
  <2>1. Good(n, Closed(node[n]), committed, removed \cup unseen[n], crossed)
    BY <1>4, <1>g, <1>t, ClosedGood DEF StepDown
  <2> QED
    BY <1>3, <1>4, <1>t, <2>1 DEF StepDown, Aside
<1>5. ASSUME NEW n \in Node, Crash(n) PROVE StateIInv' /\ UNCHANGED committed
  <2> DEFINE t == [Closed(node[n]) EXCEPT !.queue = <<>>, !.held = Nothing,
                                          !.writing = FALSE, !.mail = <<>>]
  <2>1. node' = [node EXCEPT ![n] = t]
    BY <1>5 DEF Crash
  <2>2. Good(n, t, committed, removed \cup unseen[n], crossed)
    BY <1>g, CrashGood
  <2> HIDE DEF t
  <2>3. /\ late' \subseteq StateSnapshot /\ faults' \in 0..MaxFaults
        /\ UNCHANGED <<committed, crossed, unseen, removed, mutations, terms>>
    BY <1>5, <1>t, StateAssumption DEF Crash
  <2> QED
    BY <1>3, <1>t, <2>1, <2>2, <2>3
<1>6. ASSUME NEW n \in Node, LoadTimesOut(n) PROVE StateIInv' /\ UNCHANGED committed
  <2> DEFINE t == WithoutLoad(Closed(node[n]))
  <2>1. node' = [node EXCEPT ![n] = t]
    BY <1>6 DEF LoadTimesOut
  <2>2. Good(n, t, committed, removed \cup unseen[n], crossed)
    BY <1>6, <1>g, <1>t, TimeoutGood DEF LoadTimesOut
  <2> HIDE DEF t
  <2>3. /\ faults' \in 0..MaxFaults
        /\ UNCHANGED <<committed, late, crossed, unseen, removed, mutations, terms>>
    BY <1>6, <1>t, StateAssumption DEF LoadTimesOut, Aside
  <2> QED
    BY <1>3, <1>t, <2>1, <2>2, <2>3
<1>7. ASSUME NEW n \in Node, NEW j \in StateJob, Mutate(n, j)
      PROVE  StateIInv' /\ UNCHANGED committed
  <2>1. node[n].half = "live" /\ node[n].jobs \in StateSnapshot
    BY <1>7, <1>g, Fields DEF Mutate
  <2>2. mutations' \in 0..MaxMutations
    BY <1>7, <1>t, StateAssumption DEF Mutate
  <2>3. PICK J : /\ node' = [node EXCEPT ![n] = MakeDirty(WithJobs(node[n], J))]
                 /\ \/ J = node[n].jobs \cup {j} /\ removed' = removed
                    \/ J = node[n].jobs \ {j} /\ removed' = removed \cup {j}
    BY <1>7 DEF Mutate
  <2>4. /\ J \in StateSnapshot /\ Kept(node[n].jobs, J, removed' \cup unseen[n])
        /\ removed \subseteq removed' /\ removed' \subseteq StateJob
        /\ removed \cup unseen[n] \subseteq removed' \cup unseen[n]
    BY <1>t, <2>1, <2>3 DEF StateSnapshot, Kept
  <2>5. Good(n, MakeDirty(WithJobs(node[n], J)), committed, removed' \cup unseen[n], crossed)
    BY <1>g, <1>t, <2>1, <2>4, MutateGood
  <2>6. UNCHANGED <<committed, late, crossed, unseen, faults, terms>>
    BY <1>7 DEF Mutate, Aside
  <2> QED
    BY <1>3, <1>t, <2>2, <2>3, <2>4, <2>5, <2>6
<1>8. ASSUME NEW n \in Node, Poll(n) PROVE StateIInv' /\ UNCHANGED committed
  <2>1. Good(n, Polled(node[n]), committed, removed \cup unseen[n], crossed)
    BY <1>8, <1>g, <1>t, PollGood DEF Poll
  <2> QED
    BY <1>3, <1>8, <1>t, <2>1 DEF Poll, Aside
<1>9. ASSUME NEW n \in Node, OnMail(n) PROVE StateIInv' /\ UNCHANGED committed
  <2>1. Good(n, Handled(node[n]), committed, removed \cup unseen[n], crossed)
    BY <1>9, <1>g, <1>t, MailGood DEF OnMail
  <2> QED
    BY <1>3, <1>9, <1>t, <2>1 DEF OnMail, Aside
<1>10. ASSUME NEW failed \in BOOLEAN, Fails(failed) PROVE faults' \in 0..MaxFaults
  BY <1>10, <1>t, StateAssumption DEF Fails
\* A write of one node, applied or not.
<1>18. ASSUME NEW n \in Node, NEW failed \in BOOLEAN, NEW snapshot \in StateSnapshot, NEW s,
              Fits(s), Write(n, snapshot, s, failed),
              ASSUME NEW d, NEW t, d = <<snapshot>> \/ (failed /\ d = committed),
                     Wrote(s, t, failed)
              PROVE  /\ d \in Blob /\ Kept(Jobs(committed), Jobs(d), removed \cup unseen[n])
                     /\ Good(n, t, d, removed \cup unseen[n], crossed)
       PROVE  /\ StateIInv'
              /\ \A m \in Node : node'[m] # node[m]
                   => Kept(Jobs(committed), Jobs(committed'), removed \cup unseen[m])
  <2> DEFINE t == IF failed THEN Mailed(s, [kind |-> "SaveFailed"]) ELSE s
  <2>1. Wrote(s, t, failed)
    BY <1>18, Failing
  <2>2. node' = [node EXCEPT ![n] = t] /\ faults' \in 0..MaxFaults
        /\ UNCHANGED <<removed, mutations, terms>>
    BY <1>18, <1>10 DEF Write
  <2> HIDE DEF t
  <2>3. \A m \in Node \ {n} : node'[m] = node[m]
    BY <2>2 DEF StateIInv
  <2>4. CASE Apply(snapshot, Node \ {n}) /\ UNCHANGED late
    <3>1. committed' = <<snapshot>>
      BY <2>4 DEF Apply
    <3>2. /\ Kept(Jobs(committed), Jobs(committed'), removed \cup unseen[n])
          /\ Good(n, t, <<snapshot>>, removed \cup unseen[n], crossed)
      BY <1>18, <2>1, <3>1
    <3>3. node' \in [Node -> NodeState] /\ node'[n] = t
      BY <2>2, <3>2 DEF StateIInv, Good, Fits
    <3>4. \A m \in Node \ (Node \ {n}) :
            Good(m, node'[m], <<snapshot>>, removed \cup unseen[m], crossed)
      BY <3>2, <3>3
    <3>5. StateIInv'
      BY <1>18, <1>t, <2>2, <2>3, <2>4, <3>3, <3>4, Applied
    <3> QED
      BY <2>3, <3>2, <3>5
  <2>5. CASE /\ failed /\ late' \in {late, late \cup {snapshot}}
             /\ UNCHANGED <<committed, crossed, unseen>>
    <3>1. Good(n, t, committed, removed \cup unseen[n], crossed)
      BY <1>18, <2>1, <2>5
    <3>2. late' \subseteq StateSnapshot
      BY <1>18, <1>t, <2>5
    <3>3. StateIInv'
      BY <1>3, <1>t, <2>2, <2>5, <3>1, <3>2
    <3> QED
      BY <1>0, <2>5, <3>3
  <2> QED
    BY <1>18, <2>4, <2>5 DEF Write
<1>11. ASSUME NEW n \in Node, NEW failed \in BOOLEAN, HostSave(n, failed)
       PROVE  /\ StateIInv'
              /\ \A m \in Node : node'[m] # node[m]
                   => Kept(Jobs(committed), Jobs(committed'), removed \cup unseen[m])
  <2> DEFINE s == Taken(node[n])
  <2>1. /\ n \in Host /\ node[n].queue # <<>> /\ Head(node[n].queue).kind = "Save"
        /\ Write(n, Head(node[n].queue).jobs, s, failed)
    BY <1>11 DEF HostSave, Next1
  <2>2. Fits(s) /\ Head(node[n].queue).jobs \in StateSnapshot
    <3>1. node[n] \in NodeState /\ Len(node[n].queue) <= STATE_Q
      BY <1>g DEF Good, Fits
    <3>2. /\ s \in NodeState /\ Len(node[n].queue) \in Nat /\ Len(s.queue) = Len(node[n].queue) - 1
          /\ Head(node[n].queue) \in StateOp
      BY <2>1, <3>1, TakenIs
    <3> HIDE DEF s
    <3> QED
      BY <2>1, <3>1, <3>2, Ops, StateAssumption DEF Fits
  <2>3. ASSUME NEW d, NEW t, d = <<Head(node[n].queue).jobs>> \/ (failed /\ d = committed),
               Wrote(s, t, failed)
        PROVE  /\ d \in Blob /\ Kept(Jobs(committed), Jobs(d), removed \cup unseen[n])
               /\ Good(n, t, d, removed \cup unseen[n], crossed)
    BY <1>g, <1>t, <2>1, <2>3, HostSaveGood
  <2> HIDE DEF s
  <2> QED
    BY <1>18, <2>1, <2>2, <2>3
<1>12. ASSUME NEW n \in Node, NEW failed \in BOOLEAN, HostLoad(n, failed)
       PROVE  StateIInv' /\ UNCHANGED committed
  <2>1. /\ n \in Host /\ node[n].queue # <<>> /\ Head(node[n].queue).kind = "Load"
        /\ Fails(failed) /\ UNCHANGED <<committed, late, crossed, unseen, removed, mutations, terms>>
        /\ node' = [node EXCEPT ![n] = Opened(Taken(node[n]), Got(failed))]
    BY <1>12 DEF HostLoad, Next1, Aside
  <2>2. Good(n, Opened(Taken(node[n]), Got(failed)), committed, removed \cup unseen[n], crossed)
    BY <1>g, <1>t, <2>1, GotIs, HostLoadGood
  <2> QED
    BY <1>3, <1>10, <1>t, <2>1, <2>2
<1>13. ASSUME NEW n \in Node, HostSkip(n) PROVE StateIInv' /\ UNCHANGED committed
  <2>1. /\ n \in Host /\ node[n].queue # <<>> /\ Head(node[n].queue).kind = "Skip"
        /\ UNCHANGED <<committed, late, crossed, unseen, removed, mutations, faults, terms>>
        /\ node' = [node EXCEPT ![n] = Taken(node[n])]
    BY <1>13 DEF HostSkip, Next1, Aside
  <2>2. Good(n, Taken(node[n]), committed, removed \cup unseen[n], crossed)
    BY <1>g, <1>t, <2>1, HostSkipGood
  <2> QED
    BY <1>3, <1>t, <2>1, <2>2
<1>14. ASSUME NEW n \in Node, Coalesce(n) PROVE StateIInv' /\ UNCHANGED committed
  <2> DEFINE t == Drained([Taken(node[n]) EXCEPT !.held = <<Head(node[n].queue).jobs>>])
  <2>1. /\ n \notin Host /\ node[n].queue # <<>> /\ Head(node[n].queue).kind = "Save"
        /\ ~node[n].writing
        /\ UNCHANGED <<committed, late, crossed, unseen, removed, mutations, faults, terms>>
        /\ node' = [node EXCEPT ![n] = t]
    BY <1>14 DEF Coalesce, Next1, Aside
  <2>2. Good(n, t, committed, removed \cup unseen[n], crossed)
    BY <1>g, <1>t, <2>1, CoalesceGood
  <2> HIDE DEF t
  <2> QED
    BY <1>3, <1>t, <2>1, <2>2
<1>15. ASSUME NEW n \in Node, NEW failed \in BOOLEAN, AnswerLoad(n, failed)
       PROVE  StateIInv' /\ UNCHANGED committed
  <2> DEFINE t == Drained(Mailed(Taken(node[n]), [kind |-> "Loaded", got |-> Got(failed)]))
  <2>1. /\ n \notin Host /\ node[n].queue # <<>> /\ Head(node[n].queue).kind = "Load"
        /\ ~node[n].writing /\ Fails(failed)
        /\ UNCHANGED <<committed, late, crossed, unseen, removed, mutations, terms>>
        /\ node' = [node EXCEPT ![n] = t]
    BY <1>15 DEF AnswerLoad, Next1, Aside
  <2>2. Good(n, t, committed, removed \cup unseen[n], crossed)
    BY <1>g, <1>t, <2>1, GotIs, AnswerGood
  <2> HIDE DEF t
  <2> QED
    BY <1>3, <1>10, <1>t, <2>1, <2>2
<1>16. ASSUME NEW n \in Node, NEW failed \in BOOLEAN, EndWrite(n, failed)
       PROVE  /\ StateIInv'
              /\ \A m \in Node : node'[m] # node[m]
                   => Kept(Jobs(committed), Jobs(committed'), removed \cup unseen[m])
  <2> DEFINE u == [node[n] EXCEPT !.held = Nothing, !.writing = FALSE]
  <2>1. n \notin Host /\ node[n].writing /\ Write(n, node[n].held[1], u, failed)
    BY <1>16 DEF EndWrite
  <2>2. Fits(u) /\ node[n].held[1] \in StateSnapshot
    <3>1. /\ node[n] \in NodeState /\ Len(node[n].queue) <= STATE_Q /\ Nothing \in Blob
          /\ node[n].held \in Blob /\ node[n].held # Nothing
      BY <1>g, <2>1, Blobs, Fields DEF Good, Fits, Orderly
    <3>2. u \in NodeState /\ u.queue = node[n].queue
      BY <3>1 DEF NodeState
    <3> QED
      BY <3>1, <3>2, Blobs DEF Fits
  <2>3. ASSUME NEW d, NEW t, d = <<node[n].held[1]>> \/ (failed /\ d = committed),
               Wrote(u, t, failed)
        PROVE  /\ d \in Blob /\ Kept(Jobs(committed), Jobs(d), removed \cup unseen[n])
               /\ Good(n, t, d, removed \cup unseen[n], crossed)
    BY <1>g, <1>t, <2>1, <2>3, EndWriteGood
  <2> HIDE DEF u
  <2> QED
    BY <1>18, <2>1, <2>2, <2>3
<1>17. CASE UNCHANGED stateVars
  <2>1. UNCHANGED <<committed, late, node, crossed, unseen, removed, mutations, faults, terms>>
    BY <1>17 DEF stateVars
  <2>2. \A n \in Node : NodeGood(n)'
    BY <2>1 DEF StateIInv, NodeGood
  <2> QED
    BY <1>0, <2>1, <2>2 DEF StateIInv
<1> QED
  BY <1>0, <1>1, <1>2, <1>4, <1>5, <1>6, <1>7, <1>8, <1>9, <1>11, <1>12, <1>13, <1>14, <1>15,
     <1>16, <1>17 DEF StateNext, OwnerStep, StateThread

\* In a state that is in order, a leader that is clean has committed its jobs,
\* unless its term was crossed.
LEMMA StateImplies == StateIInv => StateInv
<1> SUFFICES ASSUME StateIInv
             PROVE  StateInv
  OBVIOUS
<1>1. StateTypeOK
  BY DEF StateIInv, StateTypeOK, NodeGood, Good, Fits
<1>2. ASSUME NEW n \in Node \ crossed,
             node[n].half = "live" /\ node[n].dirty = "clean" /\ ~Saving(node[n]),
             \A i \in DOMAIN node[n].mail : node[n].mail[i].kind # "SaveFailed"
      PROVE  Jobs(committed) = node[n].jobs
  <2> DEFINE s == node[n]
  <2>1. s \in NodeState /\ Good(n, s, committed, removed \cup unseen[n], crossed)
    BY DEF StateIInv, NodeGood
  <2> HIDE DEF s
  <2>2. /\ s.half = "live" /\ s.dirty = "clean" /\ ~Saving(s)
        /\ \A i \in DOMAIN s.mail : s.mail[i].kind # "SaveFailed"
    BY <1>2 DEF s
  <2>3. s.mail = <<>>
    BY <2>1, <2>2, Fields DEF Good, Orderly, OnlyFailures
  <2>4. s.held = Nothing /\ s.queue = <<>>
    BY <2>1, <2>2, Fields DEF Good, Orderly, Saving
  <2> QED
    BY <2>1, <2>2, <2>3, <2>4 DEF Good, CleanIsNewest, Newest, s
<1> QED
  BY <1>1, <1>2 DEF StateInv, CleanMeansCommitted

\* What a clean leader has in memory is committed, with failed, repeated and
\* coalesced saves and with the earlier calls of a host still in its queue, as
\* long as no write of another node, no late write and (on HopOS) no unfinished
\* call of its own earlier term crosses its term.
THEOREM StateSafe == StateSpec => []StateInv
<1>1. StateIInv /\ [StateNext]_stateVars => StateIInv'
  BY StateStep
<1> QED
  BY <1>1, StateInitOK, StateImplies, PTL DEF StateSpec

\* No write of a node makes the store forget a job that no operator removed and
\* that the node could know of, whatever calls of other terms are under way.
THEOREM NothingIsForgotten == StateSpec => NothingForgotten
<1>1. StateIInv /\ [StateNext]_stateVars
        => /\ StateIInv'
           /\ [\A n \in Node : node'[n] # node[n]
                 => Jobs(committed) \ Jobs(committed') \subseteq removed \cup unseen[n]]_stateVars
  BY StateStep DEF Kept
<1> QED
  BY <1>1, StateInitOK, PTL DEF StateSpec, NothingForgotten
=============================================================================
