----------------------------- MODULE AgentProofs -----------------------------
(***************************************************************************)
(* Proofs about the agent of a host (module Agent): what it keeps at any   *)
(* time, and that a job gets more records only by a run of the leader.     *)
(***************************************************************************)
EXTENDS Agent, QueueLemmas

-----------------------------------------------------------------------------
(* The inductive invariant, in parts, of a state of the owner *)

AllDefs == UNION {Defs[j] : j \in Job}

\* A job is sent with one reservation, one pool and one budget, and with or
\* without an artifact for this node unless it is never restarted; the members
\* of a pool reserve the same.  AgentSafe and AgentGrows do not need it: it is
\* the premise of SteadyLimits alone.
Steady ==
  /\ \A j \in Job : \A c, d \in Defs[j] :
       c.cpu = d.cpu /\ c.group = d.group /\ c.max = d.max /\ ((c.fits <=> d.fits) \/ c.max = 0)
  /\ \A j, k \in Job : \A c \in Defs[j], d \in Defs[k] :
       c.group = d.group /\ c.group # NoGroup => c.cpu = d.cpu

N(j, t, n, q, b, r, o) ==
  [jobs |-> j, tasks |-> t, next |-> n, queue |-> q, busy |-> b, runner |-> r, open |-> o]

IsNode(s) == s = N(s.jobs, s.tasks, s.next, s.queue, s.busy, s.runner, s.open)

Typed(s) ==
  /\ IsNode(s)
  /\ s.jobs \in [DOMAIN s.jobs -> AllDefs] /\ DOMAIN s.jobs \subseteq Job
  /\ IsFiniteSet(DOMAIN s.jobs) /\ Cardinality(DOMAIN s.jobs) <= MAX_JOBS
  /\ \A j \in DOMAIN s.jobs : s.jobs[j] \in Defs[j]
  /\ s.next \in 1..(MaxId + 1)
  /\ s.tasks \in [DOMAIN s.tasks -> Entry] /\ DOMAIN s.tasks \subseteq 1..(s.next - 1)
  /\ Cardinality(DOMAIN s.tasks) <= MAX_TASKS
  /\ s.runner \in [DOMAIN s.runner -> {"up", "exited", "stopping"}]
  /\ DOMAIN s.runner \subseteq 1..(s.next - 1)
  /\ s.open \in BOOLEAN

\* An order is with one worker or waits, and none waits while a worker is free.
Pool(s) ==
  /\ s.queue \subseteq 1..(s.next - 1) /\ s.busy \subseteq 1..(s.next - 1)
  /\ s.queue \cap s.busy = {}
  /\ Cardinality(s.busy) <= WORKERS
  /\ s.queue # {} => Cardinality(s.busy) = WORKERS

Owned(s) ==
  \A id \in DOMAIN s.runner :
    s.runner[id] # "stopping" => id \in DOMAIN s.tasks /\ s.tasks[id].state = "Running"

\* The budget of a record of a job with definition d.
Over(d, e) == e.state = "Failed" /\ (~d.fits \/ (d.max >= 0 /\ e.count >= d.max))

Budget(d, e) ==
  /\ e.cpu = d.cpu
  /\ d.max >= 0 => e.count <= d.max
  /\ e.waits => (d.max >= 0 => e.count < d.max)
  /\ e.state \in {"Stopping", "Failed"} => e.waits \/ Over(d, e)

RecOK(s, id) ==
  LET e == s.tasks[id] IN
  /\ e.job \in DOMAIN s.jobs
  /\ e.state = "Running"
       => id \in DOMAIN s.runner /\ s.runner[id] # "stopping" /\ ~e.starting /\ ~e.waits
  /\ e.state \in {"Queued", "Downloading"} => e.starting /\ ~e.waits /\ id \in s.busy \cup s.queue
  /\ e.state \in {"Stopping", "Failed"} => ~e.starting
  /\ e.state = "Stopping" => e.waits
  /\ Steady => Budget(s.jobs[e.job], e)

OKBut(s, X) == \A id \in DOMAIN s.tasks \ X : RecOK(s, id)

Room(s) == Steady => Usage(s, DOMAIN s.tasks) <= Capacity

Good(s) == Typed(s) /\ Pool(s) /\ Owned(s) /\ OKBut(s, {}) /\ Room(s)

IInv == Good(node) /\ probes \in Seq(Id)

-----------------------------------------------------------------------------
(* What the operators of the module make of a state *)

\* The processes of a set of tasks are told to stop.
Halt(r, ids) == [x \in DOMAIN r |-> IF x \in ids THEN "stopping" ELSE r[x]]

Taken(q, b) == {id \in q : Cardinality({m \in q : m < id}) < WORKERS - Cardinality(b)}

\* A record with one field changed.
Marked(e, b) == [e EXCEPT !.starting = b]
Given(e) == [[e EXCEPT !.state = "Failed"] EXCEPT !.waits = FALSE]

Put(f, x, y) == [f EXCEPT ![x] = y]

Fresh(j, c, count, first) ==
  [job |-> j, state |-> "Queued", cpu |-> c, count |-> count,
   waits |-> FALSE, first |-> first, starting |-> FALSE, fails |-> 0]

With(f, x, y) == [i \in DOMAIN f \cup {x} |-> IF i = x THEN y ELSE f[i]]

\* The fields of an assembled state.
LEMMA FieldsOf ==
  ASSUME NEW j, NEW t, NEW n, NEW q, NEW b, NEW r, NEW o
  PROVE  LET s == N(j, t, n, q, b, r, o) IN
         /\ IsNode(s) /\ s.jobs = j /\ s.tasks = t /\ s.next = n /\ s.queue = q
         /\ s.busy = b /\ s.runner = r /\ s.open = o
  BY DEF N, IsNode

\* dispatch: the free workers take the oldest orders.
LEMMA DispatchIs ==
  ASSUME NEW s, IsNode(s)
  PROVE  Dispatch(s) = N(s.jobs, s.tasks, s.next, s.queue \ Taken(s.queue, s.busy),
                         s.busy \cup Taken(s.queue, s.busy), s.runner, s.open)
<1> DEFINE x == s.busy \cup Taken(s.queue, s.busy)
           y == s.queue \ Taken(s.queue, s.busy)
           u == [s EXCEPT !.busy = x]
<1>1. u = N(s.jobs, s.tasks, s.next, s.queue, x, s.runner, s.open)
  BY DEF IsNode, N
<1>2. Dispatch(s) = [u EXCEPT !.queue = y]
  BY DEF Dispatch, Taken
<1> HIDE DEF u, x, y
<1>3. [u EXCEPT !.queue = y] = N(s.jobs, s.tasks, s.next, y, x, s.runner, s.open)
  BY <1>1 DEF N
<1> QED
  BY <1>2, <1>3 DEF x, y

LEMMA StartIs ==
  ASSUME NEW s, IsNode(s), NEW id \in DOMAIN s.tasks
  PROVE  Start(s, id) = Dispatch(N(s.jobs, Put(s.tasks, id, Marked(s.tasks[id], TRUE)),
                                   s.next, s.queue \cup {id}, s.busy, s.runner, s.open))
<1> DEFINE x == Put(s.tasks, id, Marked(s.tasks[id], TRUE))
           y == s.queue \cup {id}
           u == [s EXCEPT !.tasks[id].starting = TRUE]
<1>0. u = [s EXCEPT !.tasks = x]
  BY DEF Marked, Put
<1>2. Start(s, id) = Dispatch([u EXCEPT !.queue = y])
  BY DEF Start
<1> HIDE DEF u
<1>1. u = N(s.jobs, x, s.next, s.queue, s.busy, s.runner, s.open)
  BY <1>0 DEF IsNode, N
<1> HIDE DEF u, x, y
<1>3. [u EXCEPT !.queue = y] = N(s.jobs, x, s.next, y, s.busy, s.runner, s.open)
  BY <1>1 DEF N
<1> QED
  BY <1>2, <1>3 DEF x, y

LEMMA StopIs ==
  ASSUME NEW s, IsNode(s), NEW id, s.runner = [x \in DOMAIN s.runner |-> s.runner[x]]
  PROVE  Stop(s, id) = N(s.jobs, s.tasks, s.next, s.queue \ {id}, s.busy, Halt(s.runner, {id}), s.open)
<1> DEFINE r == IF id \in DOMAIN s.runner THEN [s.runner EXCEPT ![id] = "stopping"] ELSE s.runner
<1>1. Stop(s, id) = N(s.jobs, s.tasks, s.next, s.queue \ {id}, s.busy, r, s.open)
  <2> DEFINE y == s.queue \ {id}
             u == [s EXCEPT !.queue = y]
  <2>1. u = N(s.jobs, s.tasks, s.next, y, s.busy, s.runner, s.open)
    BY DEF IsNode, N
  <2>2. Stop(s, id) = [u EXCEPT !.runner = r]
    BY DEF Stop
  <2> HIDE DEF u, y, r
  <2>3. [u EXCEPT !.runner = r] = N(s.jobs, s.tasks, s.next, y, s.busy, r, s.open)
    BY <2>1 DEF N
  <2> QED
    BY <2>2, <2>3 DEF y
<1>2. r = Halt(s.runner, {id})
  BY DEF Halt
<1> QED
  BY <1>1, <1>2

LEMMA DoneIs ==
  ASSUME NEW s, IsNode(s), NEW id
  PROVE  Done(s, id) = Dispatch(N(s.jobs, s.tasks, s.next, s.queue, s.busy \ {id}, s.runner, s.open))
  BY DEF Done, IsNode, N

LEMMA ForgetIs ==
  ASSUME NEW s, IsNode(s), NEW id
  PROVE  Forget(s, id) = N(s.jobs, Restrict(s.tasks, DOMAIN s.tasks \ {id}), s.next, s.queue,
                           s.busy, s.runner, s.open)
  BY DEF Forget, IsNode, N

LEMMA NewTaskIs ==
  ASSUME NEW s, IsNode(s), NEW j, NEW count, NEW first
  PROVE  NewTask(s, j, count, first) =
           N(s.jobs, With(s.tasks, s.next, Fresh(j, s.jobs[j].cpu, count, first)), s.next + 1,
             s.queue, s.busy, s.runner, s.open)
<1> DEFINE x == With(s.tasks, s.next, Fresh(j, s.jobs[j].cpu, count, first))
           u == [s EXCEPT !.tasks = x]
<1>1. u = N(s.jobs, x, s.next, s.queue, s.busy, s.runner, s.open)
  BY DEF IsNode, N
<1>2. NewTask(s, j, count, first) = [u EXCEPT !.next = s.next + 1]
  BY DEF NewTask, With, Fresh
<1> HIDE DEF u, x
<1>3. [u EXCEPT !.next = s.next + 1] = N(s.jobs, x, s.next + 1, s.queue, s.busy, s.runner, s.open)
  BY <1>1 DEF N
<1> QED
  BY <1>2, <1>3 DEF x

LEMMA RemoveAllIs ==
  ASSUME NEW s, IsNode(s), NEW ids
  PROVE  RemoveAll(s, ids) = N(s.jobs, Restrict(s.tasks, DOMAIN s.tasks \ ids), s.next,
                               s.queue \ ids, s.busy, Halt(s.runner, ids), s.open)
<1> DEFINE x == Restrict(s.tasks, DOMAIN s.tasks \ ids)
           y == s.queue \ ids
           r == Halt(s.runner, ids)
           u == [s EXCEPT !.tasks = x]
           v == [u EXCEPT !.queue = y]
<1>1. u = N(s.jobs, x, s.next, s.queue, s.busy, s.runner, s.open)
  BY DEF IsNode, N
<1>2. RemoveAll(s, ids) = [v EXCEPT !.runner = r]
  BY DEF RemoveAll, Halt
<1> HIDE DEF u, x, y, r
<1>3. v = N(s.jobs, x, s.next, y, s.busy, s.runner, s.open)
  BY <1>1 DEF N
<1> HIDE DEF v
<1>4. [v EXCEPT !.runner = r] = N(s.jobs, x, s.next, y, s.busy, r, s.open)
  BY <1>3 DEF N
<1> QED
  BY <1>2, <1>4 DEF x, y, r

LEMMA FailIs ==
  ASSUME NEW s, IsNode(s), NEW id \in DOMAIN s.tasks
  PROVE  Fail(s, id) = N(s.jobs, Put(s.tasks, id, Given(s.tasks[id])), s.next, s.queue,
                         s.busy, s.runner, s.open)
<1> DEFINE x == [s.tasks EXCEPT ![id] = [s.tasks[id] EXCEPT !.state = "Failed"]]
           u == [s EXCEPT !.tasks = x]
           y == [x EXCEPT ![id] = [x[id] EXCEPT !.waits = FALSE]]
<1>1. u = N(s.jobs, x, s.next, s.queue, s.busy, s.runner, s.open)
  BY DEF IsNode, N
<1>2. u.tasks = x
  BY <1>1 DEF N
<1>3. Fail(s, id) = [u EXCEPT !.tasks[id].waits = FALSE]
  BY DEF Fail
<1>4. y = Put(s.tasks, id, Given(s.tasks[id]))
  BY DEF Given, Put
<1> HIDE DEF u, x, y
<1>5. [u EXCEPT !.tasks[id].waits = FALSE] = [u EXCEPT !.tasks = y]
  BY <1>2 DEF y
<1>6. [u EXCEPT !.tasks = y] = N(s.jobs, y, s.next, s.queue, s.busy, s.runner, s.open)
  BY <1>1 DEF N
<1> QED
  BY <1>3, <1>4, <1>5, <1>6

-----------------------------------------------------------------------------
(* The preparation pool *)

\* One free worker, or one order for the free workers, at a time: after the
\* dispatch no order waits while a worker is free.
LEMMA PoolDispatch ==
  ASSUME NEW n \in Nat, NEW q, NEW b, q \subseteq 1..n, b \subseteq 1..n, q \cap b = {},
         Cardinality(b) <= WORKERS,
         q = {} \/ Cardinality(b) >= WORKERS - 1 \/ \E x \in q : q = {x}
  PROVE  LET T == Taken(q, b) IN
         /\ T \subseteq q
         /\ Cardinality(b \cup T) <= WORKERS
         /\ q \ T # {} => Cardinality(b \cup T) = WORKERS
<1> DEFINE T == Taken(q, b)
           free == WORKERS - Cardinality(b)
           Before(id) == {m \in q : m < id}
<1>1. IsFiniteSet(q) /\ IsFiniteSet(b) /\ Cardinality(b) \in Nat /\ WORKERS \in Nat \ {0}
  <2>1. IsFiniteSet(1..n)
    BY FS_Interval
  <2> QED
    BY <2>1, FS_Subset, FS_CardinalityType, AgentAssumption
<1>2. \A id \in q : IsFiniteSet(Before(id)) /\ Cardinality(Before(id)) \in Nat
  <2>1. \A id \in q : Before(id) \subseteq q
    OBVIOUS
  <2> QED
    BY <2>1, <1>1, FS_Subset, FS_CardinalityType
<1>3. T \subseteq q /\ \A id \in q : id \in T <=> Cardinality(Before(id)) < free
  BY DEF Taken
<1>0. free \in Int /\ free >= 0 /\ q \subseteq Nat
  BY <1>1
<1>4. \A x \in q : Cardinality(b \cup {x}) = Cardinality(b) + 1
  BY <1>1, FS_AddElement
<1>5. \A id \in q : Cardinality(Before(id)) = 0 <=> Before(id) = {}
  BY <1>2, FS_EmptySet
<1>10. /\ \A x \in q : (\A y \in q : x <= y) => Before(x) = {}
       /\ \A x \in q : \A y \in q : x < y => Before(y) # {}
  <2>1. \A x \in q : \A y \in q : x < y => x \in Before(y)
    OBVIOUS
  <2>2. \A x, y \in q : x <= y => ~(y < x)
    BY <1>0
  <2> QED
    BY <2>1, <2>2
<1>11. SUFFICES /\ T \subseteq q
                /\ Cardinality(b \cup T) <= WORKERS
                /\ q \ T # {} => Cardinality(b \cup T) = WORKERS
  OBVIOUS
<1>12. Cardinality(b) = WORKERS - free
  BY <1>1
<1> HIDE DEF T, Before, free
<1>6. CASE q = {}
  <2>1. b \cup T = b
    BY <1>6, <1>3
  <2> QED
    BY <1>6, <1>3, <1>1, <2>1
<1>7. CASE q # {} /\ free = 0
  <2>0. \A id \in q : ~(Cardinality(Before(id)) < free)
    BY <1>2, <1>7
  <2>1. T = {} /\ b \cup T = b
    BY <1>3, <2>0
  <2> QED
    BY <2>1, <1>1, <1>7, <1>12
<1>8. CASE q # {} /\ free = 1
  <2>1. PICK x \in q : \A y \in q : x <= y
    BY <1>8, <1>0, LeastOf
  <2>2. Before(x) = {} /\ \A y \in q : y # x => Before(y) # {}
    <3>1. \A y \in q : y # x => x < y
      BY <2>1, <1>0
    <3> QED
      BY <2>1, <3>1, <1>10
  <2>3. Cardinality(Before(x)) = 0 /\ \A y \in q : y # x => Cardinality(Before(y)) >= 1
    BY <2>2, <1>2, <1>5
  <2>4. T = {x}
    <3>1. Cardinality(Before(x)) < free /\ \A y \in q : y # x => ~(Cardinality(Before(y)) < free)
      BY <2>3, <1>2, <1>8
    <3> QED
      BY <3>1, <1>3
  <2> QED
    BY <2>4, <1>4, <1>1, <1>8, <1>12
<1>9. CASE free > 1 /\ \E x \in q : q = {x}
  <2>1. PICK x \in q : q = {x}
    BY <1>9
  <2>2. Before(x) = {}
    BY <2>1, <1>10, <1>0
  <2>3. T = {x}
    <3>1. Cardinality(Before(x)) < free
      BY <2>2, <1>5, <1>9, <1>0
    <3> QED
      BY <3>1, <2>1, <1>3
  <2> QED
    BY <2>1, <2>3, <1>4, <1>1, <1>9, <1>12, <1>0
<1>13. q = {} \/ free = 0 \/ free = 1 \/ (free > 1 /\ \E x \in q : q = {x})
  BY <1>1, <1>0, <1>12
<1> QED
  BY <1>13, <1>6, <1>7, <1>8, <1>9

-----------------------------------------------------------------------------
(* Reservations: a pool pays once, so what the records reserve is the number *)
(* of shares with the payer's name on them                                   *)

Payer(g, a) == IF g[a] = NoGroup THEN <<"task", a>> ELSE <<"pool", g[a]>>

Paid(g, c, ids) == {p \in {Payer(g, a) : a \in ids} \X Nat : \E a \in ids : p[1] = Payer(g, a) /\ p[2] \in 1..c[a]}

First(g, ids) == {a \in ids : g[a] = NoGroup \/ \A m \in ids : g[m] = g[a] => a <= m}

Charged(g, c, ids) == UNION {{a} \X (1..c[a]) : a \in First(g, ids)}

\* The members of a pool have one price.
OnePrice(g, c, ids) == \A a, b \in ids : g[a] = g[b] /\ g[a] # NoGroup => c[a] = c[b]

LEMMA ChargedIsPaid ==
  ASSUME NEW ids, IsFiniteSet(ids), ids \subseteq Nat, NEW g, NEW c, \A a \in ids : c[a] \in Nat,
         OnePrice(g, c, ids)
  PROVE  /\ IsFiniteSet(Paid(g, c, ids))
         /\ Cardinality(Charged(g, c, ids)) = Cardinality(Paid(g, c, ids))
<1> DEFINE A == Charged(g, c, ids)
           B == Paid(g, c, ids)
           f == [p \in A |-> <<Payer(g, p[1]), p[2]>>]
<1>1. First(g, ids) \subseteq ids
  BY DEF First
<1>2. \A p : p \in A <=> \E a \in First(g, ids) : \E n \in 1..c[a] : p = <<a, n>>
  <2>1. \A p : p \in A <=> \E a \in First(g, ids) : p \in {a} \X (1..c[a])
    BY DEF Charged
  <2> QED
    BY <2>1
<1>3. \A p : p \in B <=> \E a \in ids : \E n \in 1..c[a] : p = <<Payer(g, a), n>>
  <2>1. \A a \in ids : 1..c[a] \subseteq Nat
    OBVIOUS
  <2> QED
    BY <2>1 DEF Paid
<1>4. IsFiniteSet(A)
  <2> DEFINE X == {{a} \X (1..c[a]) : a \in First(g, ids)}
             h == [a \in First(g, ids) |-> {a} \X (1..c[a])]
  <2>1. IsFiniteSet(First(g, ids))
    BY <1>1, FS_Subset
  <2>2. h \in Surjection(First(g, ids), X)
    BY DEF Surjection
  <2>3. IsFiniteSet(X)
    BY <2>1, <2>2, FS_Surjection
  <2>4. \A a \in First(g, ids) : IsFiniteSet({a} \X (1..c[a]))
    <3> SUFFICES ASSUME NEW a \in First(g, ids) PROVE IsFiniteSet({a} \X (1..c[a]))
      OBVIOUS
    <3>1. c[a] \in Nat
      BY <1>1
    <3>3. \A n \in Nat : IsFiniteSet(1..n)
      BY FS_Interval
    <3>2. IsFiniteSet({a}) /\ IsFiniteSet(1..c[a])
      BY <3>1, <3>3, FS_Singleton
    <3> QED
      BY <3>2, FS_Product
  <2>5. \A T \in X : IsFiniteSet(T)
    BY <2>4
  <2> QED
    BY <2>3, <2>5, FS_UNION DEF Charged
<1>5. \A x, y \in First(g, ids) : Payer(g, x) = Payer(g, y) => x = y
  <2> SUFFICES ASSUME NEW x \in First(g, ids), NEW y \in First(g, ids), Payer(g, x) = Payer(g, y)
               PROVE  x = y
    OBVIOUS
  <2>1. x \in ids /\ y \in ids /\ x \in Nat /\ y \in Nat
    BY <1>1
  <2>2. CASE g[x] = NoGroup
    BY <2>1, <2>2 DEF Payer
  <2>3. CASE g[x] # NoGroup
    <3>1. g[y] = g[x]
      BY <2>3 DEF Payer
    <3> QED
      BY <3>1, <2>1, <2>3 DEF First
  <2> QED
    BY <2>2, <2>3
<1>6. \A a \in ids : \E b \in First(g, ids) : Payer(g, b) = Payer(g, a) /\ c[b] = c[a]
  <2> SUFFICES ASSUME NEW a \in ids
               PROVE  \E b \in First(g, ids) : Payer(g, b) = Payer(g, a) /\ c[b] = c[a]
    OBVIOUS
  <2>1. CASE g[a] = NoGroup
    BY <2>1 DEF First
  <2>2. CASE g[a] # NoGroup
    <3> DEFINE M == {m \in ids : g[m] = g[a]}
    <3>1. PICK b \in M : \A m \in M : b <= m
      <4>1. M \subseteq Nat /\ M # {}
        OBVIOUS
      <4> HIDE DEF M
      <4> QED
        BY <4>1, LeastOf
    <3>2. b \in First(g, ids)
      BY <3>1 DEF First
    <3>3. Payer(g, b) = Payer(g, a) /\ c[b] = c[a]
      BY <2>2 DEF Payer, OnePrice
    <3> QED
      BY <3>2, <3>3
  <2> QED
    BY <2>1, <2>2
<1>7. \A a, n : <<a, n>>[1] = a /\ <<a, n>>[2] = n
  OBVIOUS
<1> HIDE DEF A, B
<1>8. \A p \in A : f[p] \in B
  <2> SUFFICES ASSUME NEW p \in A PROVE f[p] \in B
    OBVIOUS
  <2>0. PICK a \in First(g, ids) : \E n \in 1..c[a] : p = <<a, n>>
    BY <1>2
  <2>1. PICK n \in 1..c[a] : p = <<a, n>>
    BY <2>0
  <2>2. f[p] = <<Payer(g, a), n>>
    BY <2>1
  <2> QED
    BY <2>1, <2>2, <1>1, <1>3
<1>9. \A p, r \in A : f[p] = f[r] => p = r
  <2> SUFFICES ASSUME NEW p \in A, NEW r \in A, f[p] = f[r] PROVE p = r
    OBVIOUS
  <2>0. PICK a \in First(g, ids) : \E n \in 1..c[a] : p = <<a, n>>
    BY <1>2
  <2>1. PICK n \in 1..c[a] : p = <<a, n>>
    BY <2>0
  <2>9. PICK b \in First(g, ids) : \E m \in 1..c[b] : r = <<b, m>>
    BY <1>2
  <2>2. PICK m \in 1..c[b] : r = <<b, m>>
    BY <2>9
  <2>3. f[p] = <<Payer(g, a), n>> /\ f[r] = <<Payer(g, b), m>>
    BY <2>1, <2>2
  <2>4. Payer(g, a) = Payer(g, b) /\ n = m
    BY <2>3
  <2> QED
    BY <2>1, <2>2, <2>4, <1>5
<1>10. \A q \in B : \E p \in A : f[p] = q
  <2> SUFFICES ASSUME NEW q \in B PROVE \E p \in A : f[p] = q
    OBVIOUS
  <2>0. PICK a \in ids : \E n \in 1..c[a] : q = <<Payer(g, a), n>>
    BY <1>3
  <2>1. PICK n \in 1..c[a] : q = <<Payer(g, a), n>>
    BY <2>0
  <2>2. PICK b \in First(g, ids) : Payer(g, b) = Payer(g, a) /\ c[b] = c[a]
    BY <1>6
  <2>3. <<b, n>> \in A
    BY <1>2, <2>2
  <2>4. f[<<b, n>>] = q
    BY <2>1, <2>2, <2>3
  <2> QED
    BY <2>3, <2>4
<1>11. f \in Bijection(A, B)
  <2>1. f \in [A -> B]
    BY <1>8
  <2> HIDE DEF f
  <2>2. f \in Surjection(A, B)
    BY <2>1, <1>10 DEF Surjection
  <2>3. f \in Injection(A, B)
    BY <2>1, <1>9 DEF Injection, IsInjective
  <2> QED
    BY <2>2, <2>3 DEF Bijection
<1>12. ExistsBijection(A, B)
  BY <1>11 DEF ExistsBijection
<1> QED
  BY <1>4, <1>12, FS_Bijection DEF A, B

\* Who has paid what, without the encoding.
LEMMA InPaid ==
  ASSUME NEW g, NEW c, NEW ids, \A a \in ids : c[a] \in Nat
  PROVE  \A p : p \in Paid(g, c, ids) <=> \E a \in ids : \E n \in 1..c[a] : p = <<Payer(g, a), n>>
<1>1. \A a \in ids : 1..c[a] \subseteq Nat
  OBVIOUS
<1> QED
  BY <1>1 DEF Paid

LEMMA PaidFewer ==
  ASSUME NEW ids, NEW g, NEW c, NEW jds, NEW h, NEW d, jds \subseteq ids,
         \A a \in ids : c[a] \in Nat, \A a \in jds : h[a] = g[a] /\ d[a] = c[a]
  PROVE  Paid(h, d, jds) \subseteq Paid(g, c, ids)
<1> SUFFICES ASSUME NEW p \in Paid(h, d, jds)
             PROVE  p \in Paid(g, c, ids)
  OBVIOUS
<1>1. PICK a \in jds : \E n \in 1..d[a] : p = <<Payer(h, a), n>>
  BY InPaid
<1>2. Payer(h, a) = Payer(g, a) /\ a \in ids /\ d[a] = c[a]
  BY DEF Payer
<1> QED
  BY <1>1, <1>2, InPaid

LEMMA PaidSwapped ==
  ASSUME NEW ids, IsFiniteSet(ids), NEW g, NEW c, NEW jds, NEW h, NEW d, NEW x \in ids, NEW y,
         y \notin ids, jds = (ids \ {x}) \cup {y},
         IsFiniteSet(Paid(g, c, ids)),
         \A a \in ids : c[a] \in Nat, \A a \in ids \ {x} : h[a] = g[a] /\ d[a] = c[a],
         h[y] = g[x], d[y] = c[x]
  PROVE  Cardinality(Paid(h, d, jds)) <= Cardinality(Paid(g, c, ids))
<1> DEFINE A == Paid(h, d, jds)
           B == Paid(g, c, ids)
           f == [p \in A |-> IF p[1] = Payer(h, y) THEN <<Payer(g, x), p[2]>> ELSE p]
<1>0. \A a \in jds : d[a] \in Nat
  OBVIOUS
<1>1. \A p : p \in A <=> \E a \in jds : \E n \in 1..d[a] : p = <<Payer(h, a), n>>
  BY <1>0, InPaid
<1>2. \A p : p \in B <=> \E a \in ids : \E n \in 1..c[a] : p = <<Payer(g, a), n>>
  BY InPaid
<1>3. \A a \in ids \ {x} : Payer(h, a) = Payer(g, a)
  BY DEF Payer
<1>4. \A a \in ids \ {x} : Payer(h, a) = Payer(g, x) => Payer(g, x) = Payer(h, y)
  BY DEF Payer
<1> HIDE DEF A, B
<1>5. \A p \in A : f[p] \in B
  <2> SUFFICES ASSUME NEW p \in A PROVE f[p] \in B
    OBVIOUS
  <2>0. PICK a \in jds : \E n \in 1..d[a] : p = <<Payer(h, a), n>>
    BY <1>1
  <2>1. PICK n \in 1..d[a] : p = <<Payer(h, a), n>>
    BY <2>0
  <2>2. p[1] = Payer(h, a) /\ p[2] = n
    BY <2>1
  <2>3. CASE Payer(h, a) = Payer(h, y)
    <3>1. f[p] = <<Payer(g, x), n>>
      BY <2>2, <2>3
    <3>2. CASE a = y
      BY <3>1, <3>2, <1>2
    <3>3. CASE a # y
      <4>1. a \in ids \ {x} /\ Payer(h, a) = Payer(g, a) /\ d[a] = c[a]
        BY <3>3, <1>3
      <4>2. Payer(g, a) = Payer(g, x)
        <5>1. Payer(h, y) = Payer(g, x) \/ Payer(h, y) = <<"task", y>>
          BY DEF Payer
        <5>2. Payer(h, a) # <<"task", y>>
          BY <3>3 DEF Payer
        <5> QED
          BY <5>1, <5>2, <4>1, <2>3
      <4> QED
        BY <3>1, <4>1, <4>2, <1>2
    <3> QED
      BY <3>2, <3>3
  <2>4. CASE Payer(h, a) # Payer(h, y)
    <3>1. f[p] = p /\ a \in ids \ {x}
      BY <2>2, <2>4
    <3> QED
      BY <3>1, <2>1, <1>2, <1>3
  <2> QED
    BY <2>3, <2>4
<1>6. \A p, q \in A : f[p] = f[q] => p = q
  <2> SUFFICES ASSUME NEW p \in A, NEW q \in A, f[p] = f[q] PROVE p = q
    OBVIOUS
  <2>0. PICK a \in jds : \E n \in 1..d[a] : p = <<Payer(h, a), n>>
    BY <1>1
  <2>1. PICK n \in 1..d[a] : p = <<Payer(h, a), n>>
    BY <2>0
  <2>2. PICK b \in jds : \E m \in 1..d[b] : q = <<Payer(h, b), m>>
    BY <1>1
  <2>3. PICK m \in 1..d[b] : q = <<Payer(h, b), m>>
    BY <2>2
  <2>4. p[1] = Payer(h, a) /\ p[2] = n /\ q[1] = Payer(h, b) /\ q[2] = m
    BY <2>1, <2>3
  <2>5. /\ f[p] = <<IF Payer(h, a) = Payer(h, y) THEN Payer(g, x) ELSE Payer(h, a), n>>
        /\ f[q] = <<IF Payer(h, b) = Payer(h, y) THEN Payer(g, x) ELSE Payer(h, b), m>>
    BY <2>1, <2>3, <2>4
  <2>6. n = m /\ (IF Payer(h, a) = Payer(h, y) THEN Payer(g, x) ELSE Payer(h, a))
                 = (IF Payer(h, b) = Payer(h, y) THEN Payer(g, x) ELSE Payer(h, b))
    BY <2>5
  <2>7. a # y => a \in ids \ {x}
    OBVIOUS
  <2>8. b # y => b \in ids \ {x}
    OBVIOUS
  <2>9. Payer(h, a) = Payer(h, b)
    BY <2>6, <2>7, <2>8, <1>4
  <2> QED
    BY <2>1, <2>3, <2>6, <2>9
<1>7. f \in Injection(A, B)
  <2>1. f \in [A -> B]
    BY <1>5
  <2> HIDE DEF f
  <2> QED
    BY <2>1, <1>6 DEF Injection, IsInjective
<1>8. IsFiniteSet(B)
  BY DEF B
<1>9. Cardinality(A) <= Cardinality(B)
  BY <1>7, <1>8, FS_Injection
<1> QED
  BY <1>9 DEF A, B

LEMMA PaidMore ==
  ASSUME NEW ids, NEW g, NEW c, NEW y, y \notin ids, NEW h, NEW d,
         IsFiniteSet(Paid(g, c, ids)),
         \A a \in ids : c[a] \in Nat, \A a \in ids : h[a] = g[a] /\ d[a] = c[a], d[y] \in Nat
  PROVE  /\ Cardinality(Paid(h, d, ids \cup {y})) <= Cardinality(Paid(g, c, ids)) + d[y]
         /\ \A p \in Paid(h, d, ids \cup {y}) : p \in Paid(g, c, ids) \/ \E n \in 1..d[y] : p = <<Payer(h, y), n>>
<1> DEFINE A == Paid(h, d, ids \cup {y})
           B == Paid(g, c, ids)
           C == {Payer(h, y)} \X (1..d[y])
<1>1. \A p : p \in A <=> \E a \in ids \cup {y} : \E n \in 1..d[a] : p = <<Payer(h, a), n>>
  <2>1. \A a \in ids \cup {y} : d[a] \in Nat
    OBVIOUS
  <2> QED
    BY <2>1, InPaid
<1>2. \A p : p \in B <=> \E a \in ids : \E n \in 1..c[a] : p = <<Payer(g, a), n>>
  BY InPaid
<1>3. \A a \in ids : Payer(h, a) = Payer(g, a)
  BY DEF Payer
<1>4. IsFiniteSet(C) /\ Cardinality(C) = d[y] /\ Cardinality(C) \in Nat
  <2> DEFINE P == {Payer(h, y)}
             Q == 1..d[y]
  <2>1. IsFiniteSet(P) /\ Cardinality(P) = 1
    BY FS_Singleton
  <2>2. IsFiniteSet(Q) /\ Cardinality(Q) = IF 1 > d[y] THEN 0 ELSE d[y] - 1 + 1
    <3> DEFINE n == d[y]
    <3>1. n \in Nat
      OBVIOUS
    <3> HIDE DEF n
    <3>2. IsFiniteSet(1..n) /\ Cardinality(1..n) = IF 1 > n THEN 0 ELSE n - 1 + 1
      BY <3>1, FS_Interval
    <3> QED
      BY <3>2 DEF n
  <2>3. IsFiniteSet(P \X Q) /\ Cardinality(P \X Q) = Cardinality(P) * Cardinality(Q)
    <3> HIDE DEF P, Q
    <3> QED
      BY <2>1, <2>2, FS_Product
  <2>4. Cardinality(Q) = d[y]
    BY <2>2
  <2> QED
    BY <2>1, <2>3, <2>4
<1> HIDE DEF A, B
<1>5. \A p \in A : p \in B \/ \E n \in 1..d[y] : p = <<Payer(h, y), n>>
  <2> SUFFICES ASSUME NEW p \in A PROVE p \in B \/ \E n \in 1..d[y] : p = <<Payer(h, y), n>>
    OBVIOUS
  <2>1. PICK a \in ids \cup {y} : \E n \in 1..d[a] : p = <<Payer(h, a), n>>
    BY <1>1
  <2>2. CASE a = y
    BY <2>1, <2>2
  <2>3. CASE a # y
    BY <2>1, <2>3, <1>2, <1>3
  <2> QED
    BY <2>2, <2>3
<1>6. A \subseteq B \cup C
  BY <1>5
<1> HIDE DEF C
<1>7. /\ IsFiniteSet(B \cup C)
      /\ Cardinality(B \cup C) = Cardinality(B) + Cardinality(C) - Cardinality(B \cap C)
      /\ Cardinality(B \cap C) \in Nat /\ Cardinality(B) \in Nat
  <2>1. IsFiniteSet(B)
    BY DEF B
  <2> QED
    BY <2>1, <1>4, FS_Union, FS_Intersection, FS_CardinalityType
<1>8. Cardinality(A) <= Cardinality(B \cup C) /\ Cardinality(A) \in Nat
  BY <1>6, <1>7, FS_Subset, FS_CardinalityType
<1>9. Cardinality(A) <= Cardinality(B) + d[y]
  BY <1>4, <1>7, <1>8
<1> QED
  BY <1>5, <1>9 DEF A, B

\* Every record has the price of its job.
Priced(s) ==
  \A id \in DOMAIN s.tasks :
    /\ s.tasks[id].job \in DOMAIN s.jobs
    /\ Steady => s.tasks[id].cpu = s.jobs[s.tasks[id].job].cpu

Groups(s) == [id \in DOMAIN s.tasks |-> GroupOf(s, id)]
Prices(s) == [id \in DOMAIN s.tasks |-> s.tasks[id].cpu]

\* A record keeps its job and its price.
Same(s, t, id) ==
  /\ t.tasks[id].job = s.tasks[id].job /\ t.tasks[id].cpu = s.tasks[id].cpu
  /\ t.tasks[id].job \in DOMAIN t.jobs /\ t.jobs[t.tasks[id].job] = s.jobs[t.tasks[id].job]

\* Records leave, or one makes place for a fresh one of its job.
Smaller(s, t) == DOMAIN t.tasks \subseteq DOMAIN s.tasks /\ \A id \in DOMAIN t.tasks : Same(s, t, id)

Swap(s, t, id) ==
  LET k == s.next IN
  /\ id \in DOMAIN s.tasks
  /\ DOMAIN t.tasks = (DOMAIN s.tasks \ {id}) \cup {k}
  /\ \A m \in DOMAIN s.tasks \ {id} : Same(s, t, m)
  /\ t.tasks[k].job = s.tasks[id].job /\ t.tasks[k].cpu = s.jobs[s.tasks[id].job].cpu
  /\ t.jobs = s.jobs

Step(s, t) == Smaller(s, t) \/ \E id : Swap(s, t, id)

LEMMA TasksFinite ==
  ASSUME NEW s, Typed(s)
  PROVE  IsFiniteSet(DOMAIN s.tasks) /\ DOMAIN s.tasks \subseteq Nat /\ s.next \in Nat \ {0}
         /\ s.next \notin DOMAIN s.tasks
<1>1. s.next \in 1..(MaxId + 1) /\ DOMAIN s.tasks \subseteq 1..(s.next - 1) /\ MaxId \in Nat
  BY AgentAssumption DEF Typed
<1>2. s.next \in Int /\ s.next - 1 \in Int /\ s.next \in Nat \ {0}
  BY <1>1
<1>3. IsFiniteSet(1..(s.next - 1))
  <2> DEFINE n == s.next - 1
  <2>1. n \in Int
    BY <1>2
  <2> HIDE DEF n
  <2>2. IsFiniteSet(1..n)
    BY <2>1, FS_Interval
  <2> QED
    BY <2>2 DEF n
<1>4. IsFiniteSet(DOMAIN s.tasks)
  BY <1>1, <1>3, FS_Subset
<1> QED
  BY <1>1, <1>2, <1>4

LEMMA UsageIs ==
  ASSUME NEW s, Typed(s), Priced(s), Steady, NEW ids \in SUBSET DOMAIN s.tasks
  PROVE  /\ Usage(s, ids) = Cardinality(Paid(Groups(s), Prices(s), ids))
         /\ IsFiniteSet(Paid(Groups(s), Prices(s), ids))
         /\ \A id \in ids : Prices(s)[id] \in Nat
<1> DEFINE g == Groups(s)
           c == Prices(s)
<1>1. \A id \in ids : g[id] = GroupOf(s, id) /\ c[id] = s.tasks[id].cpu
  BY DEF Groups, Prices
<1>2. IsFiniteSet(ids) /\ ids \subseteq Nat
  BY TasksFinite, FS_Subset
<1>3. \A id \in ids : s.tasks[id] \in Entry
  BY DEF Typed
<1>4. \A id \in ids : c[id] \in Nat
  BY <1>1, <1>3 DEF Entry
<1>5. OnePrice(g, c, ids)
  <2> SUFFICES ASSUME NEW a \in ids, NEW b \in ids, g[a] = g[b], g[a] # NoGroup
               PROVE  c[a] = c[b]
    BY DEF OnePrice
  <2>1. /\ s.tasks[a].job \in DOMAIN s.jobs /\ s.tasks[b].job \in DOMAIN s.jobs
        /\ c[a] = s.jobs[s.tasks[a].job].cpu /\ c[b] = s.jobs[s.tasks[b].job].cpu
    BY <1>1 DEF Priced
  <2>2. s.jobs[s.tasks[a].job].group = s.jobs[s.tasks[b].job].group /\ s.jobs[s.tasks[a].job].group # NoGroup
    BY <1>1, <2>1 DEF GroupOf
  <2>3. /\ s.tasks[a].job \in Job /\ s.jobs[s.tasks[a].job] \in Defs[s.tasks[a].job]
        /\ s.tasks[b].job \in Job /\ s.jobs[s.tasks[b].job] \in Defs[s.tasks[b].job]
    BY <2>1 DEF Typed
  <2> QED
    BY <2>1, <2>2, <2>3 DEF Steady
<1>6. First(g, ids) = {id \in ids : \/ GroupOf(s, id) = NoGroup
                                    \/ \A m \in ids : GroupOf(s, m) = GroupOf(s, id) => id <= m}
  BY <1>1 DEF First
<1>7. Charged(g, c, ids) = UNION {{id} \X (1..s.tasks[id].cpu) : id \in First(g, ids)}
  <2>1. First(g, ids) \subseteq ids
    BY <1>6
  <2>2. \A id \in First(g, ids) : {id} \X (1..c[id]) = {id} \X (1..s.tasks[id].cpu)
    BY <1>1, <2>1
  <2>3. {{id} \X (1..c[id]) : id \in First(g, ids)} = {{id} \X (1..s.tasks[id].cpu) : id \in First(g, ids)}
    BY <2>2
  <2> QED
    BY <2>3 DEF Charged
<1>8. Usage(s, ids) = Cardinality(Charged(g, c, ids))
  BY <1>6, <1>7 DEF Usage
<1> HIDE DEF g, c
<1>9. IsFiniteSet(Paid(g, c, ids)) /\ Cardinality(Charged(g, c, ids)) = Cardinality(Paid(g, c, ids))
  BY <1>2, <1>4, <1>5, ChargedIsPaid
<1> QED
  BY <1>4, <1>8, <1>9 DEF g, c

\* A step that only takes records away, or swaps one, fits where the old
\* records fitted.
LEMMA RoomStep ==
  ASSUME NEW s, NEW t, Typed(s), Typed(t), Priced(s), Priced(t), Step(s, t), Room(s)
  PROVE  Room(t)
<1> SUFFICES ASSUME Steady PROVE Usage(t, DOMAIN t.tasks) <= Capacity
  BY DEF Room
<1> DEFINE g == Groups(s)
           c == Prices(s)
           ids == DOMAIN s.tasks
           h == Groups(t)
           d == Prices(t)
           jds == DOMAIN t.tasks
<1>1. Usage(s, ids) = Cardinality(Paid(g, c, ids)) /\ IsFiniteSet(Paid(g, c, ids)) /\ \A a \in ids : c[a] \in Nat
  BY UsageIs
<1>2. Usage(t, jds) = Cardinality(Paid(h, d, jds)) /\ IsFiniteSet(Paid(h, d, jds))
  BY UsageIs
<1>3. Cardinality(Paid(g, c, ids)) <= Capacity
  BY <1>1 DEF Room
<1>4. Cardinality(Paid(g, c, ids)) \in Nat /\ Cardinality(Paid(h, d, jds)) \in Nat /\ Capacity \in Nat
  BY <1>1, <1>2, FS_CardinalityType, AgentAssumption
<1>5. \A a \in ids \cap jds : Same(s, t, a) => h[a] = g[a] /\ d[a] = c[a]
  <2> SUFFICES ASSUME NEW a \in ids \cap jds, Same(s, t, a) PROVE h[a] = g[a] /\ d[a] = c[a]
    OBVIOUS
  <2>1. g[a] = GroupOf(s, a) /\ c[a] = s.tasks[a].cpu /\ h[a] = GroupOf(t, a) /\ d[a] = t.tasks[a].cpu
    BY DEF Groups, Prices
  <2>2. s.tasks[a].job \in DOMAIN s.jobs
    BY DEF Priced
  <2> QED
    BY <2>1, <2>2 DEF Same, GroupOf
<1>6. CASE Smaller(s, t)
  <2>1. jds \subseteq ids /\ \A a \in jds : h[a] = g[a] /\ d[a] = c[a]
    BY <1>5, <1>6 DEF Smaller
  <2> HIDE DEF g, c, ids, h, d, jds
  <2>2. Paid(h, d, jds) \subseteq Paid(g, c, ids)
    BY <2>1, <1>1, PaidFewer
  <2>3. Cardinality(Paid(h, d, jds)) <= Cardinality(Paid(g, c, ids))
    BY <2>2, <1>1, FS_Subset
  <2> QED
    BY <2>3, <1>2, <1>3, <1>4 DEF jds
<1>7. ASSUME NEW x, Swap(s, t, x)
      PROVE  Usage(t, jds) <= Capacity
  <2> DEFINE y == s.next
  <2>1. /\ x \in ids /\ y \notin ids /\ jds = (ids \ {x}) \cup {y} /\ IsFiniteSet(ids)
        /\ \A a \in ids \ {x} : a \in ids \cap jds /\ Same(s, t, a)
    BY <1>7, TasksFinite DEF Swap
  <2>2. \A a \in ids \ {x} : h[a] = g[a] /\ d[a] = c[a]
    BY <1>5, <2>1
  <2>3. h[y] = g[x] /\ d[y] = c[x]
    <3>1. g[x] = GroupOf(s, x) /\ c[x] = s.tasks[x].cpu /\ h[y] = GroupOf(t, y) /\ d[y] = t.tasks[y].cpu
      BY <2>1 DEF Groups, Prices
    <3>2. s.tasks[x].job \in DOMAIN s.jobs /\ s.tasks[x].cpu = s.jobs[s.tasks[x].job].cpu
      BY <2>1 DEF Priced
    <3> QED
      BY <3>1, <3>2, <1>7 DEF Swap, GroupOf
  <2> HIDE DEF g, c, ids, h, d, jds, y
  <2>4. Cardinality(Paid(h, d, jds)) <= Cardinality(Paid(g, c, ids))
    BY <2>1, <2>2, <2>3, <1>1, PaidSwapped
  <2> QED
    BY <2>4, <1>2, <1>3, <1>4
<1> QED
  BY <1>6, <1>7 DEF Step

-----------------------------------------------------------------------------
(* States in the middle of a step: one record is being dealt with *)

Sane(s, id) ==
  /\ Typed(s) /\ Pool(s) /\ Owned(s) /\ OKBut(s, {id}) /\ Priced(s) /\ Room(s)
  /\ id \in DOMAIN s.tasks

\* A record of the same job, at the same price.
Kin(e, r) == r.job = e.job /\ r.cpu = e.cpu /\ (r.first <=> e.first)

\* The same records, of the same jobs.
Alike(s, t) ==
  /\ DOMAIN t.tasks = DOMAIN s.tasks /\ t.jobs = s.jobs /\ t.next = s.next
  /\ \A id \in DOMAIN t.tasks :
       Kin(s.tasks[id], t.tasks[id])

LEMMA Opened ==
  ASSUME NEW s, Good(s)
  PROVE  Priced(s) /\ \A id \in DOMAIN s.tasks : Sane(s, id)
<1>1. \A id \in DOMAIN s.tasks : RecOK(s, id)
  BY DEF Good, OKBut
<1>2. Priced(s)
  BY <1>1 DEF RecOK, Priced, Budget
<1> QED
  BY <1>1, <1>2 DEF Good, Sane, OKBut

LEMMA Closed ==
  ASSUME NEW s, NEW id, Sane(s, id), RecOK(s, id)
  PROVE  Good(s)
  BY DEF Sane, Good, OKBut

LEMMA AlikeSmaller ==
  ASSUME NEW s, NEW t, Alike(s, t), Priced(s)
  PROVE  Smaller(s, t) /\ Priced(t)
  BY DEF Alike, Smaller, Same, Priced, Kin

LEMMA AlikeStep ==
  ASSUME NEW s, NEW t, NEW u, Alike(s, t)
  PROVE  (Alike(t, u) => Alike(s, u)) /\ (Step(t, u) => Step(s, u))
<1>1. Alike(t, u) => Alike(s, u)
  BY DEF Alike, Kin
<1>2. \A id \in DOMAIN t.tasks : Same(t, u, id) => Same(s, u, id)
  BY DEF Alike, Same, Kin
<1>3. Smaller(t, u) => Smaller(s, u)
  BY <1>2 DEF Alike, Smaller
<1>4. \A id : Swap(t, u, id) => Swap(s, u, id)
  BY <1>2 DEF Alike, Swap, Kin
<1> QED
  BY <1>1, <1>3, <1>4 DEF Step

\* One record changes, its process is told to stop if need be.
LEMMA Updated ==
  ASSUME NEW s, NEW id, Sane(s, id), NEW r \in Entry, NEW t,
         Kin(s.tasks[id], r),
         t.queue = s.queue \/ t.queue = s.queue \ {id},
         \/ t.runner = Halt(s.runner, {id})
         \/ t.runner = s.runner /\ (r.state = "Running" \/ (id \in DOMAIN s.runner => s.runner[id] = "stopping")),
         t = N(s.jobs, Put(s.tasks, id, r), s.next, t.queue, s.busy, t.runner, s.open)
  PROVE  /\ Sane(t, id) /\ Alike(s, t) /\ t.tasks[id] = r
         /\ t.jobs = s.jobs /\ t.next = s.next /\ t.busy = s.busy /\ t.open = s.open
<1> DEFINE p == t.runner
<1>1. /\ IsNode(t) /\ t.jobs = s.jobs /\ t.tasks = Put(s.tasks, id, r) /\ t.next = s.next
      /\ t.busy = s.busy /\ t.open = s.open
  BY DEF N, IsNode
<1>2. /\ s.tasks \in [DOMAIN s.tasks -> Entry] /\ id \in DOMAIN s.tasks
      /\ s.runner \in [DOMAIN s.runner -> {"up", "exited", "stopping"}]
  BY DEF Sane, Typed
<1>3. /\ DOMAIN t.tasks = DOMAIN s.tasks /\ t.tasks[id] = r
      /\ \A m \in DOMAIN s.tasks : m # id => t.tasks[m] = s.tasks[m]
      /\ t.tasks \in [DOMAIN t.tasks -> Entry]
  BY <1>1, <1>2 DEF Put
<1>4. /\ DOMAIN p = DOMAIN s.runner
      /\ \A m \in DOMAIN p : m # id => p[m] = s.runner[m]
      /\ p \in [DOMAIN p -> {"up", "exited", "stopping"}]
      /\ id \in DOMAIN p => p[id] = "stopping" \/ r.state = "Running"
  BY <1>2 DEF Halt
<1>5. Typed(t)
  BY <1>1, <1>3, <1>4 DEF Typed, Sane
<1>6. Pool(t)
  BY <1>1 DEF Pool, Sane
<1>7. Owned(t)
  BY <1>1, <1>3, <1>4 DEF Owned, Sane
<1>8. Alike(s, t)
  BY <1>1, <1>3 DEF Alike, Kin
<1>9. OKBut(t, {id})
  <2> SUFFICES ASSUME NEW m \in DOMAIN t.tasks \ {id} PROVE RecOK(t, m)
    BY DEF OKBut
  <2>1. RecOK(s, m) /\ t.tasks[m] = s.tasks[m] /\ m # id
    BY <1>3 DEF Sane, OKBut
  <2>2. m \in s.busy \cup s.queue => m \in t.busy \cup t.queue
    BY <1>1, <2>1
  <2>3. m \in DOMAIN s.runner => m \in DOMAIN t.runner /\ t.runner[m] = s.runner[m]
    BY <1>1, <1>4, <2>1
  <2> QED
    BY <2>1, <2>2, <2>3, <1>1 DEF RecOK
<1>10. Priced(t) /\ Step(s, t)
  BY <1>8, AlikeSmaller DEF Sane, Step
<1>11. Room(t)
  BY <1>5, <1>10, RoomStep DEF Sane
<1> QED
  BY <1>1, <1>3, <1>5, <1>6, <1>7, <1>8, <1>9, <1>10, <1>11 DEF Sane

\* ... without its process, or with it.
LEMMA UpdatedOnly ==
  ASSUME NEW s, NEW id, Sane(s, id), NEW r \in Entry, NEW t,
         Kin(s.tasks[id], r),
         r.state = "Running" \/ (id \in DOMAIN s.runner => s.runner[id] = "stopping"),
         t = N(s.jobs, Put(s.tasks, id, r), s.next, s.queue, s.busy, s.runner, s.open)
  PROVE  /\ Sane(t, id) /\ Alike(s, t) /\ t.tasks[id] = r
         /\ t.jobs = s.jobs /\ t.next = s.next /\ t.queue = s.queue /\ t.busy = s.busy
         /\ t.runner = s.runner /\ t.open = s.open
<1>1. t.queue = s.queue /\ t.runner = s.runner
  BY DEF N
<1>2. t = N(s.jobs, Put(s.tasks, id, r), s.next, t.queue, s.busy, t.runner, s.open)
  BY <1>1
<1>3. Sane(t, id) /\ Alike(s, t)
  BY <1>1, <1>2, Updated
<1>4. /\ t.tasks = Put(s.tasks, id, r) /\ t.jobs = s.jobs /\ t.next = s.next /\ t.queue = s.queue
      /\ t.busy = s.busy /\ t.runner = s.runner /\ t.open = s.open
  BY DEF N
<1>5. t.tasks[id] = r
  BY <1>4 DEF Put, Sane, Typed
<1> QED
  BY <1>3, <1>4, <1>5

LEMMA UpdatedHalted ==
  ASSUME NEW s, NEW id, Sane(s, id), NEW r \in Entry, NEW t,
         Kin(s.tasks[id], r),
         t = N(s.jobs, Put(s.tasks, id, r), s.next, s.queue \ {id}, s.busy, Halt(s.runner, {id}), s.open)
  PROVE  Sane(t, id) /\ Alike(s, t) /\ t.tasks[id] = r /\ t.jobs = s.jobs /\ t.next = s.next
<1>1. t.queue = s.queue \ {id} /\ t.runner = Halt(s.runner, {id})
  BY DEF N
<1>2. t = N(s.jobs, Put(s.tasks, id, r), s.next, t.queue, s.busy, t.runner, s.open)
  BY <1>1
<1>3. Sane(t, id) /\ Alike(s, t)
  BY <1>1, <1>2, Updated
<1>4. t.tasks = Put(s.tasks, id, r) /\ t.jobs = s.jobs /\ t.next = s.next
  BY DEF N
<1>5. t.tasks[id] = r
  BY <1>4 DEF Put, Sane, Typed
<1> QED
  BY <1>3, <1>4, <1>5

\* The fields of a record of which some change.
E(e, st, n, w, b, f) ==
  [job |-> e.job, state |-> st, cpu |-> e.cpu, count |-> n, waits |-> w, first |-> e.first,
   starting |-> b, fails |-> f]

Changed(e, r, st, n, w, b) ==
  r \in Entry /\ Kin(e, r) /\ r.state = st /\ r.count = n /\ (r.waits <=> w) /\ (r.starting <=> b)

LEMMA EntryIs ==
  ASSUME NEW e \in Entry
  PROVE  e = E(e, e.state, e.count, e.waits, e.starting, e.fails)
  BY DEF E, Entry

LEMMA EntryOf ==
  ASSUME NEW e \in Entry, NEW st \in State, NEW n \in Nat, NEW w \in BOOLEAN, NEW b \in BOOLEAN, NEW f \in Nat
  PROVE  Changed(e, E(e, st, n, w, b, f), st, n, w, b)
  BY DEF E, Entry, Changed, Kin

LEMMA GivenIs ==
  ASSUME NEW e \in Entry
  PROVE  Given(e) = E(e, "Failed", e.count, FALSE, e.starting, e.fails)
<1> DEFINE f == [e EXCEPT !.state = "Failed"]
<1>1. f = E(e, "Failed", e.count, e.waits, e.starting, e.fails)
  BY EntryIs DEF E
<1>2. Given(e) = [f EXCEPT !.waits = FALSE]
  BY DEF Given
<1> HIDE DEF f
<1> QED
  BY <1>1, <1>2 DEF E

LEMMA SetWaits ==
  ASSUME NEW e \in Entry, NEW w
  PROVE  [e EXCEPT !.waits = w] = E(e, e.state, e.count, w, e.starting, e.fails)
  BY EntryIs DEF E

LEMMA SetStarting ==
  ASSUME NEW e \in Entry, NEW w
  PROVE  Marked(e, w) = E(e, e.state, e.count, e.waits, w, e.fails)
  BY EntryIs DEF E, Marked

-----------------------------------------------------------------------------
(* A fresh record is started *)

\* t is s with a fresh record that is being started.
Launch(s, t, j, count, first) ==
  /\ Typed(t) /\ Pool(t) /\ Owned(t) /\ OKBut(t, {})
  /\ DOMAIN t.tasks = DOMAIN s.tasks \cup {s.next}
  /\ \A m \in DOMAIN s.tasks : t.tasks[m] = s.tasks[m]
  /\ t.tasks[s.next] = Marked(Fresh(j, s.jobs[j].cpu, count, first), TRUE)
  /\ t.jobs = s.jobs

LEMMA Launched ==
  ASSUME NEW s, Typed(s), Pool(s), Owned(s), OKBut(s, {}),
         s.next <= MaxId, Cardinality(DOMAIN s.tasks) < MAX_TASKS,
         NEW j \in DOMAIN s.jobs, NEW count \in Nat, NEW first \in BOOLEAN,
         Steady => (s.jobs[j].max >= 0 => count <= s.jobs[j].max),
         NEW t, t = Start(NewTask(s, j, count, first), s.next)
  PROVE  Launch(s, t, j, count, first)
<1> DEFINE k == s.next
           e == Fresh(j, s.jobs[j].cpu, count, first)
           r == Marked(e, TRUE)
           u == NewTask(s, j, count, first)
           v == N(s.jobs, Put(u.tasks, k, r), k + 1, s.queue \cup {k}, s.busy, s.runner, s.open)
           T == Taken(s.queue \cup {k}, s.busy)
<1>1. /\ IsNode(s) /\ k \in Nat \ {0} /\ k \notin DOMAIN s.tasks /\ k \in 1..MaxId
      /\ s.queue \subseteq 1..(k - 1) /\ s.busy \subseteq 1..(k - 1) /\ s.queue \cap s.busy = {}
      /\ DOMAIN s.runner \subseteq 1..(k - 1) /\ DOMAIN s.tasks \subseteq 1..(k - 1)
  BY TasksFinite, AgentAssumption DEF Typed, Pool
<1>2. j \in Job /\ s.jobs[j] \in Defs[j] /\ s.jobs[j].cpu \in Nat /\ s.jobs[j].max \in Int
  BY AgentAssumption DEF Typed, DefOK
<1>3. e \in Entry /\ r \in Entry
  BY <1>2 DEF Fresh, Marked, Entry, State
<1>4. /\ r.job = j /\ r.state = "Queued" /\ r.cpu = s.jobs[j].cpu /\ r.count = count
      /\ ~r.waits /\ r.starting
  BY DEF Fresh, Marked
<1>5. /\ IsNode(u) /\ u.jobs = s.jobs /\ u.tasks = With(s.tasks, k, e) /\ u.next = k + 1
      /\ u.queue = s.queue /\ u.busy = s.busy /\ u.runner = s.runner /\ u.open = s.open
  BY <1>1, NewTaskIs, FieldsOf
<1>17. t = Start(u, k)
  OBVIOUS
<1> HIDE DEF u
<1>6. /\ DOMAIN u.tasks = DOMAIN s.tasks \cup {k} /\ u.tasks[k] = e
      /\ \A m \in DOMAIN s.tasks : u.tasks[m] = s.tasks[m]
      /\ u.tasks = [m \in DOMAIN u.tasks |-> u.tasks[m]]
  BY <1>1, <1>5 DEF With
<1>7. t = Dispatch(v)
  <2>1. k \in DOMAIN u.tasks
    BY <1>6
  <2>2. Start(u, k) = Dispatch(N(u.jobs, Put(u.tasks, k, Marked(u.tasks[k], TRUE)),
                                 u.next, u.queue \cup {k}, u.busy, u.runner, u.open))
    BY <1>5, <2>1, StartIs
  <2> QED
    BY <2>2, <1>5, <1>6, <1>17
<1> DEFINE w == Put(u.tasks, k, r)
<1>8. /\ DOMAIN w = DOMAIN s.tasks \cup {k} /\ w[k] = r
      /\ \A m \in DOMAIN s.tasks : w[m] = s.tasks[m]
      /\ w = [m \in DOMAIN w |-> w[m]]
  BY <1>6, <1>1 DEF Put
<1> HIDE DEF e, r, w
<1>9. /\ IsNode(v) /\ v.jobs = s.jobs /\ v.tasks = w /\ v.next = k + 1 /\ v.queue = s.queue \cup {k}
      /\ v.busy = s.busy /\ v.runner = s.runner /\ v.open = s.open
  BY FieldsOf DEF w
<1> HIDE DEF v
<1>10. t = N(s.jobs, w, k + 1, (s.queue \cup {k}) \ T, s.busy \cup T, s.runner, s.open)
  BY <1>7, <1>9, DispatchIs
<1>11. /\ IsNode(t) /\ t.jobs = s.jobs /\ t.tasks = w /\ t.next = k + 1
       /\ t.queue = (s.queue \cup {k}) \ T /\ t.busy = s.busy \cup T
       /\ t.runner = s.runner /\ t.open = s.open
  BY <1>10 DEF N, IsNode
<1>12. /\ T \subseteq s.queue \cup {k}
       /\ Cardinality(s.busy \cup T) <= WORKERS
       /\ (s.queue \cup {k}) \ T # {} => Cardinality(s.busy \cup T) = WORKERS
  <2> DEFINE q == s.queue \cup {k}
             b == s.busy
  <2>1. q \subseteq 1..k /\ b \subseteq 1..k /\ q \cap b = {} /\ k \in Nat
    BY <1>1
  <2>2. Cardinality(b) <= WORKERS
    BY DEF Pool
  <2>3. q = {} \/ Cardinality(b) >= WORKERS - 1 \/ \E x \in q : q = {x}
    <3>1. CASE s.queue = {}
      BY <3>1
    <3>2. CASE s.queue # {}
      BY <3>2, AgentAssumption DEF Pool
    <3> QED
      BY <3>1, <3>2
  <2> HIDE DEF q, b
  <2>4. LET U == Taken(q, b) IN
        /\ U \subseteq q
        /\ Cardinality(b \cup U) <= WORKERS
        /\ q \ U # {} => Cardinality(b \cup U) = WORKERS
    BY <2>1, <2>2, <2>3, PoolDispatch
  <2> QED
    BY <2>4 DEF q, b
<1> HIDE DEF T
<1>13. Typed(t)
  <2>1. t.tasks \in [DOMAIN t.tasks -> Entry]
    <3>1. \A m \in DOMAIN w : w[m] \in Entry
      BY <1>8, <1>3 DEF Typed
    <3> QED
      BY <3>1, <1>8, <1>11
  <2>2. t.next \in 1..(MaxId + 1) /\ DOMAIN t.tasks \subseteq 1..(t.next - 1) /\ DOMAIN t.runner \subseteq 1..(t.next - 1)
    BY <1>1, <1>8, <1>11, AgentAssumption
  <2>3. Cardinality(DOMAIN t.tasks) <= MAX_TASKS
    <3>1. Cardinality(DOMAIN s.tasks \cup {k}) = Cardinality(DOMAIN s.tasks) + 1 /\ Cardinality(DOMAIN s.tasks) \in Nat
      BY <1>1, TasksFinite, FS_AddElement, FS_CardinalityType
    <3> QED
      BY <3>1, <1>8, <1>11, AgentAssumption
  <2> QED
    BY <1>11, <2>1, <2>2, <2>3 DEF Typed
<1>14. Pool(t)
  <2>1. t.queue \subseteq 1..(t.next - 1) /\ t.busy \subseteq 1..(t.next - 1)
    BY <1>1, <1>11, <1>12
  <2>2. t.queue \cap t.busy = {}
    BY <1>1, <1>11, <1>12
  <2> QED
    BY <1>11, <1>12, <2>1, <2>2 DEF Pool
<1>15. Owned(t)
  BY <1>8, <1>11 DEF Owned
<1>16. OKBut(t, {})
  <2> SUFFICES ASSUME NEW m \in DOMAIN t.tasks PROVE RecOK(t, m)
    BY DEF OKBut
  <2>1. CASE m = k
    <3>1. t.tasks[m] = r /\ k \in t.busy \cup t.queue
      BY <2>1, <1>8, <1>11
    <3> QED
      BY <3>1, <2>1, <1>4, <1>11 DEF RecOK, Budget
  <2>2. CASE m # k
    <3>1. m \in DOMAIN s.tasks /\ t.tasks[m] = s.tasks[m] /\ RecOK(s, m)
      BY <2>2, <1>8, <1>11 DEF OKBut
    <3>2. m \in s.busy \cup s.queue => m \in t.busy \cup t.queue
      BY <1>11, <1>12
    <3> QED
      BY <3>1, <3>2, <1>11 DEF RecOK
  <2> QED
    BY <2>1, <2>2
<1> QED
  BY <1>8, <1>11, <1>13, <1>14, <1>15, <1>16 DEF e, r, Launch

-----------------------------------------------------------------------------
(* Restart *)

\* The attempt is over and its record is to be dealt with.
Down(d, e) ==
  /\ e.state \in {"Stopping", "Failed"} /\ ~e.waits /\ ~e.starting
  /\ Steady => (d.max >= 0 => e.count <= d.max)

\* The budget leaves one more start.
Left(d, e) == Steady => (d.max >= 0 => e.count < d.max)

Ready(s, id) == Sane(s, id) /\ Down(s.jobs[s.tasks[id].job], s.tasks[id])

\* What Sane says of the record that is dealt with.
LEMMA RecordOf ==
  ASSUME NEW s, NEW id, Sane(s, id)
  PROVE  /\ s.tasks[id] \in Entry /\ s.tasks[id].job \in DOMAIN s.jobs /\ s.tasks[id].job \in Job
         /\ s.jobs[s.tasks[id].job] \in Defs[s.tasks[id].job]
         /\ DefOK(s.jobs[s.tasks[id].job])
         /\ s.tasks[id].count \in Nat /\ s.jobs[s.tasks[id].job].max \in Int
         /\ Steady => s.tasks[id].cpu = s.jobs[s.tasks[id].job].cpu
<1>1. s.tasks[id] \in Entry /\ s.tasks[id].job \in DOMAIN s.jobs
  BY DEF Sane, Typed, Priced
<1>2. s.tasks[id].job \in Job /\ s.jobs[s.tasks[id].job] \in Defs[s.tasks[id].job]
  BY <1>1 DEF Sane, Typed
<1>3. DefOK(s.jobs[s.tasks[id].job])
  BY <1>2, AgentAssumption
<1> QED
  BY <1>1, <1>2, <1>3 DEF Entry, DefOK, Sane, Priced

\* The record of the process that a restart deals with owns no process.
LEMMA Unowned ==
  ASSUME NEW s, NEW id, Ready(s, id)
  PROVE  id \in DOMAIN s.runner => s.runner[id] = "stopping"
  BY DEF Ready, Down, Sane, Owned

LEMMA FailGood ==
  ASSUME NEW s, NEW id, Ready(s, id),
         LET d == s.jobs[s.tasks[id].job] IN
           Steady => ~d.fits \/ (d.max >= 0 /\ s.tasks[id].count >= d.max)
  PROVE  Good(Fail(s, id)) /\ Alike(s, Fail(s, id))
<1> DEFINE e == s.tasks[id]
           d == s.jobs[e.job]
           r == Given(e)
           t == Fail(s, id)
<1>1. e \in Entry /\ e.job \in DOMAIN s.jobs /\ e.count \in Nat /\ d.max \in Int /\ (Steady => e.cpu = d.cpu) /\ Sane(s, id)
  BY RecordOf DEF Ready
<1>2. r \in Entry /\ Kin(e, r) /\ r.count = e.count /\ r.state = "Failed" /\ ~r.waits
      /\ (r.starting <=> e.starting)
  <2>1. e.starting \in BOOLEAN /\ e.fails \in Nat /\ "Failed" \in State /\ FALSE \in BOOLEAN
    BY <1>1 DEF Entry, State
  <2> DEFINE st == "Failed"
             w == FALSE
  <2>2. r = E(e, st, e.count, w, e.starting, e.fails)
    BY <1>1, GivenIs
  <2>3. st \in State /\ w \in BOOLEAN
    BY <2>1
  <2> HIDE DEF e, r, st, w
  <2>4. Changed(e, r, st, e.count, w, e.starting)
    BY <1>1, <2>1, <2>2, <2>3, EntryOf
  <2> QED
    BY <2>4 DEF st, w, Changed
<1>3. ~e.starting /\ (Steady => (d.max >= 0 => e.count <= d.max))
  BY DEF Ready, Down
<1>4. t = N(s.jobs, Put(s.tasks, id, r), s.next, s.queue, s.busy, s.runner, s.open)
  BY <1>1, FailIs DEF Sane, Typed
<1>5. id \in DOMAIN s.runner => s.runner[id] = "stopping"
  BY Unowned
<1>9. Steady => ~d.fits \/ (d.max >= 0 /\ e.count >= d.max)
  OBVIOUS
<1> HIDE DEF r, t
<1>6. Sane(t, id) /\ Alike(s, t) /\ t.tasks[id] = r /\ t.jobs = s.jobs
  BY <1>1, <1>2, <1>4, <1>5, UpdatedOnly
<1>7. RecOK(t, id)
  <2>1. Steady => Budget(d, r)
    BY <1>1, <1>2, <1>3, <1>9 DEF Budget, Over, Kin
  <2> QED
    BY <1>1, <1>2, <1>3, <1>6, <2>1 DEF RecOK, Kin
<1> QED
  BY <1>6, <1>7, Closed DEF r, t

LEMMA WaitGood ==
  ASSUME NEW s, NEW id, Ready(s, id), Left(s.jobs[s.tasks[id].job], s.tasks[id])
  PROVE  LET t == [s EXCEPT !.tasks[id].waits = TRUE] IN Good(t) /\ Alike(s, t)
<1> DEFINE e == s.tasks[id]
           d == s.jobs[e.job]
           r == [e EXCEPT !.waits = TRUE]
           t == [s EXCEPT !.tasks[id].waits = TRUE]
<1>1. e \in Entry /\ e.job \in DOMAIN s.jobs /\ e.count \in Nat /\ d.max \in Int /\ (Steady => e.cpu = d.cpu) /\ Sane(s, id)
  BY RecordOf DEF Ready
<1>2. r \in Entry /\ Kin(e, r) /\ r.count = e.count /\ r.state = e.state /\ r.waits
      /\ (r.starting <=> e.starting)
  <2>1. e.starting \in BOOLEAN /\ e.fails \in Nat /\ e.state \in State
    BY <1>1 DEF Entry, State
  <2> DEFINE w == TRUE
  <2>0. r = [e EXCEPT !.waits = w] /\ w \in BOOLEAN
    OBVIOUS
  <2> HIDE DEF e, r, w
  <2>2. r = E(e, e.state, e.count, w, e.starting, e.fails)
    BY <1>1, <2>0, SetWaits
  <2>4. Changed(e, r, e.state, e.count, w, e.starting)
    BY <1>1, <2>0, <2>1, <2>2, EntryOf
  <2> QED
    BY <2>4 DEF w, Changed
<1>3. /\ ~e.starting /\ e.state \in {"Stopping", "Failed"}
      /\ (Steady => (d.max >= 0 => e.count <= d.max /\ e.count < d.max))
  BY DEF Ready, Down, Left
<1>4. t = N(s.jobs, Put(s.tasks, id, r), s.next, s.queue, s.busy, s.runner, s.open)
  <2>1. t = [s EXCEPT !.tasks = Put(s.tasks, id, r)]
    BY DEF Put
  <2>2. IsNode(s)
    BY <1>1 DEF Sane, Typed
  <2> HIDE DEF r, t
  <2> QED
    BY <2>1, <2>2 DEF IsNode, N
<1>5. id \in DOMAIN s.runner => s.runner[id] = "stopping"
  BY Unowned
<1> HIDE DEF r, t
<1>6. Sane(t, id) /\ Alike(s, t) /\ t.tasks[id] = r /\ t.jobs = s.jobs
  BY <1>1, <1>2, <1>4, <1>5, UpdatedOnly
<1>7. RecOK(t, id)
  <2>1. Steady => Budget(d, r)
    BY <1>1, <1>2, <1>3 DEF Budget, Kin
  <2> QED
    BY <1>1, <1>2, <1>3, <1>6, <2>1 DEF RecOK, Kin
<1> QED
  BY <1>6, <1>7, Closed DEF t

\* A record is forgotten; the others stay as they are.
LEMMA Forgotten ==
  ASSUME NEW s, NEW id, Sane(s, id), id \in DOMAIN s.runner => s.runner[id] = "stopping"
  PROVE  LET t == Forget(s, id) IN
         /\ Typed(t) /\ Pool(t) /\ Owned(t) /\ OKBut(t, {}) /\ Priced(t)
         /\ DOMAIN t.tasks = DOMAIN s.tasks \ {id} /\ t.jobs = s.jobs /\ t.next = s.next
         /\ \A m \in DOMAIN t.tasks : t.tasks[m] = s.tasks[m]
         /\ Cardinality(DOMAIN t.tasks) < MAX_TASKS
         /\ Smaller(s, t)
<1> DEFINE t == Forget(s, id)
<1>1. /\ IsNode(t) /\ t.jobs = s.jobs /\ t.tasks = Restrict(s.tasks, DOMAIN s.tasks \ {id}) /\ t.next = s.next
      /\ t.queue = s.queue /\ t.busy = s.busy /\ t.runner = s.runner /\ t.open = s.open
  <2>1. t = N(s.jobs, Restrict(s.tasks, DOMAIN s.tasks \ {id}), s.next, s.queue, s.busy, s.runner, s.open)
    BY ForgetIs DEF Sane, Typed
  <2> QED
    BY <2>1 DEF N, IsNode
<1> HIDE DEF t
<1>2. /\ DOMAIN t.tasks = DOMAIN s.tasks \ {id} /\ t.tasks = [m \in DOMAIN t.tasks |-> t.tasks[m]]
      /\ \A m \in DOMAIN t.tasks : t.tasks[m] = s.tasks[m]
  BY <1>1 DEF Restrict
<1>3. Cardinality(DOMAIN t.tasks) < MAX_TASKS
  <2>1. IsFiniteSet(DOMAIN s.tasks) /\ id \in DOMAIN s.tasks /\ Cardinality(DOMAIN s.tasks) <= MAX_TASKS
    BY TasksFinite DEF Sane, Typed
  <2>2. Cardinality(DOMAIN s.tasks \ {id}) = Cardinality(DOMAIN s.tasks) - 1 /\ Cardinality(DOMAIN s.tasks) \in Nat
    BY <2>1, FS_RemoveElement, FS_CardinalityType
  <2> QED
    BY <2>1, <2>2, <1>2, AgentAssumption
<1>4. Typed(t)
  <2>0. \A m \in DOMAIN s.tasks : s.tasks[m] \in Entry
    BY DEF Sane, Typed
  <2>1. t.tasks \in [DOMAIN t.tasks -> Entry]
    BY <1>2, <2>0
  <2>2. Cardinality(DOMAIN t.tasks) <= MAX_TASKS
    <3>1. IsFiniteSet(DOMAIN t.tasks)
      BY <1>2, TasksFinite, FS_Subset DEF Sane
    <3> QED
      BY <1>3, <3>1, FS_CardinalityType, AgentAssumption
  <2> QED
    BY <1>1, <1>2, <2>1, <2>2 DEF Sane, Typed
<1>5. Pool(t)
  BY <1>1 DEF Sane, Pool
<1>6. Owned(t)
  BY <1>1, <1>2 DEF Sane, Owned
<1>7. OKBut(t, {})
  <2> SUFFICES ASSUME NEW m \in DOMAIN t.tasks PROVE RecOK(t, m)
    BY DEF OKBut
  <2>1. RecOK(s, m) /\ t.tasks[m] = s.tasks[m]
    BY <1>2 DEF Sane, OKBut
  <2> QED
    BY <2>1, <1>1 DEF RecOK
<1>8. Priced(t) /\ Smaller(s, t)
  BY <1>1, <1>2 DEF Sane, Priced, Smaller, Same
<1> QED
  BY <1>1, <1>2, <1>3, <1>4, <1>5, <1>6, <1>7, <1>8 DEF t

LEMMA FireGood ==
  ASSUME NEW s, NEW id, Ready(s, id), s.next <= MaxId, Left(s.jobs[s.tasks[id].job], s.tasks[id])
  PROVE  Good(RestartFire(s, id)) /\ Step(s, RestartFire(s, id))
         /\ (~s.jobs[s.tasks[id].job].fits => Alike(s, RestartFire(s, id)))
<1> DEFINE e == s.tasks[id]
           d == s.jobs[e.job]
           u == Forget(s, id)
           k == s.next
           t == Start(NewTask(u, e.job, e.count + 1, FALSE), k)
<1>1. /\ e \in Entry /\ e.job \in DOMAIN s.jobs /\ e.count \in Nat /\ d.max \in Int /\ d.fits \in BOOLEAN
      /\ (Steady => e.cpu = d.cpu) /\ Sane(s, id)
  BY RecordOf DEF Ready, DefOK
<1>2. CASE ~d.fits
  <2>1. RestartFire(s, id) = Fail(s, id)
    BY <1>1, <1>2 DEF RestartFire
  <2>2. Good(Fail(s, id)) /\ Alike(s, Fail(s, id))
    BY <1>2, FailGood
  <2>3. Step(s, Fail(s, id))
    BY <2>2, <1>1, AlikeSmaller DEF Step, Sane
  <2> QED
    BY <2>1, <2>2, <2>3
<1>3. CASE d.fits
  <2>1. RestartFire(s, id) = t
    BY <1>1, <1>3 DEF RestartFire
  <2>2. id \in DOMAIN s.runner => s.runner[id] = "stopping"
    BY Unowned
  <2>3. /\ Typed(u) /\ Pool(u) /\ Owned(u) /\ OKBut(u, {}) /\ Priced(u)
        /\ DOMAIN u.tasks = DOMAIN s.tasks \ {id} /\ u.jobs = s.jobs /\ u.next = s.next
        /\ \A m \in DOMAIN u.tasks : u.tasks[m] = s.tasks[m]
        /\ Cardinality(DOMAIN u.tasks) < MAX_TASKS
    BY <1>1, <2>2, Forgotten
  <2>4. Steady => (u.jobs[e.job].max >= 0 => e.count + 1 <= u.jobs[e.job].max)
    BY <1>1, <2>3 DEF Left
  <2>5. e.job \in DOMAIN u.jobs /\ e.count + 1 \in Nat /\ FALSE \in BOOLEAN /\ u.next <= MaxId
        /\ t = Start(NewTask(u, e.job, e.count + 1, FALSE), u.next)
    BY <1>1, <2>3
  <2> HIDE DEF t, u
  <2> DEFINE j == e.job
             n == e.count + 1
  <2>6. /\ Typed(t) /\ Pool(t) /\ Owned(t) /\ OKBut(t, {})
        /\ DOMAIN t.tasks = DOMAIN u.tasks \cup {u.next}
        /\ \A m \in DOMAIN u.tasks : t.tasks[m] = u.tasks[m]
        /\ t.tasks[u.next] = Marked(Fresh(j, u.jobs[j].cpu, n, FALSE), TRUE)
        /\ t.jobs = u.jobs
    <3> DEFINE f == FALSE
    <3>1. /\ Steady => (u.jobs[j].max >= 0 => n <= u.jobs[j].max)
          /\ j \in DOMAIN u.jobs /\ n \in Nat /\ f \in BOOLEAN
          /\ t = Start(NewTask(u, j, n, f), u.next)
      BY <2>4, <2>5
    <3> HIDE DEF j, n, f
    <3>2. Launch(u, t, j, n, f)
      BY <2>3, <2>5, <3>1, Launched
    <3> QED
      BY <3>2 DEF Launch, f
  <2>7. t.tasks[k].job = e.job /\ t.tasks[k].cpu = d.cpu
    BY <2>3, <2>6 DEF Marked, Fresh
  <2>8. Swap(s, t, id)
    BY <1>1, <2>3, <2>6, <2>7 DEF Swap, Same, Sane, Priced
  <2>9. Priced(t)
    BY <2>6 DEF OKBut, RecOK, Priced, Budget
  <2>10. Step(s, t)
    BY <2>8 DEF Step
  <2>11. Room(t)
    BY <1>1, <2>6, <2>9, <2>10, RoomStep DEF Sane
  <2> QED
    BY <1>3, <2>1, <2>6, <2>10, <2>11 DEF Good
<1> QED
  BY <1>1, <1>2, <1>3

LEMMA DecideGood ==
  ASSUME NEW s, NEW id, Ready(s, id), s.next <= MaxId, NEW earned \in BOOLEAN
  PROVE  Good(RestartDecide(s, id, earned)) /\ Step(s, RestartDecide(s, id, earned))
         /\ (~s.jobs[s.tasks[id].job].fits => Alike(s, RestartDecide(s, id, earned)))
<1> DEFINE e == s.tasks[id]
           d == s.jobs[e.job]
           n == IF earned THEN 0 ELSE e.count
           r == [e EXCEPT !.count = n]
           t == [s EXCEPT !.tasks[id].count = n]
           u == RestartDecide(s, id, earned)
<1>1. /\ e \in Entry /\ e.job \in DOMAIN s.jobs /\ e.count \in Nat /\ d.max \in Int /\ d.fits \in BOOLEAN
      /\ (Steady => e.cpu = d.cpu) /\ Sane(s, id)
  BY RecordOf DEF Ready, DefOK
<1>2. n \in Nat /\ n <= e.count
  BY <1>1
<1>3. r = E(e, e.state, n, e.waits, e.starting, e.fails)
  <2> HIDE DEF n
  <2> QED
    BY <1>1, EntryIs DEF E
<1>4. /\ r \in Entry /\ Kin(e, r) /\ r.count = n /\ r.state = e.state
      /\ (r.waits <=> e.waits) /\ (r.starting <=> e.starting)
  <2>1. e.starting \in BOOLEAN /\ e.fails \in Nat /\ e.state \in State /\ e.waits \in BOOLEAN
    BY <1>1 DEF Entry
  <2> HIDE DEF e, n, r
  <2>2. Changed(e, r, e.state, n, e.waits, e.starting)
    BY <1>1, <1>2, <1>3, <2>1, EntryOf
  <2> QED
    BY <2>2 DEF Changed
<1>5. t = N(s.jobs, Put(s.tasks, id, r), s.next, s.queue, s.busy, s.runner, s.open)
  <2>1. t = [s EXCEPT !.tasks = Put(s.tasks, id, r)]
    BY DEF Put
  <2>2. IsNode(s)
    BY <1>1 DEF Sane, Typed
  <2> HIDE DEF r, t
  <2> QED
    BY <2>1, <2>2 DEF IsNode, N
<1>6. id \in DOMAIN s.runner => s.runner[id] = "stopping"
  BY Unowned
<1>7. u = CASE e.job \notin DOMAIN s.jobs -> Forget(s, id)
            [] e.job \in DOMAIN s.jobs /\ d.max >= 0 /\ n >= d.max -> Fail(t, id)
            [] OTHER -> IF n > 0 THEN [t EXCEPT !.tasks[id].waits = TRUE] ELSE RestartFire(t, id)
  BY DEF RestartDecide
<1> HIDE DEF r, t, u
<1>8. Sane(t, id) /\ Alike(s, t) /\ t.tasks[id] = r /\ t.jobs = s.jobs /\ t.next = s.next
  BY <1>1, <1>4, <1>5, <1>6, UpdatedOnly
<1>9. Ready(t, id) /\ t.tasks[id].job = e.job /\ t.jobs[t.tasks[id].job] = d /\ t.tasks[id].count = n
  <2>1. Down(d, e)
    BY DEF Ready
  <2>2. Down(d, r)
    BY <2>1, <1>1, <1>2, <1>4 DEF Down
  <2> QED
    BY <2>2, <1>4, <1>8 DEF Ready, Kin
<1>10. CASE d.max >= 0 /\ n >= d.max
  <2>1. u = Fail(t, id)
    BY <1>1, <1>7, <1>10
  <2>2. Good(Fail(t, id)) /\ Alike(t, Fail(t, id))
    BY <1>9, <1>10, FailGood
  <2>3. Alike(s, u) /\ Good(u)
    BY <2>1, <2>2, <1>8, AlikeStep
  <2>4. Step(s, u)
    BY <2>3, <1>1, AlikeSmaller DEF Step, Sane
  <2> QED
    BY <2>3, <2>4 DEF u
<1>11. CASE ~(d.max >= 0 /\ n >= d.max) /\ n > 0
  <2>1. u = [t EXCEPT !.tasks[id].waits = TRUE]
    BY <1>1, <1>7, <1>11
  <2>2. Left(t.jobs[t.tasks[id].job], t.tasks[id])
    BY <1>1, <1>2, <1>9, <1>11 DEF Left
  <2>3. Good(u) /\ Alike(t, u)
    BY <1>9, <2>1, <2>2, WaitGood
  <2>4. Alike(s, u)
    BY <2>3, <1>8, AlikeStep
  <2>5. Step(s, u)
    BY <2>4, <1>1, AlikeSmaller DEF Step, Sane
  <2> QED
    BY <2>3, <2>4, <2>5 DEF u
<1>12. CASE ~(d.max >= 0 /\ n >= d.max) /\ ~(n > 0)
  <2>1. u = RestartFire(t, id)
    BY <1>1, <1>7, <1>12
  <2>2. Left(t.jobs[t.tasks[id].job], t.tasks[id])
    BY <1>1, <1>2, <1>9, <1>12 DEF Left
  <2>3. Good(u) /\ Step(t, u) /\ (~d.fits => Alike(t, u))
    BY <1>8, <1>9, <2>1, <2>2, FireGood
  <2>4. Step(s, u) /\ (~d.fits => Alike(s, u))
    BY <2>3, <1>8, AlikeStep
  <2> QED
    BY <2>3, <2>4 DEF u
<1> QED
  BY <1>10, <1>11, <1>12

\* What is left of the attempt is stopped, then the restart is decided.
LEMMA ScheduleGood ==
  ASSUME NEW s, NEW id, Sane(s, id), s.next <= MaxId, NEW earned \in BOOLEAN,
         NEW r \in Entry, NEW u, Kin(s.tasks[id], r),
         Down(s.jobs[s.tasks[id].job], r),
         u = N(s.jobs, Put(s.tasks, id, r), s.next, s.queue, s.busy, s.runner, s.open)
  PROVE  Good(ScheduleRestart(u, id, earned)) /\ Step(s, ScheduleRestart(u, id, earned))
         /\ (~s.jobs[s.tasks[id].job].fits => Alike(s, ScheduleRestart(u, id, earned)))
<1> DEFINE t == Stop(u, id)
           w == RestartDecide(t, id, earned)
<1>1. /\ IsNode(u) /\ u.jobs = s.jobs /\ u.tasks = Put(s.tasks, id, r) /\ u.next = s.next
      /\ u.queue = s.queue /\ u.busy = s.busy /\ u.runner = s.runner /\ u.open = s.open
  BY DEF N, IsNode
<1>2. t = N(s.jobs, Put(s.tasks, id, r), s.next, s.queue \ {id}, s.busy, Halt(s.runner, {id}), s.open)
  <2>1. u.runner = [x \in DOMAIN u.runner |-> u.runner[x]]
    BY <1>1 DEF Sane, Typed
  <2>2. t = N(u.jobs, u.tasks, u.next, u.queue \ {id}, u.busy, Halt(u.runner, {id}), u.open)
    BY <1>1, <2>1, StopIs
  <2> QED
    BY <2>2, <1>1
<1>3. ScheduleRestart(u, id, earned) = w
  BY DEF ScheduleRestart
<1> HIDE DEF t
<1>4. Sane(t, id) /\ Alike(s, t) /\ t.tasks[id] = r /\ t.jobs = s.jobs /\ t.next = s.next
  <2>1. Sane(t, id) /\ Alike(s, t)
    BY <1>2, UpdatedHalted
  <2>2. t.tasks = Put(s.tasks, id, r) /\ t.jobs = s.jobs /\ t.next = s.next
    BY <1>2 DEF N
  <2>3. t.tasks[id] = r
    BY <2>2 DEF Put, Sane, Typed
  <2> QED
    BY <2>1, <2>2, <2>3
<1>5. Ready(t, id) /\ t.next <= MaxId
  BY <1>4 DEF Ready, Kin
<1>6. Good(w) /\ Step(t, w) /\ (~t.jobs[t.tasks[id].job].fits => Alike(t, w))
  BY <1>5, DecideGood
<1>7. Step(s, w) /\ (~s.jobs[s.tasks[id].job].fits => Alike(s, w))
  BY <1>4, <1>6, AlikeStep DEF Kin
<1> QED
  BY <1>3, <1>6, <1>7

-----------------------------------------------------------------------------
(* Records leave, a worker is done, a job is admitted *)

Cut(s, t, ids) ==
  /\ IsNode(t) /\ t.tasks = Restrict(s.tasks, DOMAIN s.tasks \ ids) /\ t.next = s.next
  /\ t.queue = s.queue \ ids /\ t.busy = s.busy /\ t.runner = Halt(s.runner, ids) /\ t.open \in BOOLEAN
  /\ DOMAIN t.jobs \subseteq DOMAIN s.jobs /\ t.jobs = Restrict(s.jobs, DOMAIN t.jobs)
  /\ \A id \in DOMAIN s.tasks \ ids : s.tasks[id].job \in DOMAIN t.jobs

LEMMA CutGood ==
  ASSUME NEW s, NEW t, NEW ids, Good(s), Cut(s, t, ids)
  PROVE  Good(t) /\ Smaller(s, t)
<1>1. /\ DOMAIN t.tasks = DOMAIN s.tasks \ ids /\ t.tasks = [m \in DOMAIN t.tasks |-> t.tasks[m]]
      /\ \A m \in DOMAIN t.tasks : t.tasks[m] = s.tasks[m]
  BY DEF Cut, Restrict
<1>2. /\ DOMAIN t.jobs \subseteq DOMAIN s.jobs /\ t.jobs = [j \in DOMAIN t.jobs |-> s.jobs[j]]
      /\ \A j \in DOMAIN t.jobs : t.jobs[j] = s.jobs[j]
  BY DEF Cut, Restrict
<1>3. /\ DOMAIN t.runner = DOMAIN s.runner /\ t.runner = [m \in DOMAIN t.runner |-> t.runner[m]]
      /\ \A m \in DOMAIN t.runner : t.runner[m] = IF m \in ids THEN "stopping" ELSE s.runner[m]
  BY DEF Cut, Halt
<1>4. Typed(t)
  <2>0. /\ \A m \in DOMAIN s.tasks : s.tasks[m] \in Entry
        /\ \A m \in DOMAIN s.runner : s.runner[m] \in {"up", "exited", "stopping"}
        /\ \A j \in DOMAIN s.jobs : s.jobs[j] \in AllDefs
    BY DEF Good, Typed
  <2>1. t.tasks \in [DOMAIN t.tasks -> Entry]
    BY <1>1, <2>0
  <2>2. t.runner \in [DOMAIN t.runner -> {"up", "exited", "stopping"}]
    BY <1>3, <2>0
  <2>3. t.jobs \in [DOMAIN t.jobs -> AllDefs]
    BY <1>2, <2>0
  <2>4. Cardinality(DOMAIN t.tasks) <= MAX_TASKS
    <3>1. IsFiniteSet(DOMAIN s.tasks) /\ Cardinality(DOMAIN s.tasks) <= MAX_TASKS
      BY TasksFinite DEF Good, Typed
    <3>2. /\ IsFiniteSet(DOMAIN t.tasks) /\ Cardinality(DOMAIN t.tasks) <= Cardinality(DOMAIN s.tasks)
          /\ Cardinality(DOMAIN s.tasks) \in Nat /\ Cardinality(DOMAIN t.tasks) \in Nat
      BY <1>1, <3>1, FS_Subset, FS_CardinalityType
    <3> QED
      BY <3>1, <3>2, AgentAssumption
  <2>5. IsFiniteSet(DOMAIN t.jobs) /\ Cardinality(DOMAIN t.jobs) <= MAX_JOBS
    <3>1. IsFiniteSet(DOMAIN s.jobs) /\ Cardinality(DOMAIN s.jobs) <= MAX_JOBS
      BY DEF Good, Typed
    <3>2. /\ IsFiniteSet(DOMAIN t.jobs) /\ Cardinality(DOMAIN t.jobs) <= Cardinality(DOMAIN s.jobs)
          /\ Cardinality(DOMAIN s.jobs) \in Nat /\ Cardinality(DOMAIN t.jobs) \in Nat
      BY <1>2, <3>1, FS_Subset, FS_CardinalityType
    <3> QED
      BY <3>1, <3>2, AgentAssumption
  <2>6. DOMAIN t.jobs \subseteq Job /\ \A j \in DOMAIN t.jobs : t.jobs[j] \in Defs[j]
    BY <1>2 DEF Good, Typed
  <2>7. /\ t.next \in 1..(MaxId + 1) /\ DOMAIN t.tasks \subseteq 1..(t.next - 1)
        /\ DOMAIN t.runner \subseteq 1..(t.next - 1) /\ IsNode(t) /\ t.open \in BOOLEAN
    BY <1>1, <1>3 DEF Good, Typed, Cut
  <2> QED
    BY <2>1, <2>2, <2>3, <2>4, <2>5, <2>6, <2>7 DEF Typed
<1>5. Pool(t)
  <2>1. t.queue \subseteq s.queue /\ t.busy = s.busy /\ t.next = s.next
    BY DEF Cut
  <2> QED
    BY <2>1 DEF Good, Pool
<1>6. Owned(t)
  BY <1>1, <1>3 DEF Good, Owned
<1>7. OKBut(t, {})
  <2> SUFFICES ASSUME NEW m \in DOMAIN t.tasks PROVE RecOK(t, m)
    BY DEF OKBut
  <2>1. RecOK(s, m) /\ t.tasks[m] = s.tasks[m] /\ m \notin ids /\ m \in DOMAIN s.tasks
    BY <1>1 DEF Good, OKBut
  <2>2. m \in s.busy \cup s.queue => m \in t.busy \cup t.queue
    BY <2>1 DEF Cut
  <2>3. m \in DOMAIN s.runner => m \in DOMAIN t.runner /\ t.runner[m] = s.runner[m]
    BY <1>3, <2>1
  <2>4. t.tasks[m].job \in DOMAIN t.jobs /\ t.jobs[t.tasks[m].job] = s.jobs[s.tasks[m].job]
    BY <1>2, <2>1 DEF Cut
  <2> QED
    BY <2>1, <2>2, <2>3, <2>4 DEF RecOK
<1>8. Smaller(s, t)
  BY <1>1, <1>2 DEF Smaller, Same, Cut
<1>9. Priced(s) /\ Priced(t)
  BY <1>7, Opened DEF OKBut, RecOK, Priced, Budget
<1>10. Room(t)
  BY <1>4, <1>8, <1>9, RoomStep DEF Good, Step
<1> QED
  BY <1>4, <1>5, <1>6, <1>7, <1>8, <1>10 DEF Good

LEMMA RemoveAllCut ==
  ASSUME NEW s, NEW ids, Good(s)
  PROVE  Cut(s, RemoveAll(s, ids), ids) /\ RemoveAll(s, ids).jobs = s.jobs /\ RemoveAll(s, ids).open = s.open
<1> DEFINE t == RemoveAll(s, ids)
<1>1. t = N(s.jobs, Restrict(s.tasks, DOMAIN s.tasks \ ids), s.next, s.queue \ ids, s.busy,
            Halt(s.runner, ids), s.open)
  BY RemoveAllIs DEF Good, Typed
<1> HIDE DEF t
<1>2. /\ IsNode(t) /\ t.jobs = s.jobs /\ t.tasks = Restrict(s.tasks, DOMAIN s.tasks \ ids) /\ t.next = s.next
      /\ t.queue = s.queue \ ids /\ t.busy = s.busy /\ t.runner = Halt(s.runner, ids) /\ t.open = s.open
  BY <1>1 DEF N, IsNode
<1>3. s.jobs = Restrict(s.jobs, DOMAIN s.jobs) /\ s.open \in BOOLEAN
  BY DEF Good, Typed, Restrict
<1>4. \A id \in DOMAIN s.tasks : s.tasks[id].job \in DOMAIN s.jobs
  BY DEF Good, OKBut, RecOK
<1>5. Cut(s, t, ids)
  BY <1>2, <1>3, <1>4 DEF Cut
<1> QED
  BY <1>2, <1>5 DEF t

\* A worker is done with an order: the pool hands it the next one.
LEMMA DoneOK ==
  ASSUME NEW s, NEW id, Good(s), id \in s.busy
  PROVE  LET t == Done(s, id) IN
         /\ Typed(t) /\ Pool(t) /\ Owned(t) /\ OKBut(t, {id}) /\ Room(t) /\ Priced(t)
         /\ t.tasks = s.tasks /\ t.jobs = s.jobs /\ t.next = s.next /\ t.runner = s.runner /\ Alike(s, t)
<1> DEFINE b == s.busy \ {id}
           T == Taken(s.queue, b)
           v == N(s.jobs, s.tasks, s.next, s.queue, b, s.runner, s.open)
           t == Done(s, id)
<1>1. t = Dispatch(v)
  BY DoneIs DEF Good, Typed
<1>2. /\ IsNode(v) /\ v.jobs = s.jobs /\ v.tasks = s.tasks /\ v.next = s.next /\ v.queue = s.queue
      /\ v.busy = b /\ v.runner = s.runner /\ v.open = s.open
  BY FieldsOf
<1> HIDE DEF v, t
<1>3. t = N(s.jobs, s.tasks, s.next, s.queue \ T, b \cup T, s.runner, s.open)
  <2>1. Dispatch(v) = N(v.jobs, v.tasks, v.next, v.queue \ Taken(v.queue, v.busy),
                        v.busy \cup Taken(v.queue, v.busy), v.runner, v.open)
    BY <1>2, DispatchIs
  <2> QED
    BY <2>1, <1>1, <1>2
<1>4. /\ IsNode(t) /\ t.jobs = s.jobs /\ t.tasks = s.tasks /\ t.next = s.next /\ t.queue = s.queue \ T
      /\ t.busy = b \cup T /\ t.runner = s.runner /\ t.open = s.open
  BY <1>3 DEF N, IsNode
<1>5. /\ s.queue \subseteq 1..(s.next - 1) /\ s.busy \subseteq 1..(s.next - 1) /\ s.queue \cap s.busy = {}
      /\ Cardinality(s.busy) <= WORKERS /\ (s.queue # {} => Cardinality(s.busy) = WORKERS)
      /\ s.next - 1 \in Nat
  BY TasksFinite DEF Good, Pool
<1>6. Cardinality(b) = Cardinality(s.busy) - 1 /\ Cardinality(s.busy) \in Nat
  <2>1. IsFiniteSet(s.busy)
    <3> DEFINE n == s.next - 1
    <3>1. n \in Nat /\ s.busy \subseteq 1..n
      BY <1>5
    <3> HIDE DEF n
    <3>2. IsFiniteSet(1..n)
      BY <3>1, FS_Interval
    <3> QED
      BY <3>1, <3>2, FS_Subset
  <2> QED
    BY <2>1, FS_RemoveElement, FS_CardinalityType
<1>7. /\ T \subseteq s.queue
      /\ Cardinality(b \cup T) <= WORKERS
      /\ s.queue \ T # {} => Cardinality(b \cup T) = WORKERS
  <2> DEFINE n == s.next - 1
             q == s.queue
  <2>1. /\ n \in Nat /\ q \subseteq 1..n /\ b \subseteq 1..n /\ q \cap b = {}
        /\ Cardinality(b) <= WORKERS
        /\ q = {} \/ Cardinality(b) >= WORKERS - 1 \/ \E x \in q : q = {x}
    BY <1>5, <1>6, AgentAssumption
  <2> HIDE DEF n, q, b
  <2>2. LET U == Taken(q, b) IN
        /\ U \subseteq q
        /\ Cardinality(b \cup U) <= WORKERS
        /\ q \ U # {} => Cardinality(b \cup U) = WORKERS
    BY <2>1, PoolDispatch
  <2> QED
    BY <2>2 DEF q
<1> HIDE DEF T
<1>8. Typed(t)
  BY <1>4 DEF Good, Typed
<1>9. Pool(t)
  <2>1. t.queue \cap t.busy = {} /\ t.queue \subseteq 1..(t.next - 1) /\ t.busy \subseteq 1..(t.next - 1)
    BY <1>4, <1>5, <1>7
  <2> QED
    BY <2>1, <1>4, <1>7 DEF Pool
<1>10. Owned(t)
  BY <1>4 DEF Good, Owned
<1>11. OKBut(t, {id})
  <2> SUFFICES ASSUME NEW m \in DOMAIN t.tasks, m # id PROVE RecOK(t, m)
    BY DEF OKBut
  <2>1. RecOK(s, m)
    BY <1>4 DEF Good, OKBut
  <2>2. m \in s.busy \cup s.queue => m \in t.busy \cup t.queue
    BY <1>4, <1>7
  <2> QED
    BY <2>1, <2>2, <1>4 DEF RecOK
<1>12. Alike(s, t)
  BY <1>4 DEF Alike, Kin
<1>13. Priced(s) /\ Priced(t) /\ Step(s, t)
  BY <1>12, Opened, AlikeSmaller DEF Step
<1>14. Room(t)
  BY <1>8, <1>13, RoomStep DEF Good
<1> QED
  BY <1>4, <1>8, <1>9, <1>10, <1>11, <1>12, <1>13, <1>14 DEF t
\* The records that a run leaves.
Keep(s, j, replace) == DOMAIN s.tasks \ (IF replace THEN OfJob(s, j) ELSE {})

\* The records of v are those that a run leaves and a new one of job j.
Joined(s, v, j, d, replace) ==
  /\ DOMAIN v.tasks = Keep(s, j, replace) \cup {s.next}
  /\ \A m \in Keep(s, j, replace) :
       v.tasks[m].job = s.tasks[m].job /\ v.tasks[m].cpu = s.tasks[m].cpu
  /\ v.tasks[s.next].job = j /\ v.tasks[s.next].cpu = d.cpu
  /\ v.jobs = With(s.jobs, j, d)

\* can_accept: what is admitted fits.  A member that joins a pool pays nothing,
\* also when it replaces the only member there is.
LEMMA Admitted ==
  ASSUME NEW s, Good(s), NEW j \in Job, NEW d \in Defs[j], NEW replace \in BOOLEAN,
         Admit(s, j, d, replace), NEW v, Typed(v), Priced(v), Joined(s, v, j, d, replace)
  PROVE  Room(v)
<1> SUFFICES ASSUME Steady PROVE Usage(v, DOMAIN v.tasks) <= Capacity
  BY DEF Room
<1> DEFINE all == DOMAIN s.tasks
           ids == Keep(s, j, replace)
           k == s.next
           g == Groups(s)
           c == Prices(s)
           h == Groups(v)
           p == Prices(v)
<1>0. ids \subseteq all /\ k \notin all /\ DOMAIN v.tasks = ids \cup {k} /\ Typed(s) /\ Priced(s)
  BY TasksFinite, Opened DEF Keep, Joined, Good
<1>1. Usage(s, all) = Cardinality(Paid(g, c, all)) /\ IsFiniteSet(Paid(g, c, all)) /\ \A a \in all : c[a] \in Nat
  BY <1>0, UsageIs
<1>2. Usage(s, ids) = Cardinality(Paid(g, c, ids)) /\ IsFiniteSet(Paid(g, c, ids))
  BY <1>0, UsageIs
<1>3. /\ Usage(v, ids \cup {k}) = Cardinality(Paid(h, p, ids \cup {k})) /\ IsFiniteSet(Paid(h, p, ids \cup {k}))
      /\ \A a \in ids \cup {k} : p[a] \in Nat
  <2>1. DOMAIN v.tasks \in SUBSET DOMAIN v.tasks
    OBVIOUS
  <2>2. /\ Usage(v, DOMAIN v.tasks) = Cardinality(Paid(h, p, DOMAIN v.tasks)) /\ IsFiniteSet(Paid(h, p, DOMAIN v.tasks))
        /\ \A a \in DOMAIN v.tasks : p[a] \in Nat
    BY <2>1, UsageIs
  <2> QED
    BY <2>2, <1>0
<1>4. /\ Cardinality(Paid(g, c, all)) \in Nat /\ Cardinality(Paid(g, c, ids)) \in Nat
      /\ Cardinality(Paid(h, p, ids \cup {k})) \in Nat /\ Capacity \in Nat
  BY <1>1, <1>2, <1>3, FS_CardinalityType, AgentAssumption
<1>5. Cardinality(Paid(g, c, all)) <= Capacity
  BY <1>1 DEF Good, Room
<1>6. /\ d.cpu \in Nat /\ p[k] = d.cpu /\ h[k] = d.group
  <2>1. DefOK(d)
    BY AgentAssumption
  <2>2. v.tasks[k].job = j /\ v.tasks[k].cpu = d.cpu /\ j \in DOMAIN v.jobs /\ v.jobs[j] = d
    BY DEF Joined, With
  <2> QED
    BY <1>0, <2>1, <2>2 DEF DefOK, Groups, Prices, GroupOf
<1>7. \A a \in ids : h[a] = g[a] /\ p[a] = c[a]
  <2> SUFFICES ASSUME NEW a \in ids PROVE h[a] = g[a] /\ p[a] = c[a]
    OBVIOUS
  <2> DEFINE x == s.tasks[a].job
  <2>1. a \in all /\ a \in DOMAIN v.tasks /\ v.tasks[a].job = x /\ v.tasks[a].cpu = s.tasks[a].cpu
    BY <1>0 DEF Joined
  <2>2. x \in DOMAIN s.jobs
    BY <2>1, <1>0 DEF Priced
  <2>3. s.jobs[x] \in Defs[x] /\ x \in Job
    BY <2>2, <1>0 DEF Typed
  <2>4. x \in DOMAIN v.jobs /\ v.jobs[x] = IF x = j THEN d ELSE s.jobs[x]
    BY <2>2 DEF Joined, With
  <2>5. v.jobs[x].group = s.jobs[x].group
    BY <2>3, <2>4 DEF Steady
  <2> QED
    BY <2>1, <2>2, <2>4, <2>5 DEF Groups, Prices, GroupOf
<1>14. Paid(g, c, ids) \subseteq Paid(g, c, all)
  BY <1>0, <1>1, PaidFewer
<1> DEFINE joins == d.group # NoGroup /\ \E id \in DOMAIN s.tasks : GroupOf(s, id) = d.group
<1>8. d.cpu > 0 => Usage(s, ids) + (IF joins THEN 0 ELSE d.cpu) <= Capacity
  BY DEF Admit, Keep
<1>15. Cardinality(Paid(g, c, ids)) <= Cardinality(Paid(g, c, all))
  BY <1>14, <1>1, FS_Subset
<1>16. k \notin ids /\ \A a \in ids : c[a] \in Nat
  BY <1>0, <1>1
<1>17. joins => \E b \in all : g[b] = d.group /\ c[b] = d.cpu
  <2> SUFFICES ASSUME NEW b \in all, GroupOf(s, b) = d.group, d.group # NoGroup
               PROVE  g[b] = d.group /\ c[b] = d.cpu
    BY DEF joins
  <2> DEFINE x == s.tasks[b].job
  <2>1. x \in DOMAIN s.jobs /\ s.tasks[b].cpu = s.jobs[x].cpu
    BY <1>0 DEF Priced
  <2>2. s.jobs[x] \in Defs[x] /\ x \in Job /\ s.jobs[x].group = d.group
    BY <2>1, <1>0 DEF Typed, GroupOf
  <2>3. s.jobs[x].cpu = d.cpu
    BY <2>2 DEF Steady
  <2> QED
    BY <2>1, <2>3 DEF Groups, Prices
<1>18. joins => d.group # NoGroup
  BY DEF joins
<1> HIDE DEF all, ids, k, g, c, h, p, joins
<1>9. /\ Cardinality(Paid(h, p, ids \cup {k})) <= Cardinality(Paid(g, c, ids)) + p[k]
      /\ \A q \in Paid(h, p, ids \cup {k}) :
           q \in Paid(g, c, ids) \/ \E n \in 1..p[k] : q = <<Payer(h, k), n>>
  <2>1. IsFiniteSet(Paid(g, c, ids)) /\ k \notin ids /\ p[k] \in Nat
    BY <1>2, <1>3, <1>16
  <2>2. /\ \A a \in ids : c[a] \in Nat
        /\ \A a \in ids : h[a] = g[a] /\ p[a] = c[a]
    BY <1>7, <1>16
  <2>3. Cardinality(Paid(h, p, ids \cup {k})) <= Cardinality(Paid(g, c, ids)) + p[k]
    BY <2>1, <2>2, PaidMore
  <2>4. \A q \in Paid(h, p, ids \cup {k}) :
           q \in Paid(g, c, ids) \/ \E n \in 1..p[k] : q = <<Payer(h, k), n>>
    <3>1. \A a \in ids \cup {k} : p[a] \in Nat
      BY <1>3
    <3>2. \A q : q \in Paid(h, p, ids \cup {k}) <=> \E a \in ids \cup {k} : \E n \in 1..p[a] : q = <<Payer(h, a), n>>
      BY <3>1, InPaid
    <3>3. \A q : q \in Paid(g, c, ids) <=> \E a \in ids : \E n \in 1..c[a] : q = <<Payer(g, a), n>>
      BY <2>2, InPaid
    <3>4. \A a \in ids : Payer(h, a) = Payer(g, a) /\ p[a] = c[a]
      BY <2>2 DEF Payer
    <3> QED
      BY <3>2, <3>3, <3>4
  <2> QED
    BY <2>3, <2>4
<1>10. CASE d.cpu = 0 \/ ~joins
  BY <1>10, <1>2, <1>4, <1>5, <1>6, <1>8, <1>9, <1>15, <1>3, <1>0
<1>11. CASE d.cpu > 0 /\ joins
  <2>1. PICK b \in all : g[b] = d.group /\ c[b] = d.cpu
    BY <1>11, <1>17
  <2>2. Payer(h, k) = Payer(g, b)
    BY <2>1, <1>6, <1>11, <1>18 DEF Payer
  <2>3. \A n \in 1..p[k] : <<Payer(h, k), n>> \in Paid(g, c, all)
    BY <2>1, <2>2, <1>1, <1>6, InPaid
  <2>4. Paid(h, p, ids \cup {k}) \subseteq Paid(g, c, all)
    BY <2>3, <1>9, <1>14
  <2>5. Cardinality(Paid(h, p, ids \cup {k})) <= Cardinality(Paid(g, c, all))
    BY <2>4, <1>1, FS_Subset
  <2> QED
    BY <2>5, <1>3, <1>4, <1>5, <1>0
<1> QED
  BY <1>10, <1>11, <1>6

\* A new definition of a job keeps what holds of its records.
LEMMA Redefined ==
  ASSUME NEW s, Typed(s), Pool(s), Owned(s), OKBut(s, {}), NEW j \in Job, NEW d \in Defs[j],
         j \in DOMAIN s.jobs \/ Cardinality(DOMAIN s.jobs) < MAX_JOBS,
         NEW t, t = N(With(s.jobs, j, d), s.tasks, s.next, s.queue, s.busy, s.runner, s.open)
  PROVE  Typed(t) /\ Pool(t) /\ Owned(t) /\ OKBut(t, {})
<1>1. /\ IsNode(t) /\ t.jobs = With(s.jobs, j, d) /\ t.tasks = s.tasks /\ t.next = s.next
      /\ t.queue = s.queue /\ t.busy = s.busy /\ t.runner = s.runner /\ t.open = s.open
  BY DEF N, IsNode
<1>2. /\ DOMAIN t.jobs = DOMAIN s.jobs \cup {j} /\ t.jobs[j] = d
      /\ \A x \in DOMAIN s.jobs : x # j => t.jobs[x] = s.jobs[x]
      /\ t.jobs = [x \in DOMAIN t.jobs |-> t.jobs[x]]
  BY <1>1 DEF With
<1>3. \A x \in DOMAIN t.jobs : x \in Job /\ t.jobs[x] \in Defs[x]
  BY <1>2 DEF Typed
<1>4. Typed(t)
  <2>1. \A x \in DOMAIN t.jobs : t.jobs[x] \in AllDefs
    BY <1>3 DEF AllDefs
  <2>2. t.jobs \in [DOMAIN t.jobs -> AllDefs]
    BY <1>2, <2>1
  <2>3. IsFiniteSet(DOMAIN t.jobs) /\ Cardinality(DOMAIN t.jobs) <= MAX_JOBS
    <3>1. IsFiniteSet(DOMAIN s.jobs) /\ Cardinality(DOMAIN s.jobs) <= MAX_JOBS /\ Cardinality(DOMAIN s.jobs) \in Nat
      BY FS_CardinalityType DEF Typed
    <3>2. CASE j \in DOMAIN s.jobs
      <4>1. DOMAIN t.jobs = DOMAIN s.jobs
        BY <3>2, <1>2
      <4> QED
        BY <4>1, <3>1
    <3>3. CASE j \notin DOMAIN s.jobs
      <4>1. IsFiniteSet(DOMAIN s.jobs \cup {j}) /\ Cardinality(DOMAIN s.jobs \cup {j}) = Cardinality(DOMAIN s.jobs) + 1
        BY <3>1, <3>3, FS_AddElement
      <4> QED
        BY <4>1, <3>1, <3>3, <1>2, AgentAssumption
    <3> QED
      BY <3>2, <3>3
  <2> QED
    BY <1>1, <1>3, <2>2, <2>3 DEF Typed
<1>5. Pool(t) /\ Owned(t)
  BY <1>1 DEF Pool, Owned
<1>6. OKBut(t, {})
  <2> SUFFICES ASSUME NEW m \in DOMAIN t.tasks PROVE RecOK(t, m)
    BY DEF OKBut
  <2> DEFINE e == s.tasks[m]
             x == e.job
  <2>1. RecOK(s, m) /\ t.tasks[m] = e /\ m \in DOMAIN s.tasks
    BY <1>1 DEF OKBut
  <2>2. x \in DOMAIN s.jobs /\ x \in DOMAIN t.jobs /\ e \in Entry /\ (Steady => Budget(s.jobs[x], e))
    BY <2>1, <1>2 DEF RecOK, Typed
  <2>3. Steady => Budget(t.jobs[x], e)
    <3>1. CASE x # j
      BY <3>1, <2>2, <1>2
    <3>2. CASE x = j
      <4> DEFINE a == s.jobs[j]
      <4>1. a \in Defs[j] /\ DefOK(a) /\ DefOK(d)
        BY <3>2, <2>2, AgentAssumption DEF Typed
      <4>2. Steady => a.cpu = d.cpu /\ a.max = d.max /\ ((a.fits <=> d.fits) \/ a.max = 0)
        BY <4>1 DEF Steady
      <4>3. e.count \in Nat /\ a.max \in Int /\ d.max \in Int
        BY <2>2, <4>1 DEF Entry, DefOK
      <4> HIDE DEF a, e
      <4>4. Steady /\ Budget(a, e) => Budget(d, e)
        BY <4>2, <4>3 DEF Budget, Over
      <4> QED
        BY <4>4, <2>2, <3>2, <1>2 DEF a
    <3> QED
      BY <3>1, <3>2
  <2> QED
    BY <2>1, <2>2, <2>3, <1>1 DEF RecOK
<1> QED
  BY <1>4, <1>5, <1>6
\* t is s with a fresh record.
Added(s, t, j, count, first) ==
  /\ Typed(t) /\ Pool(t) /\ Owned(t) /\ OKBut(t, {s.next})
  /\ DOMAIN t.tasks = DOMAIN s.tasks \cup {s.next}
  /\ \A m \in DOMAIN s.tasks : t.tasks[m] = s.tasks[m]
  /\ t.tasks[s.next] = Fresh(j, s.jobs[j].cpu, count, first)
  /\ t.jobs = s.jobs /\ t.next = s.next + 1

LEMMA NewRecord ==
  ASSUME NEW s, Typed(s), Pool(s), Owned(s), OKBut(s, {}),
         s.next <= MaxId, Cardinality(DOMAIN s.tasks) < MAX_TASKS,
         NEW j \in DOMAIN s.jobs, NEW count \in Nat, NEW first \in BOOLEAN,
         NEW t, t = NewTask(s, j, count, first)
  PROVE  Added(s, t, j, count, first)
<1> DEFINE k == s.next
           e == Fresh(j, s.jobs[j].cpu, count, first)
<1>1. /\ IsNode(s) /\ k \in Nat \ {0} /\ k \notin DOMAIN s.tasks /\ k \in 1..MaxId
      /\ s.queue \subseteq 1..(k - 1) /\ s.busy \subseteq 1..(k - 1)
      /\ DOMAIN s.runner \subseteq 1..(k - 1) /\ DOMAIN s.tasks \subseteq 1..(k - 1)
  BY TasksFinite, AgentAssumption DEF Typed, Pool
<1>2. j \in Job /\ s.jobs[j] \in Defs[j] /\ s.jobs[j].cpu \in Nat
  BY AgentAssumption DEF Typed, DefOK
<1>3. e \in Entry
  BY <1>2 DEF Fresh, Entry, State
<1>4. t = N(s.jobs, With(s.tasks, k, e), k + 1, s.queue, s.busy, s.runner, s.open)
  BY <1>1, NewTaskIs
<1> HIDE DEF e
<1>5. /\ IsNode(t) /\ t.jobs = s.jobs /\ t.tasks = With(s.tasks, k, e) /\ t.next = k + 1
      /\ t.queue = s.queue /\ t.busy = s.busy /\ t.runner = s.runner /\ t.open = s.open
  BY <1>4 DEF N, IsNode
<1>6. /\ DOMAIN t.tasks = DOMAIN s.tasks \cup {k} /\ t.tasks[k] = e
      /\ \A m \in DOMAIN s.tasks : t.tasks[m] = s.tasks[m]
      /\ t.tasks = [m \in DOMAIN t.tasks |-> t.tasks[m]]
  BY <1>1, <1>5 DEF With
<1>7. Typed(t)
  <2>1. t.tasks \in [DOMAIN t.tasks -> Entry]
    <3>1. \A m \in DOMAIN t.tasks : t.tasks[m] \in Entry
      BY <1>6, <1>3 DEF Typed
    <3> QED
      BY <3>1, <1>6
  <2>2. t.next \in 1..(MaxId + 1) /\ DOMAIN t.tasks \subseteq 1..(t.next - 1) /\ DOMAIN t.runner \subseteq 1..(t.next - 1)
    BY <1>1, <1>5, <1>6, AgentAssumption
  <2>3. Cardinality(DOMAIN t.tasks) <= MAX_TASKS
    <3>1. Cardinality(DOMAIN s.tasks \cup {k}) = Cardinality(DOMAIN s.tasks) + 1 /\ Cardinality(DOMAIN s.tasks) \in Nat
      BY <1>1, TasksFinite, FS_AddElement, FS_CardinalityType
    <3> QED
      BY <3>1, <1>6, AgentAssumption
  <2> QED
    BY <1>5, <2>1, <2>2, <2>3 DEF Typed
<1>8. Pool(t)
  <2>1. t.queue \subseteq 1..(t.next - 1) /\ t.busy \subseteq 1..(t.next - 1)
    BY <1>1, <1>5
  <2> QED
    BY <1>5, <2>1 DEF Pool
<1>9. Owned(t)
  BY <1>5, <1>6 DEF Owned
<1>10. OKBut(t, {k})
  <2> SUFFICES ASSUME NEW m \in DOMAIN t.tasks, m # k PROVE RecOK(t, m)
    BY DEF OKBut
  <2>1. m \in DOMAIN s.tasks /\ t.tasks[m] = s.tasks[m] /\ RecOK(s, m)
    BY <1>6 DEF OKBut
  <2> QED
    BY <2>1, <1>5 DEF RecOK
<1> QED
  BY <1>5, <1>6, <1>7, <1>8, <1>9, <1>10 DEF e, Added

\* One record more, of job j and of a run.
Grown(s, t, j) ==
  /\ s.next \in DOMAIN t.tasks /\ t.tasks[s.next].job = j /\ t.tasks[s.next].first
  /\ \A m \in DOMAIN t.tasks \ {s.next} : m \in DOMAIN s.tasks /\ t.tasks[m].job = s.tasks[m].job

\* t is s without the records that a run replaces, with the job's new definition.
Cleared(s, t, j, d, replace) ==
  /\ Typed(t) /\ Pool(t) /\ Owned(t) /\ OKBut(t, {})
  /\ t.jobs = With(s.jobs, j, d) /\ t.next = s.next
  /\ DOMAIN t.tasks = Keep(s, j, replace)
  /\ \A m \in DOMAIN t.tasks : t.tasks[m] = s.tasks[m]

LEMMA ClearedBy ==
  ASSUME NEW s, Good(s), NEW j \in Job, NEW d \in Defs[j], NEW replace \in BOOLEAN,
         j \in DOMAIN s.jobs \/ Cardinality(DOMAIN s.jobs) < MAX_JOBS,
         NEW a, a = IF replace THEN RemoveAll(s, OfJob(s, j)) ELSE s,
         NEW t, t = [a EXCEPT !.jobs = With(a.jobs, j, d)]
  PROVE  Cleared(s, t, j, d, replace)
<1>1. /\ Good(a) /\ a.jobs = s.jobs /\ a.next = s.next /\ DOMAIN a.tasks = Keep(s, j, replace)
      /\ \A m \in DOMAIN a.tasks : a.tasks[m] = s.tasks[m]
  <2>1. CASE replace
    <3> DEFINE ids == OfJob(s, j)
    <3>1. Cut(s, a, ids) /\ a.jobs = s.jobs
      BY <2>1, RemoveAllCut
    <3> HIDE DEF ids
    <3>2. Good(a)
      BY <3>1, CutGood
    <3> QED
      BY <2>1, <3>1, <3>2 DEF Cut, Restrict, Keep, ids
  <2>2. CASE ~replace
    BY <2>2 DEF Keep
  <2> QED
    BY <2>1, <2>2
<1>2. t = N(With(a.jobs, j, d), a.tasks, a.next, a.queue, a.busy, a.runner, a.open)
  BY <1>1 DEF Good, Typed, IsNode, N
<1>3. Typed(t) /\ Pool(t) /\ Owned(t) /\ OKBut(t, {})
  BY <1>1, <1>2, Redefined DEF Good
<1>4. t.jobs = With(a.jobs, j, d) /\ t.tasks = a.tasks /\ t.next = a.next
  BY <1>2 DEF N
<1> QED
  BY <1>1, <1>3, <1>4 DEF Cleared

\* POST /run: the job is admitted and its first task is started, or fails at
\* once where no artifact fits the node.
LEMMA RunGood ==
  ASSUME NEW s, Good(s), NEW j \in Job, NEW d \in Defs[j], NEW replace \in BOOLEAN,
         s.next <= MaxId, Cardinality(DOMAIN s.tasks) < MAX_TASKS, Admit(s, j, d, replace),
         ~d.fits => s.next < MaxId,
         NEW t, Cleared(s, t, j, d, replace)
  PROVE  LET v == BeginStart(NewTask(t, j, 0, TRUE), s.next) IN Good(v) /\ Grown(s, v, j)
<1> DEFINE u == NewTask(t, j, 0, TRUE)
           k == s.next
           v == BeginStart(u, k)
           e == Fresh(j, d.cpu, 0, TRUE)
<1>1. /\ Typed(t) /\ Pool(t) /\ Owned(t) /\ OKBut(t, {}) /\ t.next = k /\ j \in DOMAIN t.jobs /\ t.jobs[j] = d
      /\ t.jobs = With(s.jobs, j, d) /\ DOMAIN t.tasks = Keep(s, j, replace)
      /\ \A m \in DOMAIN t.tasks : t.tasks[m] = s.tasks[m]
  BY DEF Cleared, With
<1>2. Cardinality(DOMAIN t.tasks) < MAX_TASKS
  <2>1. IsFiniteSet(DOMAIN s.tasks) /\ DOMAIN t.tasks \subseteq DOMAIN s.tasks
    BY <1>1, TasksFinite DEF Good, Keep
  <2>2. /\ IsFiniteSet(DOMAIN t.tasks) /\ Cardinality(DOMAIN t.tasks) <= Cardinality(DOMAIN s.tasks)
        /\ Cardinality(DOMAIN s.tasks) \in Nat /\ Cardinality(DOMAIN t.tasks) \in Nat
    BY <2>1, FS_Subset, FS_CardinalityType
  <2> QED
    BY <2>2, AgentAssumption
<1>3. DefOK(d) /\ d.max \in Int /\ d.fits \in BOOLEAN /\ k \in Nat \ {0} /\ k \notin DOMAIN s.tasks /\ MaxId \in Nat
  BY AgentAssumption, TasksFinite DEF DefOK, Good
<1>4. /\ Typed(u) /\ Pool(u) /\ Owned(u) /\ OKBut(u, {k})
      /\ DOMAIN u.tasks = DOMAIN t.tasks \cup {k}
      /\ \A m \in DOMAIN t.tasks : u.tasks[m] = t.tasks[m]
      /\ u.tasks[k] = e
      /\ u.jobs = t.jobs /\ u.next = k + 1
  <2> DEFINE n == 0
             f == TRUE
  <2>1. n \in Nat /\ f \in BOOLEAN /\ u = NewTask(t, j, n, f) /\ t.next <= MaxId
    BY <1>1
  <2> HIDE DEF n, f, u
  <2>2. Added(t, u, j, n, f)
    BY <1>1, <1>2, <2>1, NewRecord
  <2> QED
    BY <2>2, <1>1 DEF Added, n, f
<1>5. e.job = j /\ e.cpu = d.cpu /\ e.state = "Queued" /\ e.count = 0 /\ ~e.waits /\ e.first /\ ~e.starting /\ e.fails = 0
  BY DEF Fresh
<1>12. e \in Entry
  BY <1>4 DEF Typed
<1>6. CASE d.fits
  <2>1. v = Start(u, k)
    BY <1>4, <1>5, <1>1, <1>6 DEF BeginStart
  <2> DEFINE n == 0
             f == TRUE
  <2>2. n \in Nat /\ f \in BOOLEAN /\ v = Start(NewTask(t, j, n, f), t.next) /\ t.next <= MaxId
        /\ (Steady => (t.jobs[j].max >= 0 => n <= t.jobs[j].max))
    BY <2>1, <1>1, <1>3
  <2> HIDE DEF v, n, f
  <2>3. Launch(t, v, j, n, f)
    BY <2>2, <1>1, <1>2, Launched
  <2>4. /\ Typed(v) /\ Pool(v) /\ Owned(v) /\ OKBut(v, {})
        /\ DOMAIN v.tasks = DOMAIN t.tasks \cup {k}
        /\ \A m \in DOMAIN t.tasks : v.tasks[m] = t.tasks[m]
        /\ v.tasks[k] = Marked(e, TRUE)
        /\ v.jobs = t.jobs
    BY <2>3, <1>1 DEF Launch, n, f
  <2>5. v.tasks[k].job = j /\ v.tasks[k].cpu = d.cpu /\ v.tasks[k].first
    BY <2>4 DEF Marked, Fresh
  <2>6. Joined(s, v, j, d, replace)
    BY <2>4, <2>5, <1>1 DEF Joined
  <2>7. Priced(v)
    BY <2>4 DEF OKBut, RecOK, Priced, Budget
  <2>8. Room(v)
    BY <2>4, <2>6, <2>7, Admitted
  <2>9. Grown(s, v, j)
    BY <2>4, <2>5, <1>1, <1>3 DEF Grown, Keep
  <2> QED
    BY <2>4, <2>8, <2>9 DEF Good, v
<1>7. CASE ~d.fits
  <2> DEFINE r == [e EXCEPT !.state = "Failed"]
             x == [u EXCEPT !.tasks[k].state = "Failed"]
             earned == FALSE
             w == ScheduleRestart(x, k, earned)
  <2>1. v = w
    BY <1>4, <1>5, <1>1, <1>7 DEF BeginStart, StartFailed
  <2>2. Priced(u)
    <3>1. \A m \in DOMAIN t.tasks : RecOK(t, m)
      BY <1>1 DEF OKBut
    <3> HIDE DEF u, e
    <3> QED
      BY <3>1, <1>1, <1>4, <1>5 DEF Priced, RecOK, Budget
  <2>3. Joined(s, u, j, d, replace)
    <3> HIDE DEF u, e
    <3> QED
      BY <1>1, <1>4, <1>5 DEF Joined
  <2>4. Room(u)
    <3> HIDE DEF u
    <3> QED
      BY <1>4, <2>2, <2>3, Admitted
  <2>5. Sane(u, k)
    BY <1>4, <2>2, <2>4 DEF Sane
  <2>6. /\ r \in Entry /\ Kin(e, r) /\ r.state = "Failed" /\ ~r.waits /\ ~r.starting /\ r.count = 0
    BY <1>12 DEF Fresh, Kin, Entry, State
  <2>7. Down(d, r)
    BY <2>6, <1>3 DEF Down
  <2>8. x = N(u.jobs, Put(u.tasks, k, r), u.next, u.queue, u.busy, u.runner, u.open)
    <3>1. x = [u EXCEPT !.tasks = Put(u.tasks, k, r)]
      BY <1>4 DEF Put
    <3> HIDE DEF u, r, x
    <3> QED
      BY <3>1, <1>4 DEF Typed, IsNode, N
  <2>9. u.jobs[u.tasks[k].job] = d /\ Kin(u.tasks[k], r) /\ u.next <= MaxId /\ earned \in BOOLEAN
    <3>1. earned \in BOOLEAN
      OBVIOUS
    <3> HIDE DEF u, r, e, earned
    <3> QED
      BY <1>4, <1>5, <1>1, <1>3, <1>7, <2>6, <3>1
  <2> HIDE DEF u, r, x, earned, e, v
  <2>10. Good(w) /\ (~u.jobs[u.tasks[k].job].fits => Alike(u, w))
    BY <2>5, <2>6, <2>7, <2>8, <2>9, ScheduleGood
  <2>11. Alike(u, w)
    BY <2>10, <2>9, <1>7
  <2>12. Grown(s, w, j)
    BY <2>11, <1>1, <1>3, <1>4, <1>5 DEF Alike, Kin, Grown, Keep
  <2> QED
    BY <2>1, <2>10, <2>12 DEF v, u
<1> QED
  BY <1>3, <1>6, <1>7
-----------------------------------------------------------------------------
(* The steps of the owner that keep, restart or remove what there is *)

\* What a good state says of one record.
LEMMA RecordIs ==
  ASSUME NEW s, Good(s), NEW id \in DOMAIN s.tasks
  PROVE  LET e == s.tasks[id]
             d == s.jobs[e.job]
         IN  /\ Sane(s, id) /\ RecOK(s, id)
             /\ e \in Entry /\ e.job \in DOMAIN s.jobs /\ e.count \in Nat /\ e.fails \in Nat
             /\ e.waits \in BOOLEAN /\ e.starting \in BOOLEAN /\ e.state \in State
             /\ d.max \in Int /\ d.check \in Nat /\ (Steady => Budget(d, e))
             /\ e.state \in {"Queued", "Downloading"} =>
                  e.starting /\ ~e.waits /\ (id \in DOMAIN s.runner => s.runner[id] = "stopping")
             /\ e.state = "Running" => ~e.starting /\ ~e.waits
<1>1. Sane(s, id) /\ RecOK(s, id)
  BY Opened DEF Good, OKBut
<1>2. s.tasks[id] \in Entry /\ s.tasks[id].job \in DOMAIN s.jobs /\ DefOK(s.jobs[s.tasks[id].job])
  BY <1>1, RecordOf
<1>3. id \in DOMAIN s.runner => s.runner[id] = "stopping" \/ s.tasks[id].state = "Running"
  BY DEF Good, Owned
<1> QED
  BY <1>1, <1>2, <1>3 DEF RecOK, Entry, DefOK

\* The records stay and their processes change.
LEMMA ProcessesChange ==
  ASSUME NEW s, Good(s), NEW t, NEW p,
         t = N(s.jobs, s.tasks, s.next, s.queue, s.busy, p, s.open),
         p \in [DOMAIN p -> {"up", "exited", "stopping"}], DOMAIN p \subseteq DOMAIN s.runner,
         \A m \in DOMAIN s.runner : s.runner[m] # "stopping" => m \in DOMAIN p /\ p[m] # "stopping",
         \A m \in DOMAIN p : p[m] # "stopping" => s.runner[m] # "stopping"
  PROVE  Good(t) /\ Alike(s, t)
<1>1. /\ IsNode(t) /\ t.jobs = s.jobs /\ t.tasks = s.tasks /\ t.next = s.next
      /\ t.queue = s.queue /\ t.busy = s.busy /\ t.runner = p /\ t.open = s.open
  BY DEF N, IsNode
<1>2. Typed(t) /\ Pool(t)
  BY <1>1 DEF Good, Typed, Pool
<1>3. Owned(t)
  BY <1>1 DEF Good, Owned
<1>4. OKBut(t, {})
  BY <1>1 DEF Good, OKBut, RecOK
<1>5. Alike(s, t)
  BY <1>1 DEF Alike, Kin
<1>6. Priced(s) /\ Priced(t) /\ Step(s, t)
  BY <1>5, Opened, AlikeSmaller DEF Step
<1>7. Room(t)
  BY <1>2, <1>6, RoomStep DEF Good
<1> QED
  BY <1>2, <1>3, <1>4, <1>5, <1>7 DEF Good

LEMMA ProgressGood ==
  ASSUME NEW s, Good(s), NEW id \in DOMAIN s.tasks, s.tasks[id].state \in {"Queued", "Downloading"},
         NEW t, t = [s EXCEPT !.tasks[id].state = "Downloading"]
  PROVE  Good(t) /\ Alike(s, t)
<1> DEFINE e == s.tasks[id]
           r == [e EXCEPT !.state = "Downloading"]
<1>1. /\ Sane(s, id) /\ RecOK(s, id) /\ e \in Entry /\ e.count \in Nat
      /\ (id \in DOMAIN s.runner => s.runner[id] = "stopping") /\ e.starting /\ ~e.waits
      /\ (Steady => Budget(s.jobs[e.job], e)) /\ id \in s.busy \cup s.queue
  BY RecordIs DEF RecOK
<1>2. r \in Entry /\ Kin(e, r) /\ r.state = "Downloading" /\ r.count = e.count /\ r.starting /\ ~r.waits
  BY <1>1 DEF Entry, Kin, State
<1>3. t = N(s.jobs, Put(s.tasks, id, r), s.next, s.queue, s.busy, s.runner, s.open)
  <2>1. t = [s EXCEPT !.tasks = Put(s.tasks, id, r)]
    BY DEF Put
  <2> HIDE DEF r
  <2> QED
    BY <2>1, <1>1 DEF Sane, Typed, IsNode, N
<1> HIDE DEF r
<1>4. Sane(t, id) /\ Alike(s, t)
  BY <1>1, <1>2, <1>3, UpdatedOnly
<1>5. t.tasks = Put(s.tasks, id, r) /\ t.jobs = s.jobs /\ t.queue = s.queue /\ t.busy = s.busy
  BY <1>3 DEF N
<1>6. t.tasks[id] = r
  BY <1>5, <1>1 DEF Put, Sane, Typed
<1>7. RecOK(t, id)
  <2>1. Steady => Budget(s.jobs[e.job], r)
    BY <1>1, <1>2 DEF Budget, Kin
  <2> QED
    BY <1>1, <1>2, <1>5, <1>6, <2>1 DEF RecOK, Kin
<1> QED
  BY <1>4, <1>7, Closed

LEMMA DueGood ==
  ASSUME NEW s, Good(s), s.next <= MaxId, NEW id \in DOMAIN s.tasks, s.tasks[id].waits,
         NEW t, t = [s EXCEPT !.tasks[id].waits = FALSE]
  PROVE  Good(RestartFire(t, id)) /\ Step(s, RestartFire(t, id))
<1> DEFINE e == s.tasks[id]
           d == s.jobs[e.job]
           r == [e EXCEPT !.waits = FALSE]
<1>1. /\ Sane(s, id) /\ RecOK(s, id) /\ e \in Entry /\ e.count \in Nat /\ d.max \in Int
      /\ (Steady => Budget(d, e)) /\ e.state \in {"Stopping", "Failed"} /\ ~e.starting
  BY RecordIs DEF RecOK, State
<1>2. r \in Entry /\ Kin(e, r) /\ r.state = e.state /\ r.count = e.count /\ ~r.starting /\ ~r.waits
  BY <1>1 DEF Entry, Kin
<1>3. t = N(s.jobs, Put(s.tasks, id, r), s.next, s.queue, s.busy, s.runner, s.open)
  <2>1. t = [s EXCEPT !.tasks = Put(s.tasks, id, r)]
    BY DEF Put
  <2> HIDE DEF r
  <2> QED
    BY <2>1, <1>1 DEF Sane, Typed, IsNode, N
<1>8. id \in DOMAIN s.runner => s.runner[id] = "stopping"
  BY <1>1 DEF Good, Owned
<1>9. Down(d, r) /\ Left(d, r)
  <2> HIDE DEF r
  <2> QED
    BY <1>1, <1>2 DEF Down, Left, Budget
<1> HIDE DEF r
<1>4. Sane(t, id) /\ Alike(s, t)
  BY <1>1, <1>2, <1>3, <1>8, UpdatedOnly
<1>5. t.tasks = Put(s.tasks, id, r) /\ t.jobs = s.jobs /\ t.next = s.next
  BY <1>3 DEF N
<1>6. t.tasks[id] = r
  BY <1>5, <1>1 DEF Put, Sane, Typed
<1>7. Ready(t, id) /\ Left(t.jobs[t.tasks[id].job], t.tasks[id]) /\ t.next <= MaxId
  BY <1>2, <1>4, <1>5, <1>6, <1>9 DEF Ready, Kin
<1>10. Good(RestartFire(t, id)) /\ Step(t, RestartFire(t, id))
  BY <1>7, FireGood
<1> QED
  BY <1>4, <1>10, AlikeStep

\* A running task is down or unhealthy.
LEMMA CrashGood ==
  ASSUME NEW s, Good(s), s.next <= MaxId, NEW id \in DOMAIN s.tasks, s.tasks[id].state = "Running",
         NEW st \in {"Stopping", "Failed"}, NEW earned \in BOOLEAN,
         NEW t, t = [s EXCEPT !.tasks[id].state = st, !.tasks[id].fails = 0]
  PROVE  Good(ScheduleRestart(t, id, earned)) /\ Step(s, ScheduleRestart(t, id, earned))
<1> DEFINE e == s.tasks[id]
           d == s.jobs[e.job]
           f == [e EXCEPT !.state = st]
           r == [f EXCEPT !.fails = 0]
           a == Put(s.tasks, id, f)
           u == [s EXCEPT !.tasks = a]
<1>1. /\ Sane(s, id) /\ RecOK(s, id) /\ e \in Entry /\ e.count \in Nat /\ d.max \in Int
      /\ (Steady => Budget(d, e)) /\ ~e.starting /\ ~e.waits
  BY RecordIs
<1>2. f = E(e, st, e.count, e.waits, e.starting, e.fails)
  BY <1>1, EntryIs DEF E
<1>3. r = E(e, st, e.count, e.waits, e.starting, 0)
  <2> HIDE DEF f
  <2> QED
    BY <1>2 DEF E
<1>4. r \in Entry /\ Kin(e, r) /\ r.state = st /\ r.count = e.count /\ ~r.starting /\ ~r.waits
  <2> DEFINE z == 0
  <2>1. st \in State /\ e.count \in Nat /\ e.waits \in BOOLEAN /\ e.starting \in BOOLEAN /\ z \in Nat
    BY <1>1 DEF Entry, State
  <2>2. r = E(e, st, e.count, e.waits, e.starting, z)
    BY <1>3
  <2> HIDE DEF r, e, z
  <2>3. Changed(e, r, st, e.count, e.waits, e.starting)
    BY <1>1, <2>1, <2>2, EntryOf
  <2> QED
    BY <2>3, <1>1 DEF Changed
<1>5. u = N(s.jobs, a, s.next, s.queue, s.busy, s.runner, s.open)
  <2> HIDE DEF a
  <2> QED
    BY <1>1 DEF Sane, Typed, IsNode, N
<1>6. DOMAIN s.tasks = DOMAIN a /\ a[id] = f /\ [a EXCEPT ![id] = r] = Put(s.tasks, id, r)
  <2> HIDE DEF f, r
  <2> QED
    BY DEF Put
<1>7. t = [u EXCEPT !.tasks[id].fails = 0]
  BY DEF Put
<1>8. t = N(s.jobs, Put(s.tasks, id, r), s.next, s.queue, s.busy, s.runner, s.open)
  <2>1. u.tasks = a
    BY <1>5 DEF N
  <2> DEFINE b == [a EXCEPT ![id] = r]
  <2>2. [u EXCEPT !.tasks[id].fails = 0] = [u EXCEPT !.tasks = b]
    <3> HIDE DEF u, a, f
    <3> QED
      BY <2>1, <1>6
  <2>3. b = Put(s.tasks, id, r)
    BY <1>6
  <2> HIDE DEF u, b
  <2>4. [u EXCEPT !.tasks = b] = N(s.jobs, b, s.next, s.queue, s.busy, s.runner, s.open)
    BY <1>5 DEF N
  <2> QED
    BY <1>7, <2>2, <2>3, <2>4
<1>9. Down(d, r)
  <2> HIDE DEF r
  <2> QED
    BY <1>1, <1>4 DEF Down, Budget
<1> HIDE DEF r
<1> QED
  BY <1>1, <1>4, <1>8, <1>9, ScheduleGood

LEMMA FailsGood ==
  ASSUME NEW s, Good(s), NEW id \in DOMAIN s.tasks, s.tasks[id].state = "Running",
         NEW n \in Nat, NEW t, t = [s EXCEPT !.tasks[id].fails = n]
  PROVE  Good(t) /\ Alike(s, t)
<1> DEFINE e == s.tasks[id]
           r == [e EXCEPT !.fails = n]
<1>1. /\ Sane(s, id) /\ RecOK(s, id) /\ e \in Entry /\ e.count \in Nat /\ ~e.starting /\ ~e.waits
      /\ (Steady => Budget(s.jobs[e.job], e))
  BY RecordIs
<1>2. /\ r \in Entry /\ Kin(e, r) /\ r.state = "Running" /\ r.count = e.count
      /\ ~r.starting /\ ~r.waits
  BY <1>1 DEF Entry, Kin
<1>3. t = N(s.jobs, Put(s.tasks, id, r), s.next, s.queue, s.busy, s.runner, s.open)
  <2>1. t = [s EXCEPT !.tasks = Put(s.tasks, id, r)]
    BY DEF Put
  <2> HIDE DEF r
  <2> QED
    BY <2>1, <1>1 DEF Sane, Typed, IsNode, N
<1> HIDE DEF r
<1>4. Sane(t, id) /\ Alike(s, t)
  BY <1>1, <1>2, <1>3, UpdatedOnly
<1>5. t.tasks = Put(s.tasks, id, r) /\ t.jobs = s.jobs /\ t.runner = s.runner
  BY <1>3 DEF N
<1>6. t.tasks[id] = r
  BY <1>5, <1>1 DEF Put, Sane, Typed
<1>7. RecOK(t, id)
  <2>1. Steady => Budget(s.jobs[e.job], r)
    BY <1>1, <1>2 DEF Budget, Kin
  <2> QED
    BY <1>1, <1>2, <1>5, <1>6, <2>1 DEF RecOK, Kin
<1> QED
  BY <1>4, <1>7, Closed
\* A worker is done with a start that nobody waits for.
LEMMA DoneIdle ==
  ASSUME NEW s, Good(s), NEW id \in s.busy, id \notin DOMAIN s.tasks \/ ~s.tasks[id].starting
  PROVE  Good(Done(s, id)) /\ Alike(s, Done(s, id))
<1> DEFINE t == Done(s, id)
<1>1. /\ Typed(t) /\ Pool(t) /\ Owned(t) /\ OKBut(t, {id}) /\ Room(t)
      /\ t.tasks = s.tasks /\ t.jobs = s.jobs /\ t.runner = s.runner /\ Alike(s, t)
  BY DoneOK
<1>2. id \in DOMAIN t.tasks => RecOK(t, id)
  <2> SUFFICES ASSUME id \in DOMAIN s.tasks PROVE RecOK(t, id)
    BY <1>1
  <2>1. RecOK(s, id) /\ ~s.tasks[id].starting
    BY RecordIs
  <2> HIDE DEF t
  <2> QED
    BY <2>1, <1>1 DEF RecOK
<1> HIDE DEF t
<1>3. Good(t)
  BY <1>1, <1>2 DEF Good, OKBut
<1> QED
  BY <1>1, <1>3 DEF t

\* A worker is done with a start that the agent waits for.
DoneState(s, v, id) ==
  /\ Sane(v, id) /\ Alike(s, v) /\ v.next = s.next
  /\ id \in DOMAIN v.runner => v.runner[id] = "stopping"
  /\ v.tasks[id].state \in {"Queued", "Downloading"} /\ ~v.tasks[id].waits /\ ~v.tasks[id].starting
  /\ Steady => Budget(v.jobs[v.tasks[id].job], v.tasks[id])

LEMMA DoneStarting ==
  ASSUME NEW s, Good(s), NEW id \in s.busy, id \in DOMAIN s.tasks, s.tasks[id].starting,
         NEW t, t = Done(s, id), NEW v, v = [t EXCEPT !.tasks[id].starting = FALSE]
  PROVE  DoneState(s, v, id)
<1> DEFINE e == s.tasks[id]
           r == Marked(e, FALSE)
<1>1. /\ Typed(t) /\ Pool(t) /\ Owned(t) /\ OKBut(t, {id}) /\ Room(t) /\ Priced(t)
      /\ t.tasks = s.tasks /\ t.jobs = s.jobs /\ t.next = s.next /\ t.runner = s.runner /\ Alike(s, t)
  BY DoneOK
<1>2. /\ e \in Entry /\ e.count \in Nat /\ e.state \in {"Queued", "Downloading"} /\ ~e.waits
      /\ (id \in DOMAIN s.runner => s.runner[id] = "stopping")
      /\ (Steady => Budget(s.jobs[e.job], e))
  BY RecordIs DEF RecOK, State
<1>3. Sane(t, id)
  BY <1>1 DEF Sane
<1>4. r \in Entry /\ Kin(e, r) /\ r.state = e.state /\ r.count = e.count /\ ~r.starting /\ ~r.waits
  BY <1>2 DEF Entry, Kin, Marked
<1>5. v = N(t.jobs, Put(t.tasks, id, r), t.next, t.queue, t.busy, t.runner, t.open)
  <2>1. v = [t EXCEPT !.tasks = Put(t.tasks, id, r)]
    BY <1>1 DEF Put, Marked
  <2> HIDE DEF r
  <2> QED
    BY <2>1, <1>1 DEF Typed, IsNode, N
<1>11. Kin(t.tasks[id], r) /\ (id \in DOMAIN t.runner => t.runner[id] = "stopping")
  BY <1>1, <1>2, <1>4
<1> HIDE DEF r
<1>6. Sane(v, id) /\ Alike(t, v)
  BY <1>3, <1>4, <1>5, <1>11, UpdatedOnly
<1>7. v.tasks = Put(t.tasks, id, r) /\ v.jobs = t.jobs /\ v.runner = t.runner /\ v.next = t.next
  BY <1>5 DEF N
<1>8. v.tasks[id] = r
  BY <1>7, <1>1 DEF Put
<1>9. Alike(s, v)
  BY <1>1, <1>6, AlikeStep
<1>10. Steady => Budget(s.jobs[e.job], r)
  BY <1>2, <1>4 DEF Budget, Kin
<1> QED
  BY ZenonT(30), <1>1, <1>2, <1>4, <1>6, <1>7, <1>8, <1>9, <1>10 DEF DoneState, Kin

\* ... and its process is up.
LEMMA UpGood ==
  ASSUME NEW s, Good(s), NEW id \in DOMAIN s.tasks, NEW v, DoneState(s, v, id),
         NEW w, w = [v EXCEPT !.tasks[id].state = "Running", !.runner = With(v.runner, id, "up")]
  PROVE  Good(w) /\ Alike(s, w)
<1> DEFINE e == v.tasks[id]
           r == [e EXCEPT !.state = "Running"]
           p == With(v.runner, id, "up")
           a == Put(v.tasks, id, r)
           u == [v EXCEPT !.tasks = a]
<1>1. /\ Sane(v, id) /\ Alike(s, v) /\ (id \in DOMAIN v.runner => v.runner[id] = "stopping")
      /\ e.state \in {"Queued", "Downloading"} /\ ~e.waits /\ ~e.starting
      /\ (Steady => Budget(v.jobs[e.job], e)) /\ e \in Entry /\ e.count \in Nat /\ e.job \in DOMAIN v.jobs
      /\ IsNode(v) /\ Typed(v) /\ id \in DOMAIN v.tasks
  BY RecordOf DEF DoneState, Sane, Typed
<1>2. r \in Entry /\ Kin(e, r) /\ r.state = "Running" /\ r.count = e.count /\ ~r.starting /\ ~r.waits
  BY <1>1 DEF Entry, Kin, State
<1>3. u = N(v.jobs, a, v.next, v.queue, v.busy, v.runner, v.open)
  <2> HIDE DEF a
  <2> QED
    BY <1>1 DEF IsNode, N
<1>4. w = [u EXCEPT !.runner = p]
  BY DEF Put
<1>5. w = N(v.jobs, a, v.next, v.queue, v.busy, p, v.open)
  <2> HIDE DEF u, a, p
  <2> QED
    BY <1>3, <1>4 DEF N
<1> HIDE DEF r
<1>6. Sane(u, id) /\ Alike(v, u)
  BY <1>1, <1>2, <1>3, UpdatedOnly
<1>7. /\ u.jobs = v.jobs /\ u.tasks = a /\ u.next = v.next /\ u.queue = v.queue
      /\ u.busy = v.busy /\ u.runner = v.runner /\ u.open = v.open
  <2> HIDE DEF u, a
  <2> QED
    BY <1>3 DEF N
<1>8. /\ IsNode(w) /\ w.jobs = v.jobs /\ w.tasks = a /\ w.next = v.next /\ w.queue = v.queue
      /\ w.busy = v.busy /\ w.runner = p /\ w.open = v.open
  <2> HIDE DEF a, p
  <2> DEFINE z == N(v.jobs, a, v.next, v.queue, v.busy, p, v.open)
  <2>1. /\ IsNode(z) /\ z.jobs = v.jobs /\ z.tasks = a /\ z.next = v.next /\ z.queue = v.queue
        /\ z.busy = v.busy /\ z.runner = p /\ z.open = v.open
    BY DEF N, IsNode
  <2>2. w = z
    BY <1>5
  <2> HIDE DEF z
  <2> QED
    BY <2>1, <2>2, Zenon
<1>9. DOMAIN a = DOMAIN v.tasks /\ a[id] = r
  BY <1>1 DEF Put, Typed
<1>10. /\ DOMAIN p = DOMAIN v.runner \cup {id} /\ p[id] = "up"
       /\ \A m \in DOMAIN v.runner : m # id => p[m] = v.runner[m]
       /\ p = [m \in DOMAIN p |-> p[m]]
  BY DEF With
<1> HIDE DEF u, a, p
<1>11. Typed(w)
  <2>1. p \in [DOMAIN p -> {"up", "exited", "stopping"}]
    <3>1. \A m \in DOMAIN p : p[m] \in {"up", "exited", "stopping"}
      BY <1>10, <1>1 DEF Typed
    <3> QED
      BY <3>1, <1>10
  <2>2. DOMAIN p \subseteq 1..(v.next - 1)
    BY <1>1, <1>10 DEF Typed
  <2>3. Typed(u)
    BY <1>6 DEF Sane
  <2> QED
    BY <1>7, <1>8, <2>1, <2>2, <2>3 DEF Typed
<1>12. Pool(w)
  BY <1>6, <1>7, <1>8 DEF Sane, Pool
<1>13. Owned(w)
  BY <1>1, <1>2, <1>6, <1>7, <1>8, <1>9, <1>10 DEF Sane, Owned
<1>14. OKBut(w, {})
  <2> SUFFICES ASSUME NEW m \in DOMAIN w.tasks PROVE RecOK(w, m)
    BY DEF OKBut
  <2>1. CASE m = id
    <3>1. Steady => Budget(v.jobs[e.job], r)
      BY <1>1, <1>2 DEF Budget, Kin
    <3> QED
      BY <2>1, <3>1, <1>1, <1>2, <1>8, <1>9, <1>10 DEF RecOK, Kin
  <2>2. CASE m # id
    <3>1. RecOK(u, m)
      BY <2>2, <1>6, <1>7, <1>8 DEF Sane, OKBut
    <3>2. m \in DOMAIN v.runner => m \in DOMAIN p /\ p[m] = v.runner[m]
      BY <2>2, <1>10
    <3> QED
      BY <3>1, <3>2, <1>7, <1>8 DEF RecOK
  <2> QED
    BY <2>1, <2>2
<1>15. Alike(u, w)
  BY <1>7, <1>8 DEF Alike, Kin
<1>16. Alike(s, w)
  BY <1>1, <1>6, <1>15, AlikeStep
<1>17. Priced(u) /\ Priced(w) /\ Step(u, w) /\ Typed(u) /\ Room(u)
  BY <1>6, <1>15, AlikeSmaller DEF Sane, Step
<1>18. Room(w)
  BY <1>11, <1>17, RoomStep
<1> QED
  BY <1>11, <1>12, <1>13, <1>14, <1>16, <1>18 DEF Good

LEMMA RefusedGood ==
  ASSUME NEW s, Good(s), NEW id \in DOMAIN s.tasks, NEW v, DoneState(s, v, id)
  PROVE  Good(Forget(v, id)) /\ Step(s, Forget(v, id))
<1> DEFINE t == Forget(v, id)
<1>1. Sane(v, id) /\ Alike(s, v) /\ (id \in DOMAIN v.runner => v.runner[id] = "stopping")
  BY DEF DoneState
<1>2. /\ Typed(t) /\ Pool(t) /\ Owned(t) /\ OKBut(t, {}) /\ Priced(t) /\ Smaller(v, t)
  BY <1>1, Forgotten
<1> HIDE DEF t
<1>3. Step(v, t) /\ Step(s, t)
  BY <1>1, <1>2, AlikeStep DEF Step
<1>4. Room(t)
  BY <1>1, <1>2, <1>3, RoomStep DEF Sane
<1> QED
  BY <1>2, <1>3, <1>4 DEF Good, t

LEMMA FailedGood ==
  ASSUME NEW s, Good(s), s.next <= MaxId, NEW id \in DOMAIN s.tasks, NEW v, DoneState(s, v, id)
  PROVE  Good(StartFailed(v, id)) /\ Step(s, StartFailed(v, id))
<1> DEFINE e == v.tasks[id]
           r == [e EXCEPT !.state = "Failed"]
           x == [v EXCEPT !.tasks[id].state = "Failed"]
           earned == FALSE
           w == ScheduleRestart(x, id, earned)
<1>1. /\ Sane(v, id) /\ Alike(s, v) /\ v.next = s.next
      /\ ~e.waits /\ ~e.starting
      /\ (Steady => Budget(v.jobs[e.job], e)) /\ e \in Entry /\ e.count \in Nat
      /\ IsNode(v)
  BY RecordOf DEF DoneState, Sane, Typed
<1>2. r \in Entry /\ Kin(e, r) /\ r.state = "Failed" /\ r.count = e.count /\ ~r.starting /\ ~r.waits
  BY <1>1 DEF Entry, Kin, State
<1>3. x = N(v.jobs, Put(v.tasks, id, r), v.next, v.queue, v.busy, v.runner, v.open)
  <2>1. x = [v EXCEPT !.tasks = Put(v.tasks, id, r)]
    BY DEF Put
  <2> HIDE DEF r, x
  <2> QED
    BY <2>1, <1>1 DEF IsNode, N
<1>4. Down(v.jobs[e.job], r)
  <2> HIDE DEF r
  <2> QED
    BY <1>1, <1>2 DEF Down, Budget
<1>5. StartFailed(v, id) = w /\ earned \in BOOLEAN
  BY DEF StartFailed
<1> HIDE DEF r, x, earned
<1>6. Good(w) /\ Step(v, w)
  BY <1>1, <1>2, <1>3, <1>4, <1>5, ScheduleGood
<1> QED
  BY <1>1, <1>5, <1>6, AlikeStep

\* Removals: of one task, of a job's tasks with or without the job, of all.
LEMMA StopTaskGood ==
  ASSUME NEW s, Good(s), NEW id \in DOMAIN s.tasks
  PROVE  Good(RemoveAndStop(s, id)) /\ Smaller(s, RemoveAndStop(s, id))
<1> DEFINE u == Forget(s, id)
           t == Stop(u, id)
           x == Restrict(s.tasks, DOMAIN s.tasks \ {id})
<1>1. u = N(s.jobs, x, s.next, s.queue, s.busy, s.runner, s.open)
  BY ForgetIs DEF Good, Typed
<1>2. /\ IsNode(u) /\ u.jobs = s.jobs /\ u.tasks = x /\ u.next = s.next
      /\ u.queue = s.queue /\ u.busy = s.busy /\ u.runner = s.runner /\ u.open = s.open
  <2> HIDE DEF u, x
  <2> QED
    BY <1>1 DEF N, IsNode
<1>3. u.runner = [m \in DOMAIN u.runner |-> u.runner[m]]
  BY <1>2 DEF Good, Typed
<1>4. t = N(s.jobs, x, s.next, s.queue \ {id}, s.busy, Halt(s.runner, {id}), s.open)
  <2> HIDE DEF u, x
  <2>1. t = N(u.jobs, u.tasks, u.next, u.queue \ {id}, u.busy, Halt(u.runner, {id}), u.open)
    BY <1>2, <1>3, StopIs
  <2> QED
    BY <2>1, <1>2
<1>5. /\ IsNode(t) /\ t.jobs = s.jobs /\ t.tasks = x /\ t.next = s.next /\ t.queue = s.queue \ {id}
      /\ t.busy = s.busy /\ t.runner = Halt(s.runner, {id}) /\ t.open = s.open
  <2> HIDE DEF t, x
  <2> QED
    BY <1>4 DEF N, IsNode
<1> DEFINE ids == {id}
<1>6. Cut(s, t, ids)
  <2>1. s.jobs = Restrict(s.jobs, DOMAIN s.jobs) /\ s.open \in BOOLEAN
    BY DEF Good, Typed, Restrict
  <2>2. \A m \in DOMAIN s.tasks : s.tasks[m].job \in DOMAIN s.jobs
    BY DEF Good, OKBut, RecOK
  <2> HIDE DEF t
  <2> QED
    BY <1>5, <2>1, <2>2 DEF Cut
<1> HIDE DEF t, ids
<1>7. Good(t) /\ Smaller(s, t)
  BY <1>6, CutGood
<1> QED
  BY <1>7 DEF t, RemoveAndStop

LEMMA DeleteGood ==
  ASSUME NEW s, Good(s), NEW j \in DOMAIN s.jobs, NEW u, u = RemoveAll(s, OfJob(s, j)),
         NEW t, t = [u EXCEPT !.jobs = Restrict(u.jobs, DOMAIN u.jobs \ {j})]
  PROVE  Good(t) /\ Smaller(s, t)
<1> DEFINE ids == OfJob(s, j)
           x == Restrict(s.jobs, DOMAIN s.jobs \ {j})
<1>1. Cut(s, u, ids) /\ u.jobs = s.jobs
  BY RemoveAllCut
<1>2. t = N(x, u.tasks, u.next, u.queue, u.busy, u.runner, u.open)
  <2>1. t = [u EXCEPT !.jobs = x]
    BY <1>1
  <2> HIDE DEF x
  <2> QED
    BY <1>1, <2>1 DEF Cut, IsNode, N
<1>3. /\ IsNode(t) /\ t.jobs = x /\ t.tasks = u.tasks /\ t.next = u.next /\ t.queue = u.queue
      /\ t.busy = u.busy /\ t.runner = u.runner /\ t.open = u.open
  <2> HIDE DEF x
  <2> DEFINE z == N(x, u.tasks, u.next, u.queue, u.busy, u.runner, u.open)
  <2>1. /\ IsNode(z) /\ z.jobs = x /\ z.tasks = u.tasks /\ z.next = u.next /\ z.queue = u.queue
        /\ z.busy = u.busy /\ z.runner = u.runner /\ z.open = u.open
    BY DEF N, IsNode
  <2>2. t = z
    BY <1>2
  <2> HIDE DEF z
  <2> QED
    BY <2>1, <2>2, Zenon
<1>4. DOMAIN x = DOMAIN s.jobs \ {j} /\ x = Restrict(s.jobs, DOMAIN x)
  BY DEF Restrict
<1>5. \A m \in DOMAIN s.tasks \ ids : s.tasks[m].job \in DOMAIN s.jobs /\ s.tasks[m].job # j
  BY DEF Good, OKBut, RecOK, OfJob
<1> HIDE DEF ids, x
<1>6. Cut(s, t, ids)
  BY <1>1, <1>3, <1>4, <1>5 DEF Cut
<1> QED
  BY <1>6, CutGood

LEMMA StopAllGood ==
  ASSUME NEW s, Good(s), NEW o \in BOOLEAN, NEW u, u = RemoveAll(s, DOMAIN s.tasks),
         NEW t, t = [u EXCEPT !.open = o]
  PROVE  Good(t) /\ Smaller(s, t)
<1> DEFINE ids == DOMAIN s.tasks
<1>1. Cut(s, u, ids)
  BY RemoveAllCut
<1>2. t = N(u.jobs, u.tasks, u.next, u.queue, u.busy, u.runner, o)
  BY <1>1 DEF Cut, IsNode, N
<1>3. /\ IsNode(t) /\ t.jobs = u.jobs /\ t.tasks = u.tasks /\ t.next = u.next /\ t.queue = u.queue
      /\ t.busy = u.busy /\ t.runner = u.runner /\ t.open = o
  BY <1>2 DEF N, IsNode
<1> HIDE DEF ids
<1>4. Cut(s, t, ids)
  BY <1>1, <1>3 DEF Cut
<1> QED
  BY <1>4, CutGood
-----------------------------------------------------------------------------
(* The agent's steps together *)

LEMMA SameStep ==
  ASSUME NEW s, Good(s)
  PROVE  Step(s, s) /\ \A t : Alike(s, t) => Step(s, t)
<1>1. Priced(s) /\ Alike(s, s)
  BY Opened DEF Alike, Kin
<1> QED
  BY <1>1, AlikeSmaller DEF Step

LEMMA RunsGood ==
  ASSUME Good(node), NEW j \in Job, NEW d \in Defs[j], NEW replace \in BOOLEAN, Run(j, d, replace)
  PROVE  Good(node') /\ Grown(node, node', j)
<1> DEFINE a == IF replace THEN RemoveAll(node, OfJob(node, j)) ELSE node
           t == [a EXCEPT !.jobs = With(a.jobs, j, d)]
<1>1. /\ node.next <= MaxId /\ Cardinality(DOMAIN node.tasks) < MAX_TASKS
      /\ j \in DOMAIN node.jobs \/ Cardinality(DOMAIN node.jobs) < MAX_JOBS
      /\ Admit(node, j, d, replace) /\ (~d.fits => node.next < MaxId)
  BY DEF Run, HasId
<1>2. node' = BeginStart(NewTask(t, j, 0, TRUE), node.next)
  BY DEF Run, With
<1>3. Cleared(node, t, j, d, replace)
  <2>1. a = IF replace THEN RemoveAll(node, OfJob(node, j)) ELSE node
    OBVIOUS
  <2>2. t = [a EXCEPT !.jobs = With(a.jobs, j, d)]
    OBVIOUS
  <2> HIDE DEF a, t
  <2> QED
    BY <1>1, <2>1, <2>2, ClearedBy
<1> HIDE DEF t
<1>4. LET v == BeginStart(NewTask(t, j, 0, TRUE), node.next) IN Good(v) /\ Grown(node, v, j)
  BY <1>1, <1>3, RunGood
<1> QED
  BY <1>2, <1>4

LEMMA PreparesGood ==
  ASSUME Good(node), NEW id, NEW outcome \in {"ok", "nocapacity", "failed"}, Prepared(id, outcome)
  PROVE  Good(node') /\ Step(node, node')
<1> DEFINE s == Done(node, id)
           t == [s EXCEPT !.tasks[id].starting = FALSE]
<1>1. id \in node.busy /\ node.next <= MaxId
  BY DEF Prepared, HasId
<1>2. s.tasks = node.tasks
  BY <1>1, DoneOK
<1>3. CASE id \notin DOMAIN node.tasks \/ ~node.tasks[id].starting
  <2>1. node' = s
    BY <1>2, <1>3 DEF Prepared
  <2> QED
    BY <2>1, <1>1, <1>3, DoneIdle, SameStep
<1>4. CASE id \in DOMAIN node.tasks /\ node.tasks[id].starting
  <2>1. DoneState(node, t, id)
    <3>1. s = Done(node, id) /\ t = [s EXCEPT !.tasks[id].starting = FALSE]
      OBVIOUS
    <3> HIDE DEF s, t
    <3> QED
      BY <3>1, <1>1, <1>4, DoneStarting
  <2>2. /\ outcome = "ok" => node' = [t EXCEPT !.tasks[id].state = "Running", !.runner = With(t.runner, id, "up")]
        /\ outcome = "nocapacity" => node' = Forget(t, id)
        /\ outcome = "failed" => node' = StartFailed(t, id)
    BY <1>2, <1>4 DEF Prepared, With
  <2> HIDE DEF s, t
  <2>3. CASE outcome = "ok"
    <3> DEFINE w == [t EXCEPT !.tasks[id].state = "Running", !.runner = With(t.runner, id, "up")]
    <3>1. w = [t EXCEPT !.tasks[id].state = "Running", !.runner = With(t.runner, id, "up")]
      OBVIOUS
    <3>2. node' = w
      BY <2>2, <2>3
    <3> HIDE DEF w
    <3>3. Good(w) /\ Alike(node, w)
      BY <3>1, <2>1, <1>4, UpGood
    <3>4. Step(node, w)
      BY <3>3, SameStep
    <3> QED
      BY <3>2, <3>3, <3>4
  <2>4. CASE outcome = "nocapacity"
    BY <2>1, <2>2, <2>4, <1>4, RefusedGood
  <2>5. CASE outcome = "failed"
    BY <2>1, <2>2, <2>5, <1>1, <1>4, FailedGood
  <2> QED
    BY <2>3, <2>4, <2>5
<1> QED
  BY <1>3, <1>4

LEMMA PollsGood ==
  ASSUME IInv, NEW id \in Id, NEW earned \in BOOLEAN, Poll(id, earned)
  PROVE  IInv' /\ Step(node, node')
<1>1. Good(node) /\ probes \in Seq(Id) /\ node.next <= MaxId /\ id \in DOMAIN node.tasks /\ node.tasks[id].state = "Running"
  BY DEF IInv, Poll, HasId
<1>2. CASE id \in DOMAIN node.runner /\ node.runner[id] = "up"
  <2>1. node' = node /\ probes' = Append(probes, id)
    BY <1>2 DEF Poll
  <2>2. probes' \in Seq(Id)
    BY <2>1, <1>1
  <2>3. Step(node, node)
    BY <1>1, SameStep
  <2> QED
    BY <1>1, <2>1, <2>2, <2>3 DEF IInv
<1>3. CASE ~(id \in DOMAIN node.runner /\ node.runner[id] = "up")
  <2> DEFINE st == "Stopping"
             t == [node EXCEPT !.tasks[id].state = st, !.tasks[id].fails = 0]
             w == ScheduleRestart(t, id, earned)
  <2>1. node' = w /\ probes' = probes
    BY <1>3 DEF Poll, Crashed
  <2>2. st \in {"Stopping", "Failed"} /\ t = [node EXCEPT !.tasks[id].state = st, !.tasks[id].fails = 0]
    OBVIOUS
  <2> HIDE DEF st, t
  <2>3. Good(w) /\ Step(node, w)
    BY <1>1, <2>2, CrashGood
  <2> QED
    BY <1>1, <2>1, <2>3 DEF IInv
<1> QED
  BY <1>2, <1>3

LEMMA ProbesGood ==
  ASSUME IInv, NEW healthy \in BOOLEAN, NEW earned \in BOOLEAN, OnProbe(healthy, earned)
  PROVE  IInv' /\ Step(node, node')
<1> DEFINE id == Head(probes)
           fails == IF healthy THEN 0 ELSE node.tasks[id].fails + 1
<1>1. Good(node) /\ probes \in Seq(Id) /\ node.next <= MaxId /\ probes # <<>> /\ probes' = Tail(probes)
  BY DEF IInv, OnProbe, HasId
<1>2. probes' \in Seq(Id)
  BY <1>1
<1>3. CASE id \notin DOMAIN node.tasks \/ node.tasks[id].state # "Running"
  <2>1. node' = node
    BY <1>3 DEF OnProbe
  <2> QED
    BY <2>1, <1>1, <1>2, SameStep DEF IInv
<1>4. CASE id \in DOMAIN node.tasks /\ node.tasks[id].state = "Running"
  <2>1. fails \in Nat
    BY <1>1, <1>4, RecordIs
  <2>2. CASE fails > 0 /\ fails >= node.jobs[node.tasks[id].job].check
    <3> DEFINE st == "Failed"
               t == [node EXCEPT !.tasks[id].state = st, !.tasks[id].fails = 0]
               w == ScheduleRestart(t, id, earned)
    <3>1. node' = w
      BY <1>4, <2>2 DEF OnProbe, Crashed
    <3>2. st \in {"Stopping", "Failed"} /\ t = [node EXCEPT !.tasks[id].state = st, !.tasks[id].fails = 0]
      OBVIOUS
    <3> HIDE DEF st, t, id
    <3>3. Good(w) /\ Step(node, w)
      BY <1>1, <1>4, <3>2, CrashGood
    <3> QED
      BY <1>2, <3>1, <3>3 DEF IInv
  <2>3. CASE ~(fails > 0 /\ fails >= node.jobs[node.tasks[id].job].check)
    <3> DEFINE t == [node EXCEPT !.tasks[id].fails = fails]
    <3>1. node' = t
      BY <1>4, <2>3 DEF OnProbe
    <3>2. t = [node EXCEPT !.tasks[id].fails = fails]
      OBVIOUS
    <3> HIDE DEF t, id, fails
    <3>3. Good(t) /\ Alike(node, t)
      BY <1>1, <1>4, <2>1, <3>2, FailsGood
    <3>4. Step(node, t)
      BY <1>1, <3>3, SameStep
    <3> QED
      BY <1>2, <3>1, <3>3, <3>4 DEF IInv
  <2> QED
    BY <2>2, <2>3
<1> QED
  BY <1>3, <1>4
\* What is said of a step that is not a run.
Quiet == Good(node') /\ probes' \in Seq(Id) /\ Step(node, node')

LEMMA RemovesGood ==
  ASSUME IInv, \/ \E id \in Id : StopTask(id)
               \/ \E j \in Job : StopJobTasks(j) \/ DeleteJob(j)
               \/ \E closes \in BOOLEAN : StopAll(closes)
  PROVE  Quiet
<1>1. Good(node) /\ probes \in Seq(Id)
  BY DEF IInv
<1>2. ASSUME NEW id \in Id, StopTask(id) PROVE Quiet
  BY <1>1, <1>2, StopTaskGood DEF StopTask, Quiet, Step
<1>3. ASSUME NEW j \in Job, StopJobTasks(j) PROVE Quiet
  <2> DEFINE ids == OfJob(node, j)
             t == RemoveAll(node, ids)
  <2>1. node' = t /\ probes' = probes
    BY <1>3 DEF StopJobTasks
  <2> HIDE DEF ids
  <2>2. Cut(node, t, ids)
    BY <1>1, RemoveAllCut
  <2>3. Good(t) /\ Smaller(node, t)
    BY <1>1, <2>2, CutGood
  <2> QED
    BY <1>1, <2>1, <2>3 DEF Quiet, Step
<1>4. ASSUME NEW j \in Job, DeleteJob(j) PROVE Quiet
  <2> DEFINE u == RemoveAll(node, OfJob(node, j))
             t == [u EXCEPT !.jobs = Restrict(u.jobs, DOMAIN u.jobs \ {j})]
  <2>1. node' = t /\ probes' = probes /\ j \in DOMAIN node.jobs
    BY <1>4 DEF DeleteJob
  <2>2. u = RemoveAll(node, OfJob(node, j)) /\ t = [u EXCEPT !.jobs = Restrict(u.jobs, DOMAIN u.jobs \ {j})]
    OBVIOUS
  <2> HIDE DEF u, t
  <2>3. Good(t) /\ Smaller(node, t)
    BY <1>1, <2>1, <2>2, DeleteGood
  <2> QED
    BY <1>1, <2>1, <2>3 DEF Quiet, Step
<1>5. ASSUME NEW closes \in BOOLEAN, StopAll(closes) PROVE Quiet
  <2> DEFINE u == RemoveAll(node, DOMAIN node.tasks)
             o == ~closes
             t == [u EXCEPT !.open = o]
  <2>1. node' = t /\ probes' = probes /\ o \in BOOLEAN
    BY <1>5 DEF StopAll
  <2>2. u = RemoveAll(node, DOMAIN node.tasks) /\ t = [u EXCEPT !.open = o]
    OBVIOUS
  <2> HIDE DEF u, t, o
  <2>3. Good(t) /\ Smaller(node, t)
    BY <1>1, <2>1, <2>2, StopAllGood
  <2> QED
    BY <1>1, <2>1, <2>3 DEF Quiet, Step
<1> QED
  BY <1>2, <1>3, <1>4, <1>5

LEMMA ProcessesGood ==
  ASSUME IInv, NEW id \in Id, Exits(id) \/ Finished(id)
  PROVE  Quiet
<1>1. Good(node) /\ probes \in Seq(Id) /\ IsNode(node) /\ probes' = probes
  BY DEF IInv, Good, Typed, Exits, Finished
<1>2. node.runner \in [DOMAIN node.runner -> {"up", "exited", "stopping"}] /\ id \in DOMAIN node.runner
  BY <1>1 DEF Good, Typed, Exits, Finished
<1>3. CASE Exits(id)
  <2> DEFINE p == [node.runner EXCEPT ![id] = "exited"]
             t == N(node.jobs, node.tasks, node.next, node.queue, node.busy, p, node.open)
  <2>1. node' = t /\ node.runner[id] = "up"
    <3>1. node' = [node EXCEPT !.runner = p] /\ node.runner[id] = "up"
      BY <1>3 DEF Exits
    <3> HIDE DEF p
    <3> QED
      BY <3>1, <1>1 DEF IsNode, N
  <2>2. /\ p \in [DOMAIN p -> {"up", "exited", "stopping"}] /\ DOMAIN p = DOMAIN node.runner
        /\ p[id] = "exited" /\ \A m \in DOMAIN p : m # id => p[m] = node.runner[m]
    BY <1>2
  <2>3. t = N(node.jobs, node.tasks, node.next, node.queue, node.busy, p, node.open)
    OBVIOUS
  <2> HIDE DEF p, t
  <2>4. /\ \A m \in DOMAIN node.runner : node.runner[m] # "stopping" => m \in DOMAIN p /\ p[m] # "stopping"
        /\ \A m \in DOMAIN p : p[m] # "stopping" => node.runner[m] # "stopping"
    BY <2>1, <2>2
  <2>5. Good(t) /\ Alike(node, t)
    BY <1>1, <2>2, <2>3, <2>4, ProcessesChange
  <2> QED
    BY <1>1, <2>1, <2>5, SameStep DEF Quiet
<1>4. CASE Finished(id)
  <2> DEFINE p == Restrict(node.runner, DOMAIN node.runner \ {id})
             t == N(node.jobs, node.tasks, node.next, node.queue, node.busy, p, node.open)
  <2>1. node' = t /\ node.runner[id] = "stopping"
    <3>1. node' = [node EXCEPT !.runner = p] /\ node.runner[id] = "stopping"
      BY <1>4 DEF Finished
    <3> HIDE DEF p
    <3> QED
      BY <3>1, <1>1 DEF IsNode, N
  <2>2. /\ p \in [DOMAIN p -> {"up", "exited", "stopping"}] /\ DOMAIN p = DOMAIN node.runner \ {id}
        /\ \A m \in DOMAIN p : p[m] = node.runner[m]
    BY <1>2 DEF Restrict
  <2>3. t = N(node.jobs, node.tasks, node.next, node.queue, node.busy, p, node.open)
    OBVIOUS
  <2> HIDE DEF p, t
  <2>4. /\ \A m \in DOMAIN node.runner : node.runner[m] # "stopping" => m \in DOMAIN p /\ p[m] # "stopping"
        /\ \A m \in DOMAIN p : p[m] # "stopping" => node.runner[m] # "stopping"
        /\ DOMAIN p \subseteq DOMAIN node.runner
    BY <2>1, <2>2
  <2>5. Good(t) /\ Alike(node, t)
    BY <1>1, <2>2, <2>3, <2>4, ProcessesChange
  <2> QED
    BY <1>1, <2>1, <2>5, SameStep DEF Quiet
<1> QED
  BY <1>3, <1>4

LEMMA StepsGood ==
  ASSUME IInv, Next
  PROVE  IInv' /\ (Step(node, node') \/ \E j \in Job : Grown(node, node', j))
<1>1. Good(node) /\ probes \in Seq(Id)
  BY DEF IInv
<1>2. ASSUME NEW j \in Job, NEW d \in Defs[j], NEW replace \in BOOLEAN, Run(j, d, replace)
      PROVE  IInv' /\ Grown(node, node', j)
  <2>1. probes' = probes
    BY <1>2 DEF Run
  <2> QED
    BY <1>1, <1>2, <2>1, RunsGood DEF IInv
<1>3. ASSUME NEW id \in Id, Progress(id)
      PROVE  Quiet
  <2> DEFINE t == [node EXCEPT !.tasks[id].state = "Downloading"]
  <2>1. node' = t /\ probes' = probes /\ id \in DOMAIN node.tasks /\ node.tasks[id].state \in {"Queued", "Downloading"}
    BY <1>3 DEF Progress
  <2>2. t = [node EXCEPT !.tasks[id].state = "Downloading"]
    OBVIOUS
  <2> HIDE DEF t
  <2>3. Good(t) /\ Alike(node, t)
    BY <1>1, <2>1, <2>2, ProgressGood
  <2> QED
    BY <1>1, <2>1, <2>3, SameStep DEF Quiet
<1>4. ASSUME NEW id \in Id, RestartDue(id)
      PROVE  Quiet
  <2> DEFINE t == [node EXCEPT !.tasks[id].waits = FALSE]
  <2>1. /\ node' = RestartFire(t, id) /\ probes' = probes /\ node.next <= MaxId
        /\ id \in DOMAIN node.tasks /\ node.tasks[id].waits
    BY <1>4 DEF RestartDue, HasId
  <2>2. t = [node EXCEPT !.tasks[id].waits = FALSE]
    OBVIOUS
  <2> HIDE DEF t
  <2>3. Good(RestartFire(t, id)) /\ Step(node, RestartFire(t, id))
    BY <1>1, <2>1, <2>2, DueGood
  <2> QED
    BY <1>1, <2>1, <2>3 DEF Quiet
<1>5. ASSUME NEW id \in Id, NEW outcome \in {"ok", "nocapacity", "failed"}, Prepared(id, outcome)
      PROVE  Quiet
  <2>1. probes' = probes
    BY <1>5 DEF Prepared
  <2> QED
    BY <1>1, <1>5, <2>1, PreparesGood DEF Quiet
<1>6. ASSUME NEW id \in Id, NEW earned \in BOOLEAN, Poll(id, earned)
      PROVE  Quiet
  BY <1>6, PollsGood DEF Quiet, IInv
<1>7. ASSUME NEW healthy \in BOOLEAN, NEW earned \in BOOLEAN, OnProbe(healthy, earned)
      PROVE  Quiet
  BY <1>7, ProbesGood DEF Quiet, IInv
<1>8. ASSUME NEW id \in Id, Exits(id) \/ Finished(id)
      PROVE  Quiet
  BY <1>8, ProcessesGood
<1>9. Quiet => IInv' /\ Step(node, node')
  BY DEF Quiet, IInv
<1>10. ASSUME NEW id \in Id, StopTask(id) PROVE Quiet
  BY <1>10, RemovesGood
<1>11. ASSUME NEW j \in Job, StopJobTasks(j) \/ DeleteJob(j) PROVE Quiet
  BY <1>11, RemovesGood
<1>12. ASSUME NEW closes \in BOOLEAN, StopAll(closes) PROVE Quiet
  BY <1>12, RemovesGood
<1> QED
  BY <1>2, <1>3, <1>4, <1>5, <1>6, <1>7, <1>8, <1>9, <1>10, <1>11, <1>12 DEF Next

LEMMA Starts ==
  ASSUME Init
  PROVE  IInv
<1> DEFINE s == node
<1>0. s = N(<<>>, <<>>, 1, {}, {}, <<>>, TRUE) /\ probes = <<>>
  BY DEF Init, N
<1>1. /\ IsNode(s) /\ s.jobs = <<>> /\ s.tasks = <<>> /\ s.next = 1 /\ s.queue = {} /\ s.busy = {}
      /\ s.runner = <<>> /\ s.open = TRUE
  BY <1>0 DEF N, IsNode
<1>2. DOMAIN s.jobs = {} /\ DOMAIN s.tasks = {} /\ DOMAIN s.runner = {}
  BY <1>1
<1>3. Cardinality({}) = 0 /\ IsFiniteSet({})
  BY FS_EmptySet
<1>4. Typed(s)
  <2>1. s.jobs \in [DOMAIN s.jobs -> AllDefs] /\ s.tasks \in [DOMAIN s.tasks -> Entry]
        /\ s.runner \in [DOMAIN s.runner -> {"up", "exited", "stopping"}]
    BY <1>1, <1>2
  <2>2. s.open \in BOOLEAN
    BY <1>1
  <2>3. /\ s.next \in 1..(MaxId + 1) /\ Cardinality(DOMAIN s.jobs) <= MAX_JOBS /\ IsFiniteSet(DOMAIN s.jobs)
        /\ Cardinality(DOMAIN s.tasks) <= MAX_TASKS
    BY <1>1, <1>2, <1>3, AgentAssumption
  <2>4. /\ DOMAIN s.jobs \subseteq Job /\ \A j \in DOMAIN s.jobs : s.jobs[j] \in Defs[j]
        /\ DOMAIN s.tasks \subseteq 1..(s.next - 1) /\ DOMAIN s.runner \subseteq 1..(s.next - 1)
    BY <1>2
  <2>5. IsNode(s)
    BY <1>1
  <2> HIDE DEF s
  <2> QED
    BY <2>1, <2>2, <2>3, <2>4, <2>5 DEF Typed
<1>5. Pool(s) /\ Owned(s) /\ OKBut(s, {})
  BY <1>1, <1>2, <1>3, AgentAssumption DEF Pool, Owned, OKBut
<1>6. Room(s)
  <2> SUFFICES ASSUME Steady PROVE Usage(s, {}) <= Capacity
    BY <1>2 DEF Room
  <2>1. Usage(s, {}) = Cardinality({})
    BY DEF Usage
  <2> QED
    BY <2>1, <1>3, AgentAssumption
<1>7. probes \in Seq(Id)
  BY <1>0
<1> HIDE DEF s
<1>8. Good(s)
  BY <1>4, <1>5, <1>6 DEF Good
<1> QED
  BY <1>7, <1>8 DEF IInv, s

-----------------------------------------------------------------------------
(* What the invariant says *)

\* The records reserve no more than the node has, and no job is beyond its budget.
Limits ==
  /\ Usage(node, DOMAIN node.tasks) <= Capacity
  /\ \A id \in DOMAIN node.tasks :
       LET e == node.tasks[id]
       IN  node.jobs[e.job].max >= 0 => e.count <= node.jobs[e.job].max

LEMMA IInvSays ==
  ASSUME IInv
  PROVE  AgentInv /\ (Steady => Limits)
<1>1. Typed(node) /\ Pool(node) /\ Owned(node) /\ OKBut(node, {}) /\ Room(node) /\ probes \in Seq(Id)
  BY DEF IInv, Good
<1>2. \A id \in DOMAIN node.tasks : RecOK(node, id) /\ node.tasks[id] \in Entry
  BY <1>1 DEF OKBut, Typed
<1>3. TypeOK
  <2>1. /\ DOMAIN node.tasks \subseteq Id /\ node.queue \subseteq Id /\ node.busy \subseteq Id
        /\ \A id \in DOMAIN node.tasks : id < node.next
    BY <1>1, AgentAssumption DEF Typed, Pool, Id
  <2> QED
    BY <1>1, <1>2, <2>1 DEF TypeOK, Typed, Pool, AllDefs
<1>4. NoOrphan
  BY <1>1 DEF Owned, NoOrphan
<1>5. \A id : id \in node.busy \cup node.queue => UnderWay(id)
  BY <1>1 DEF Pool, UnderWay
<1>6. Steady => Limits
  BY <1>1, <1>2 DEF Room, Limits, RecOK, Budget
<1>7. NothingStuck
  <2> SUFFICES ASSUME NEW id \in DOMAIN node.tasks
               PROVE  LET e == node.tasks[id] IN
                      /\ e.job \in DOMAIN node.jobs
                      /\ CASE e.state = "Running" -> id \in DOMAIN node.runner /\ ~e.starting
                           [] e.state \in {"Queued", "Downloading"} -> e.starting /\ UnderWay(id)
                           [] e.state \in {"Stopping", "Failed"} -> (e.waits \/ GivenUp(e)) /\ ~e.starting
    BY DEF NothingStuck
  <2> DEFINE e == node.tasks[id]
  <2>1. RecOK(node, id) /\ e.state \in State
    BY <1>2 DEF Entry
  <2>2. e.state \in {"Stopping", "Failed"} => (e.waits \/ GivenUp(e)) /\ ~e.starting
    BY <2>1 DEF RecOK, GivenUp
  <2>3. e.state \in {"Queued", "Downloading"} => e.starting /\ UnderWay(id)
    BY <2>1, <1>5 DEF RecOK
  <2>4. e.job \in DOMAIN node.jobs /\ (e.state = "Running" => id \in DOMAIN node.runner /\ ~e.starting)
    BY <2>1 DEF RecOK
  <2> QED
    BY <2>1, <2>2, <2>3, <2>4 DEF State
<1> QED
  BY <1>3, <1>4, <1>6, <1>7 DEF AgentInv

\* A swap or a removal gives no job more records.
LEMMA StepNoMore ==
  ASSUME NEW s, NEW t, Typed(s), Typed(t), Step(s, t), NEW j
  PROVE  ~(Cardinality(OfJob(t, j)) > Cardinality(OfJob(s, j)))
<1> DEFINE A == OfJob(s, j)
           B == OfJob(t, j)
<1>1. /\ IsFiniteSet(DOMAIN s.tasks) /\ A \subseteq DOMAIN s.tasks /\ s.next \notin DOMAIN s.tasks
      /\ IsFiniteSet(A) /\ IsFiniteSet(DOMAIN t.tasks) /\ B \subseteq DOMAIN t.tasks /\ IsFiniteSet(B)
  <2>1. A \subseteq DOMAIN s.tasks /\ B \subseteq DOMAIN t.tasks
    BY DEF OfJob
  <2> QED
    BY <2>1, TasksFinite, FS_Subset
<1>2. Cardinality(A) \in Nat /\ Cardinality(B) \in Nat
  BY <1>1, FS_CardinalityType
<1>3. B \subseteq A => Cardinality(B) <= Cardinality(A)
  BY <1>1, FS_Subset
<1>4. CASE Smaller(s, t)
  <2>1. B \subseteq A
    BY <1>4 DEF Smaller, Same, OfJob
  <2> QED
    BY <2>1, <1>2, <1>3
<1>5. ASSUME NEW id, Swap(s, t, id)
      PROVE  ~(Cardinality(B) > Cardinality(A))
  <2>1. /\ id \in DOMAIN s.tasks /\ DOMAIN t.tasks = (DOMAIN s.tasks \ {id}) \cup {s.next}
        /\ \A m \in DOMAIN s.tasks \ {id} : t.tasks[m].job = s.tasks[m].job
        /\ t.tasks[s.next].job = s.tasks[id].job
    BY <1>5 DEF Swap, Same
  <2>2. CASE s.tasks[id].job # j
    <3>1. B \subseteq A
      BY <2>1, <2>2 DEF OfJob
    <3> QED
      BY <3>1, <1>2, <1>3
  <2>3. CASE s.tasks[id].job = j
    <3> DEFINE C == A \ {id}
               k == s.next
    <3>1. id \in A /\ B = C \cup {k} /\ k \notin C
      BY <1>1, <2>1, <2>3 DEF OfJob
    <3> HIDE DEF A, B, C, k
    <3>2. Cardinality(C) = Cardinality(A) - 1 /\ IsFiniteSet(C)
      BY <3>1, <1>1, FS_RemoveElement DEF C
    <3>3. Cardinality(B) = Cardinality(C) + 1
      BY <3>1, <3>2, FS_AddElement
    <3> QED
      BY <3>2, <3>3, <1>2
  <2> QED
    BY <2>2, <2>3
<1> QED
  BY <1>4, <1>5 DEF Step

-----------------------------------------------------------------------------
(* The theorems *)

LEMMA AgentInductive == Spec => []IInv
<1>1. Init => IInv
  BY Starts
<1>2. IInv /\ [Next]_vars => IInv'
  <2>1. ASSUME IInv, UNCHANGED vars PROVE IInv'
    BY <2>1 DEF vars, IInv
  <2> QED
    BY <2>1, StepsGood
<1> QED
  BY <1>1, <1>2, PTL DEF Spec

\* Whatever definitions a leader sends for a job, in whatever order probes,
\* polls, stops and late outcomes come: no process of the runner is left without
\* a record, and no record is stuck.
THEOREM AgentSafe == Spec => []AgentInv
<1>1. IInv => AgentInv
  BY IInvSays
<1> QED
  BY <1>1, AgentInductive, PTL

\* Where no update changes a job's reservation, pool or budget, the records fit
\* the node and no job is restarted beyond its budget.
LEMMA SteadyLimits == Steady => (Spec => []Limits)
<1> SUFFICES ASSUME Steady PROVE Spec => []Limits
  OBVIOUS
<1>1. IInv => Limits
  BY IInvSays
<1> QED
  BY <1>1, AgentInductive, PTL

\* A job gets more records only by a run of the leader: a restart, however it
\* comes about, replaces one record by one.
THEOREM AgentGrows == Spec => GrowsOnlyByRun
<1> DEFINE More == \A j \in Job : Cardinality(OfJob(node', j)) > Cardinality(OfJob(node, j))
                     => \E id \in OfJob(node', j) \ OfJob(node, j) : node'.tasks[id].first
<1>1. IInv /\ [Next]_vars => [More]_vars
  <2> SUFFICES ASSUME IInv, Next, NEW j \in Job, Cardinality(OfJob(node', j)) > Cardinality(OfJob(node, j))
               PROVE  \E id \in OfJob(node', j) \ OfJob(node, j) : node'.tasks[id].first
    OBVIOUS
  <2>1. IInv' /\ (Step(node, node') \/ \E i \in Job : Grown(node, node', i))
    BY StepsGood
  <2>2. Typed(node) /\ Typed(node')
    BY <2>1 DEF IInv, Good
  <2>3. ~Step(node, node')
    BY <2>2, StepNoMore
  <2>4. PICK i \in Job : Grown(node, node', i)
    BY <2>1, <2>3
  <2> DEFINE A == OfJob(node, j)
             B == OfJob(node', j)
             k == node.next
  <2>5. k \notin DOMAIN node.tasks /\ IsFiniteSet(DOMAIN node.tasks) /\ A \subseteq DOMAIN node.tasks
    BY <2>2, TasksFinite DEF OfJob
  <2>6. CASE i = j
    BY <2>4, <2>5, <2>6 DEF Grown, OfJob
  <2>7. CASE i # j
    <3>1. B \subseteq A
      BY <2>4, <2>7 DEF Grown, OfJob
    <3>2. IsFiniteSet(A)
      BY <2>5, FS_Subset
    <3> HIDE DEF A, B
    <3>3. IsFiniteSet(B) /\ Cardinality(B) <= Cardinality(A) /\ Cardinality(A) \in Nat /\ Cardinality(B) \in Nat
      BY <3>1, <3>2, FS_Subset, FS_CardinalityType
    <3>4. Cardinality(B) > Cardinality(A)
      BY DEF A, B
    <3> QED
      BY <3>3, <3>4
  <2> QED
    BY <2>6, <2>7
<1> QED
  BY <1>1, AgentInductive, PTL DEF Spec, GrowsOnlyByRun
=============================================================================
