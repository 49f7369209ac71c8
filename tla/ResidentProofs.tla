--------------------------- MODULE ResidentProofs ---------------------------
(***************************************************************************)
(* Resident, proved: whatever order requests, pieces of images, polls,     *)
(* failures, hand-overs, stops and resets come in, the runner's books fit  *)
(* the kernel's slots, every app that runs is owned, and no step takes a   *)
(* slot from an app that is not to stop.                                   *)
(*                                                                         *)
(* A handler of the owner makes a new state and kernel of those it finds,  *)
(* call by call.  So the invariant is one of a state and a kernel, less    *)
(* the tasks that the handler is not done with (SoundBut), and each lemma  *)
(* about a call says what it leaves of it.                                 *)
(***************************************************************************)
EXTENDS Resident, SequenceTheorems, FiniteSetTheorems, WellFoundedInduction, TLAPS

-----------------------------------------------------------------------------
(* The inductive invariant, of an owner's state h and a kernel k *)

Loading == [seq : Nat \ {0}, task : Id, sent : BOOLEAN, placed : {None} \cup Slot]

HopOf(phase, boots, nextId, nextSeq, jobs, r, loads, cages, inUse, downloads, mistaken) ==
  [phase |-> phase, boots |-> boots, nextId |-> nextId, nextSeq |-> nextSeq, jobs |-> jobs, rec |-> r,
   loads |-> loads, cages |-> cages, inUse |-> inUse, downloads |-> downloads, mistaken |-> mistaken]

IsHop(h) ==
  h = HopOf(h.phase, h.boots, h.nextId, h.nextSeq, h.jobs, h.rec, h.loads, h.cages, h.inUse, h.downloads, h.mistaken)

IsKern(k) ==
  /\ k = [slots |-> k.slots, state |-> k.state, fresh |-> k.fresh]
  /\ k.state = [jobs |-> k.state.jobs, tasks |-> k.state.tasks]

Given(h) == 1..(h.nextId - 1)

HopTyped(h) ==
  /\ IsHop(h)
  /\ h.phase \in {"boot", "sweep", "up", "leaving"} /\ h.boots \in 0..MaxBoots
  /\ h.nextId \in 1..(MaxId + 1) /\ h.nextSeq \in Nat \ {0} /\ h.jobs \subseteq Job /\ h.mistaken \subseteq Id
  /\ h.rec \in [DOMAIN h.rec -> Record] /\ DOMAIN h.rec \subseteq Given(h)
  /\ h.cages \in [DOMAIN h.cages -> Cage] /\ DOMAIN h.cages \subseteq Given(h)
  /\ h.loads \in Seq(Loading)
  /\ \A i \in DOMAIN h.loads : h.loads[i].task \in Given(h) /\ h.loads[i].seq < h.nextSeq
  /\ h.inUse \in [DOMAIN h.inUse -> Id] /\ DOMAIN h.inUse \subseteq Slot

KernTyped(h, k) ==
  /\ IsKern(k)
  /\ k.slots \in [Slot -> SlotRec]
  /\ k.state.jobs \subseteq Job
  /\ k.state.tasks \in [DOMAIN k.state.tasks -> Record] /\ DOMAIN k.state.tasks \subseteq Given(h)

\* A cage has a slot once its image begins, and no two have the same.
CageBooks(h) ==
  /\ \A s \in DOMAIN h.inUse : h.inUse[s] \in DOMAIN h.cages /\ h.cages[h.inUse[s]].slot = s
  /\ \A id \in DOMAIN h.cages :
       /\ h.cages[id].phase = "Queued" => h.cages[id].slot = None
       /\ h.cages[id].phase # "Queued" =>
            h.cages[id].slot \in DOMAIN h.inUse /\ h.inUse[h.cages[id].slot] = id

\* One image streams at a time.
OneStream(h) ==
  /\ \A i, j \in Streams(h) : i = j
  /\ h.downloads = IF Streams(h) = {} THEN 0 ELSE 1

\* What the kernel has in the slot of a cage.
SlotsFit(h, k) ==
  /\ \A s \in Slot : k.slots[s].on => k.slots[s].state = "Running"
  /\ \A id \in DOMAIN h.cages :
       LET c == h.cages[id] IN
       /\ c.phase = "Streaming" =>
            /\ k.slots[c.slot].state = "Streaming" /\ k.slots[c.slot].task = id
            /\ k.slots[c.slot].got = c.done /\ c.done < SIZE
       /\ c.phase = "Armed" => k.slots[c.slot].state = "Running" /\ (id \notin h.mistaken => k.slots[c.slot].task = id)

\* Each load has a task of its own, and knows the slot of its cage.
LoadsApart(h) ==
  /\ \A i, j \in DOMAIN h.loads : h.loads[i].task = h.loads[j].task => i = j
  /\ \A i \in DOMAIN h.loads :
       LET t == h.loads[i].task IN
       h.loads[i].placed # None /\ t \in DOMAIN h.cages =>
         h.cages[t].phase = "Armed" /\ h.cages[t].slot = h.loads[i].placed

\* A record that is being loaded has a cage, and so has one that runs; an image
\* streams for the first load.  Not of the tasks of X, which a handler is not done with.
TasksFit(h, X) ==
  /\ \A i \in DOMAIN h.loads :
       LET t == h.loads[i].task IN
       t \in DOMAIN h.rec \ X => h.rec[t].state = "Starting" /\ t \in DOMAIN h.cages
  /\ \A id \in DOMAIN h.rec \ X :
       /\ h.rec[id].state = "Running" =>
            /\ h.rec[id].pid # None /\ id \in DOMAIN h.cages
            /\ h.cages[id].phase = "Armed" /\ h.cages[id].slot = h.rec[id].pid
       /\ h.rec[id].waits => h.rec[id].state = "Failed"
  /\ \A id \in Streams(h) \ X : h.loads # <<>> /\ h.loads[1].task = id

\* What runs on a node that serves is in a slot of some cage.
AppsCaged(h, k) ==
  h.phase \in {"up", "leaving"} => \A s \in Slot : k.slots[s].on => s \in DOMAIN h.inUse

\* The first of ids is recorded in slot s.
FirstHas(r, ids, s) ==
  \E id \in ids : (\A x \in ids : id <= x) /\ id \in DOMAIN r /\ r[id].pid = s

\* The state that the next Hop finds, and what it has taken over of it.
SavedFits(h, k) ==
  /\ \A id \in DOMAIN k.state.tasks : k.state.tasks[id].state = "Running" => k.state.tasks[id].pid # None
  /\ h.phase = "boot" => h.loads = <<>> /\ h.downloads = 0
  /\ h.phase = "sweep" =>
       \A s \in Slot : k.slots[s].state = "Running" /\ Claimants(k.state.tasks, s) # {} =>
         s \in DOMAIN h.inUse /\ FirstHas(h.rec, Claimants(k.state.tasks, s), s)

SoundBut(h, k, X) ==
  /\ HopTyped(h) /\ KernTyped(h, k)
  /\ CageBooks(h) /\ OneStream(h) /\ SlotsFit(h, k) /\ LoadsApart(h) /\ TasksFit(h, X)
  /\ AppsCaged(h, k) /\ SavedFits(h, k)

LineTyped(l) ==
  /\ l = [orders |-> l.orders, pieces |-> l.pieces, wanted |-> l.wanted, dl |-> l.dl]
  /\ l.orders \in Seq(Nat \ {0}) /\ Len(l.orders) <= ORDERS
  /\ l.pieces \in Seq([seq : Nat \ {0}, what : Piece]) /\ Len(l.pieces) <= PIECES
  /\ l.dl \in [seq : Nat, next : Piece \cup {"idle", "fetch"}, given : Nat]
  /\ l.dl.next # "idle" => l.dl.seq # 0

ResidentIInv == SoundBut(hop, kern, {}) /\ LineTyped(line)
-----------------------------------------------------------------------------
(* What the operators of the module make of a state *)

Set(f, x, y) == [f EXCEPT ![x] = y]
Rest(q) == Tail(q)
Cut(f, K) == [x \in DOMAIN f \ K |-> f[x]]

WithLoads(h, l) ==
  HopOf(h.phase, h.boots, h.nextId, h.nextSeq, h.jobs, h.rec, l, h.cages, h.inUse, h.downloads, h.mistaken)
WithRec(h, r) ==
  HopOf(h.phase, h.boots, h.nextId, h.nextSeq, h.jobs, r, h.loads, h.cages, h.inUse, h.downloads, h.mistaken)

LEMMA DropIs ==
  ASSUME NEW h, IsHop(h), NEW ids
  PROVE  DropCages(h, ids) =
           HopOf(h.phase, h.boots, h.nextId, h.nextSeq, h.jobs, h.rec, h.loads, Cut(h.cages, ids),
                 Cut(h.inUse, SlotsOf(h, ids)), h.downloads - Cardinality(ids \cap Streams(h)), h.mistaken)
<1> DEFINE c == Cut(h.cages, ids)
           u == Cut(h.inUse, SlotsOf(h, ids))
           n == h.downloads - Cardinality(ids \cap Streams(h))
           a == [h EXCEPT !.cages = c]
           b == [a EXCEPT !.inUse = u]
<1>1. DropCages(h, ids) = [b EXCEPT !.downloads = n]
  BY DEF DropCages, Without, Cut, Restrict
<1> HIDE DEF c, u, n
<1>2. a = HopOf(h.phase, h.boots, h.nextId, h.nextSeq, h.jobs, h.rec, h.loads, c, h.inUse, h.downloads, h.mistaken)
  BY DEF IsHop, HopOf
<1> HIDE DEF a
<1>3. b = HopOf(h.phase, h.boots, h.nextId, h.nextSeq, h.jobs, h.rec, h.loads, c, u, h.downloads, h.mistaken)
  BY <1>2 DEF HopOf
<1> HIDE DEF b
<1>4. [b EXCEPT !.downloads = n] =
        HopOf(h.phase, h.boots, h.nextId, h.nextSeq, h.jobs, h.rec, h.loads, c, u, n, h.mistaken)
  BY <1>3 DEF HopOf
<1> QED
  BY <1>1, <1>4 DEF c, u, n

LEMMA ForgetIs ==
  ASSUME NEW h, IsHop(h), NEW ids
  PROVE  Forget(h, ids) = WithRec(h, Cut(h.rec, ids))
<1> DEFINE r == Cut(h.rec, ids)
<1>1. Forget(h, ids) = [h EXCEPT !.rec = r]
  BY DEF Forget, Without, Cut, Restrict
<1> HIDE DEF r
<1>2. [h EXCEPT !.rec = r] = WithRec(h, r)
  BY DEF IsHop, HopOf, WithRec
<1> QED
  BY <1>1, <1>2 DEF r

LEMMA HopFields ==
  ASSUME NEW p, NEW b, NEW n, NEW q, NEW j, NEW r, NEW l, NEW c, NEW u, NEW d, NEW s
  PROVE  LET h == HopOf(p, b, n, q, j, r, l, c, u, d, s) IN
         /\ IsHop(h)
         /\ h.phase = p /\ h.boots = b /\ h.nextId = n /\ h.nextSeq = q /\ h.jobs = j /\ h.rec = r
         /\ h.loads = l /\ h.cages = c /\ h.inUse = u /\ h.downloads = d /\ h.mistaken = s
  BY DEF IsHop, HopOf

\* Start: a cage that waits for its image and a load at the end.
LEMMA StartIs ==
  ASSUME NEW h, NEW k, IsHop(h), NEW id
  PROVE  Start(<<h, k>>, id) =
           <<HopOf(h.phase, h.boots, h.nextId, h.nextSeq + 1, h.jobs, h.rec,
                   Append(h.loads, [seq |-> h.nextSeq, task |-> id, sent |-> FALSE, placed |-> None]),
                   With(h.cages, id, [phase |-> "Queued", slot |-> None, done |-> 0]),
                   h.inUse, h.downloads, h.mistaken), k>>
<1> DEFINE c == With(h.cages, id, [phase |-> "Queued", slot |-> None, done |-> 0])
           l == Append(h.loads, [seq |-> h.nextSeq, task |-> id, sent |-> FALSE, placed |-> None])
           n == h.nextSeq + 1
           a == [h EXCEPT !.cages = c]
           b == [a EXCEPT !.loads = l]
<1>2. a = HopOf(h.phase, h.boots, h.nextId, h.nextSeq, h.jobs, h.rec, h.loads, c, h.inUse, h.downloads, h.mistaken)
  BY DEF IsHop, HopOf
<1>1. Start(<<h, k>>, id) = <<[b EXCEPT !.nextSeq = n], k>>
  <2> HIDE DEF c
  <2>1. a.loads = h.loads /\ b.nextSeq = h.nextSeq
    BY <1>2 DEF HopOf
  <2> QED
    BY <2>1 DEF Start, RunnerStart, QueuedCage, c
<1> HIDE DEF c, l, n
<1> HIDE DEF a
<1>3. b = HopOf(h.phase, h.boots, h.nextId, h.nextSeq, h.jobs, h.rec, l, c, h.inUse, h.downloads, h.mistaken)
  BY <1>2 DEF HopOf
<1> HIDE DEF b
<1>4. [b EXCEPT !.nextSeq = n] =
        HopOf(h.phase, h.boots, h.nextId, n, h.jobs, h.rec, l, c, h.inUse, h.downloads, h.mistaken)
  BY <1>3 DEF HopOf
<1> QED
  BY <1>1, <1>4 DEF c, l, n

NewRec(j) == [job |-> j, state |-> "Starting", pid |-> None, waits |-> FALSE]

LEMMA NewTaskIs ==
  ASSUME NEW h, NEW k, IsHop(h), NEW j
  PROVE  NewTask(<<h, k>>, j, "awaits") =
           <<HopOf(h.phase, h.boots, h.nextId + 1, h.nextSeq + 1, h.jobs, With(h.rec, h.nextId, NewRec(j)),
                   Append(h.loads, [seq |-> h.nextSeq, task |-> h.nextId, sent |-> FALSE, placed |-> None]),
                   With(h.cages, h.nextId, [phase |-> "Queued", slot |-> None, done |-> 0]),
                   h.inUse, h.downloads, h.mistaken), k>>
<1> DEFINE r == With(h.rec, h.nextId, NewRec(j))
           n == h.nextId + 1
           a == [h EXCEPT !.rec = r]
           b == [a EXCEPT !.nextId = n]
<1>2. a = HopOf(h.phase, h.boots, h.nextId, h.nextSeq, h.jobs, r, h.loads, h.cages, h.inUse, h.downloads, h.mistaken)
  BY DEF IsHop, HopOf
<1>1. NewTask(<<h, k>>, j, "awaits") = Start(<<b, k>>, h.nextId)
  <2>1. a.nextId = h.nextId
    BY <1>2 DEF HopOf
  <2> QED
    BY <2>1 DEF NewTask, NewRec
<1> HIDE DEF r, n
<1> HIDE DEF a
<1>3. b = HopOf(h.phase, h.boots, n, h.nextSeq, h.jobs, r, h.loads, h.cages, h.inUse, h.downloads, h.mistaken)
  BY <1>2 DEF HopOf
<1> HIDE DEF b
<1>4. /\ IsHop(b) /\ b.phase = h.phase /\ b.boots = h.boots /\ b.nextId = n /\ b.nextSeq = h.nextSeq
      /\ b.jobs = h.jobs /\ b.rec = r /\ b.loads = h.loads /\ b.cages = h.cages /\ b.inUse = h.inUse
      /\ b.downloads = h.downloads /\ b.mistaken = h.mistaken
  BY <1>3, HopFields
<1> QED
  BY <1>1, <1>4, StartIs DEF r, n
-----------------------------------------------------------------------------
(* What no handler does: give a cage another slot, or a task its cage back *)

Keeps(h, g) ==
  /\ g.phase = h.phase /\ g.mistaken = h.mistaken
  /\ Given(h) \subseteq Given(g)
  /\ \A id \in DOMAIN g.cages \cap Given(h) :
       /\ id \in DOMAIN h.cages
       /\ h.cages[id].slot # None => g.cages[id].slot = h.cages[id].slot

LEMMA KeepsOn ==
  ASSUME NEW f, NEW g, NEW h, Keeps(f, g), Keeps(g, h)
  PROVE  Keeps(f, h)
  BY DEF Keeps

\* The slots of the tasks that stay are not among those that are given back.
LEMMA SlotsApart ==
  ASSUME NEW h, HopTyped(h), CageBooks(h), NEW ids, NEW id \in DOMAIN h.cages \ ids,
         h.cages[id].phase # "Queued"
  PROVE  /\ h.cages[id].slot \in Slot /\ h.cages[id].slot \in DOMAIN h.inUse
         /\ h.cages[id].slot \notin SlotsOf(h, ids)
<1>1. h.cages[id].slot \in Slot /\ h.cages[id].slot \in DOMAIN h.inUse /\ h.inUse[h.cages[id].slot] = id
  BY DEF CageBooks, HopTyped
<1>2. ASSUME NEW x \in ids \cap DOMAIN h.cages, h.cages[x].slot = h.cages[id].slot PROVE FALSE
  <2>1. h.cages[x].slot # None
    BY <1>1, <1>2 DEF Slot, None
  <2>2. h.cages[x].phase # "Queued"
    BY <2>1, <1>2 DEF CageBooks
  <2>3. h.inUse[h.cages[x].slot] = x
    BY <2>2, <1>2 DEF CageBooks
  <2> QED
    BY <2>3, <1>1, <1>2
<1> QED
  BY <1>1, <1>2 DEF SlotsOf

LEMMA StreamsCount ==
  ASSUME NEW h, OneStream(h), NEW ids
  PROVE  /\ (Streams(h) \ ids = {}) => h.downloads - Cardinality(ids \cap Streams(h)) = 0
         /\ (Streams(h) \ ids # {}) => h.downloads - Cardinality(ids \cap Streams(h)) = 1
<1>1. CASE Streams(h) = {}
  <2>1. ids \cap Streams(h) = {} /\ h.downloads = 0
    BY <1>1 DEF OneStream
  <2>2. Cardinality(ids \cap Streams(h)) = 0
    BY <2>1, FS_EmptySet
  <2> QED
    BY <1>1, <2>1, <2>2
<1>2. CASE Streams(h) # {}
  <2>1. PICK x : Streams(h) = {x}
    BY <1>2 DEF OneStream
  <2>2. h.downloads = 1
    BY <1>2 DEF OneStream
  <2>3. CASE x \in ids
    <3>1. ids \cap Streams(h) = {x} /\ Streams(h) \ ids = {}
      BY <2>1, <2>3
    <3>2. Cardinality(ids \cap Streams(h)) = 1
      BY <3>1, FS_Singleton
    <3> QED
      BY <3>1, <3>2, <2>2
  <2>4. CASE x \notin ids
    <3>1. ids \cap Streams(h) = {} /\ Streams(h) \ ids # {}
      BY <2>1, <2>4
    <3>2. Cardinality(ids \cap Streams(h)) = 0
      BY <3>1, FS_EmptySet
    <3> QED
      BY <3>1, <3>2, <2>2
  <2> QED
    BY <2>3, <2>4
<1> QED
  BY <1>1, <1>2

LEMMA KernStops ==
  ASSUME NEW h, NEW k, KernTyped(h, k), NEW S
  PROVE  /\ KernTyped(h, StopSlots(k, S)) /\ StopSlots(k, S).state = k.state
         /\ \A s \in Slot : StopSlots(k, S).slots[s] = IF s \in S THEN EmptySlot ELSE k.slots[s]
<1> DEFINE f == [s \in Slot |-> IF s \in S THEN EmptySlot ELSE k.slots[s]]
           m == [k EXCEPT !.slots = f]
<1>1. StopSlots(k, S) = m
  BY DEF StopSlots
<1>2. EmptySlot \in SlotRec
  BY ResidentAssumption DEF EmptySlot, SlotRec
<1>3. f \in [Slot -> SlotRec]
  BY <1>2 DEF KernTyped
<1> HIDE DEF f
<1>4. m = [slots |-> f, state |-> k.state, fresh |-> k.fresh]
  BY DEF KernTyped, IsKern
<1>5. KernTyped(h, m) /\ m.state = k.state /\ m.slots = f
  BY <1>3, <1>4 DEF KernTyped, IsKern
<1> QED
  BY <1>1, <1>5 DEF f

\* Stopping tasks leaves everything in order but their own records and loads.
LEMMA StopKeeps ==
  ASSUME NEW h, NEW k, NEW X, NEW ids, SoundBut(h, k, X),
         NEW g, g = DropCages(h, ids), NEW m, m = StopSlots(k, SlotsOf(h, ids))
  PROVE  /\ SoundBut(g, m, X \cup ids) /\ Keeps(h, g)
         /\ DOMAIN g.cages = DOMAIN h.cages \ ids
         /\ g.rec = h.rec /\ g.loads = h.loads /\ g.jobs = h.jobs /\ g.nextId = h.nextId
<1>1. /\ IsHop(g) /\ g.phase = h.phase /\ g.boots = h.boots /\ g.nextId = h.nextId /\ g.nextSeq = h.nextSeq
      /\ g.jobs = h.jobs /\ g.rec = h.rec /\ g.loads = h.loads /\ g.mistaken = h.mistaken
      /\ g.cages = Cut(h.cages, ids) /\ g.inUse = Cut(h.inUse, SlotsOf(h, ids))
      /\ g.downloads = h.downloads - Cardinality(ids \cap Streams(h))
  <2>1. IsHop(h)
    BY DEF SoundBut, HopTyped
  <2> QED
    BY <2>1, DropIs, HopFields
<1>2. /\ DOMAIN g.cages = DOMAIN h.cages \ ids /\ \A x \in DOMAIN g.cages : g.cages[x] = h.cages[x]
      /\ DOMAIN g.inUse = DOMAIN h.inUse \ SlotsOf(h, ids) /\ \A s \in DOMAIN g.inUse : g.inUse[s] = h.inUse[s]
      /\ g.cages = [x \in DOMAIN g.cages |-> g.cages[x]] /\ g.inUse = [s \in DOMAIN g.inUse |-> g.inUse[s]]
  BY <1>1 DEF Cut
<1>3. Given(g) = Given(h)
  BY <1>1 DEF Given
<1>4. HopTyped(g)
  <2>1. HopTyped(h)
    BY DEF SoundBut
  <2>4. /\ h.cages \in [DOMAIN h.cages -> Cage] /\ DOMAIN h.cages \subseteq Given(h)
        /\ h.inUse \in [DOMAIN h.inUse -> Id] /\ DOMAIN h.inUse \subseteq Slot
    BY <2>1 DEF HopTyped
  <2>2. g.cages \in [DOMAIN g.cages -> Cage] /\ DOMAIN g.cages \subseteq Given(g)
    BY <2>4, <1>2, <1>3
  <2>3. g.inUse \in [DOMAIN g.inUse -> Id] /\ DOMAIN g.inUse \subseteq Slot
    <3>1. /\ DOMAIN g.inUse \subseteq DOMAIN h.inUse /\ \A s \in DOMAIN g.inUse : g.inUse[s] = h.inUse[s]
          /\ g.inUse = [s \in DOMAIN g.inUse |-> g.inUse[s]]
      BY <1>2
    <3> QED
      BY <2>4, <3>1
  <2> QED
    BY <2>1, <2>2, <2>3, <1>1, <1>3 DEF HopTyped
<1>5. KernTyped(g, m) /\ m.state = k.state
      /\ \A s \in Slot : m.slots[s] = IF s \in SlotsOf(h, ids) THEN EmptySlot ELSE k.slots[s]
  <2>1. KernTyped(h, m) /\ m.state = k.state
        /\ \A s \in Slot : m.slots[s] = IF s \in SlotsOf(h, ids) THEN EmptySlot ELSE k.slots[s]
    BY KernStops DEF SoundBut
  <2> QED
    BY <2>1, <1>3 DEF KernTyped
<1>6. \A id \in DOMAIN g.cages : g.cages[id].phase # "Queued" =>
        /\ g.cages[id].slot \in Slot /\ g.cages[id].slot \in DOMAIN g.inUse
        /\ m.slots[g.cages[id].slot] = k.slots[g.cages[id].slot]
  BY <1>2, <1>5, SlotsApart DEF SoundBut
<1>7. CageBooks(g)
  <2>1. CageBooks(h) /\ HopTyped(h)
    BY DEF SoundBut
  <2>2. ASSUME NEW s \in DOMAIN g.inUse PROVE g.inUse[s] \in DOMAIN g.cages /\ g.cages[g.inUse[s]].slot = s
    <3>1. s \in DOMAIN h.inUse /\ s \notin SlotsOf(h, ids) /\ g.inUse[s] = h.inUse[s]
      BY <1>2, <2>2
    <3>2. h.inUse[s] \in DOMAIN h.cages /\ h.cages[h.inUse[s]].slot = s
      BY <3>1, <2>1 DEF CageBooks
    <3>3. h.inUse[s] \notin ids
      BY <3>1, <3>2 DEF SlotsOf
    <3> QED
      BY <3>1, <3>2, <3>3, <1>2
  <2>3. ASSUME NEW id \in DOMAIN g.cages
        PROVE  /\ g.cages[id].phase = "Queued" => g.cages[id].slot = None
               /\ g.cages[id].phase # "Queued" =>
                    g.cages[id].slot \in DOMAIN g.inUse /\ g.inUse[g.cages[id].slot] = id
    BY <2>1, <2>3, <1>2, <1>6 DEF CageBooks
  <2> QED
    BY <2>2, <2>3 DEF CageBooks
<1>8. Streams(g) = Streams(h) \ ids
  BY <1>2 DEF Streams
<1>9. OneStream(g)
  <2>1. OneStream(h)
    BY DEF SoundBut
  <2>2. g.downloads = IF Streams(g) = {} THEN 0 ELSE 1
    BY <2>1, <1>1, <1>8, StreamsCount
  <2> QED
    BY <2>1, <2>2, <1>8 DEF OneStream
<1>10. SlotsFit(g, m)
  <2>1. SlotsFit(h, k)
    BY DEF SoundBut
  <2>2. \A s \in Slot : m.slots[s].on => m.slots[s].state = "Running"
    BY <2>1, <1>5 DEF SlotsFit, EmptySlot
  <2>3. ASSUME NEW id \in DOMAIN g.cages
        PROVE  LET d == g.cages[id] IN
               /\ d.phase = "Streaming" =>
                    /\ m.slots[d.slot].state = "Streaming" /\ m.slots[d.slot].task = id
                    /\ m.slots[d.slot].got = d.done /\ d.done < SIZE
               /\ d.phase = "Armed" => m.slots[d.slot].state = "Running" /\ (id \notin g.mistaken => m.slots[d.slot].task = id)
    <3>1. g.cages[id] = h.cages[id] /\ id \in DOMAIN h.cages /\ g.mistaken = h.mistaken
      BY <1>1, <1>2
    <3>2. g.cages[id].phase # "Queued" => m.slots[g.cages[id].slot] = k.slots[g.cages[id].slot]
      BY <1>6
    <3> QED
      BY <2>1, <3>1, <3>2 DEF SlotsFit
  <2> QED
    BY <2>2, <2>3 DEF SlotsFit
<1>11. LoadsApart(g)
  BY <1>1, <1>2 DEF SoundBut, LoadsApart
<1>12. TasksFit(g, X \cup ids)
  <2>1. TasksFit(h, X)
    BY DEF SoundBut
  <2> QED
    BY <2>1, <1>1, <1>2, <1>8 DEF TasksFit
<1>13. AppsCaged(g, m)
  <2>1. AppsCaged(h, k)
    BY DEF SoundBut
  <2> QED
    BY <2>1, <1>1, <1>2, <1>5 DEF AppsCaged, EmptySlot
<1>14. SavedFits(g, m)
  <2>1. SavedFits(h, k) /\ KernTyped(h, k)
    BY DEF SoundBut
  <2>2. g.phase = "boot" => g.loads = <<>> /\ g.downloads = 0
    <3> SUFFICES ASSUME g.phase = "boot" PROVE g.loads = <<>> /\ g.downloads = 0
      OBVIOUS
    <3>1. h.downloads = 0 /\ h.loads = <<>>
      BY <2>1, <1>1 DEF SavedFits
    <3>2. Streams(h) = {}
      BY <3>1 DEF SoundBut, OneStream
    <3> QED
      BY <3>1, <3>2, <1>1, <1>8, <1>9 DEF OneStream
  <2>3. ASSUME g.phase = "sweep", NEW s \in Slot, m.slots[s].state = "Running", Claimants(m.state.tasks, s) # {}
        PROVE  s \in DOMAIN g.inUse /\ FirstHas(g.rec, Claimants(m.state.tasks, s), s)
    <3>2. m.slots[s] = k.slots[s] /\ s \notin SlotsOf(h, ids)
      BY <2>3, <1>5 DEF EmptySlot
    <3>4. h.phase = "sweep" /\ m.state = k.state
      BY <2>3, <1>1, <1>5
    <3>3. s \in DOMAIN h.inUse /\ FirstHas(h.rec, Claimants(k.state.tasks, s), s)
      BY <3>2, <3>4, <2>1, <2>3 DEF SavedFits
    <3> QED
      BY <3>2, <3>3, <3>4, <1>1, <1>2
  <2> QED
    BY <2>1, <2>2, <2>3, <1>5 DEF SavedFits
<1>15. Keeps(h, g)
  BY <1>1, <1>2, <1>3 DEF Keeps
<1> QED
  BY <1>1, <1>2, <1>4, <1>5, <1>7, <1>9, <1>10, <1>11, <1>12, <1>13, <1>14, <1>15 DEF SoundBut
-----------------------------------------------------------------------------
(* Records and loads *)

SameCages(h, g) ==
  /\ IsHop(g) /\ g.phase = h.phase /\ g.boots = h.boots /\ g.nextId = h.nextId /\ g.nextSeq = h.nextSeq
  /\ g.jobs = h.jobs /\ g.mistaken = h.mistaken /\ g.cages = h.cages /\ g.inUse = h.inUse /\ g.downloads = h.downloads

\* Records and loads of tasks that h knows.
KnownTasks(h, g) ==
  /\ g.rec \in [DOMAIN g.rec -> Record] /\ DOMAIN g.rec \subseteq Given(h)
  /\ g.loads \in Seq(Loading)
  /\ \A i \in DOMAIN g.loads : g.loads[i].task \in Given(h) /\ g.loads[i].seq < h.nextSeq

\* A step that leaves cages and slots alone.
LEMMA OthersStay ==
  ASSUME NEW h, NEW k, NEW X, NEW Y, NEW g, SoundBut(h, k, X), SameCages(h, g), h.phase = "up",
         KnownTasks(h, g), LoadsApart(g), TasksFit(g, Y)
  PROVE  SoundBut(g, k, Y) /\ Keeps(h, g)
<1>1. Given(g) = Given(h) /\ Streams(g) = Streams(h)
  BY DEF SameCages, Given, Streams
<1>2. HopTyped(g)
  BY <1>1 DEF SoundBut, HopTyped, SameCages, KnownTasks
<1>3. KernTyped(g, k)
  BY <1>1 DEF SoundBut, KernTyped
<1>4. CageBooks(g)
  BY DEF SoundBut, CageBooks, SameCages
<1>5. OneStream(g)
  BY <1>1 DEF SoundBut, OneStream, SameCages
<1>6. SlotsFit(g, k)
  BY DEF SoundBut, SlotsFit, SameCages
<1>7. AppsCaged(g, k)
  BY DEF SoundBut, AppsCaged, SameCages
<1>8. SavedFits(g, k)
  BY DEF SoundBut, SavedFits, SameCages
<1>9. Keeps(h, g)
  BY <1>1 DEF Keeps, SameCages
<1> QED
  BY <1>2, <1>3, <1>4, <1>5, <1>6, <1>7, <1>8, <1>9 DEF SoundBut

LEMMA LessToDo ==
  ASSUME NEW h, NEW k, NEW X, SoundBut(h, k, X), \A id \in X : id \notin DOMAIN h.rec /\ id \notin Streams(h)
  PROVE  SoundBut(h, k, {})
<1>1. TasksFit(h, {})
  BY DEF SoundBut, TasksFit
<1> QED
  BY <1>1 DEF SoundBut

LEMMA MoreToDo ==
  ASSUME NEW h, NEW k, NEW X, SoundBut(h, k, {})
  PROVE  SoundBut(h, k, X)
<1>1. TasksFit(h, X)
  BY DEF SoundBut, TasksFit
<1> QED
  BY <1>1 DEF SoundBut

LEMMA ForgetKeeps ==
  ASSUME NEW h, NEW k, NEW X, NEW ids, SoundBut(h, k, X), h.phase = "up", NEW g, g = Forget(h, ids)
  PROVE  /\ SoundBut(g, k, X) /\ Keeps(h, g) /\ SameCages(h, g)
         /\ g.rec = Cut(h.rec, ids) /\ g.loads = h.loads
<1>1. HopTyped(h) /\ LoadsApart(h) /\ TasksFit(h, X)
  BY DEF SoundBut
<1>2. SameCages(h, g) /\ g.rec = Cut(h.rec, ids) /\ g.loads = h.loads
  <2>1. IsHop(h)
    BY <1>1 DEF HopTyped
  <2> QED
    BY <2>1, ForgetIs, HopFields DEF WithRec, SameCages
<1>3. /\ DOMAIN g.rec = DOMAIN h.rec \ ids /\ \A x \in DOMAIN g.rec : g.rec[x] = h.rec[x]
      /\ g.rec = [x \in DOMAIN g.rec |-> g.rec[x]]
  BY <1>2 DEF Cut
<1>4. g.rec \in [DOMAIN g.rec -> Record] /\ DOMAIN g.rec \subseteq Given(h)
  <2>1. h.rec \in [DOMAIN h.rec -> Record] /\ DOMAIN h.rec \subseteq Given(h)
    BY <1>1 DEF HopTyped
  <2> QED
    BY <2>1, <1>3
<1>5. g.loads \in Seq(Loading) /\ \A i \in DOMAIN g.loads : g.loads[i].task \in Given(h) /\ g.loads[i].seq < h.nextSeq
  BY <1>1, <1>2 DEF HopTyped
<1>6. LoadsApart(g)
  BY <1>1, <1>2 DEF LoadsApart, SameCages
<1>7. Streams(g) = Streams(h)
  BY <1>2 DEF Streams, SameCages
<1>8. TasksFit(g, X)
  BY <1>1, <1>2, <1>3, <1>7 DEF TasksFit, SameCages
<1>10. KnownTasks(h, g)
  BY <1>4, <1>5 DEF KnownTasks
<1>9. SoundBut(g, k, X) /\ Keeps(h, g)
  BY <1>2, <1>6, <1>8, <1>10, OthersStay
<1> QED
  BY <1>2, <1>9

\* A record changes that no load waits for: the task is done with.
LEMMA RecordSet ==
  ASSUME NEW h, NEW k, NEW id \in DOMAIN h.rec, SoundBut(h, k, {id}), h.phase = "up", NEW e \in Record,
         \A i \in DOMAIN h.loads : h.loads[i].task # id,
         id \notin Streams(h),
         e.state = "Running" =>
           /\ e.pid # None /\ id \in DOMAIN h.cages
           /\ h.cages[id].phase = "Armed" /\ h.cages[id].slot = e.pid,
         e.waits => e.state = "Failed",
         NEW g, g = WithRec(h, Set(h.rec, id, e))
  PROVE  SoundBut(g, k, {}) /\ Keeps(h, g)
<1>1. HopTyped(h) /\ LoadsApart(h) /\ TasksFit(h, {id})
  BY DEF SoundBut
<1>2. SameCages(h, g) /\ g.rec = Set(h.rec, id, e) /\ g.loads = h.loads
  BY HopFields DEF WithRec, SameCages
<1>3. /\ DOMAIN g.rec = DOMAIN h.rec /\ g.rec[id] = e /\ \A x \in DOMAIN h.rec \ {id} : g.rec[x] = h.rec[x]
      /\ g.rec \in [DOMAIN g.rec -> Record]
  BY <1>1, <1>2 DEF HopTyped, Set
<1>4. Streams(g) = Streams(h)
  BY <1>2 DEF Streams, SameCages
<1>5. TasksFit(g, {})
  <2>1. ASSUME NEW i \in DOMAIN g.loads, NEW t, t = g.loads[i].task, t \in DOMAIN g.rec
        PROVE  g.rec[t].state = "Starting" /\ t \in DOMAIN g.cages
    BY <2>1, <1>1, <1>2, <1>3 DEF TasksFit, SameCages
  <2>2. ASSUME NEW x \in DOMAIN g.rec
        PROVE  /\ g.rec[x].state = "Running" =>
                    /\ g.rec[x].pid # None /\ x \in DOMAIN g.cages
                    /\ g.cages[x].phase = "Armed" /\ g.cages[x].slot = g.rec[x].pid
               /\ g.rec[x].waits => g.rec[x].state = "Failed"
    <3>1. CASE x = id
      BY <3>1, <1>2, <1>3 DEF SameCages
    <3>2. CASE x # id
      BY <3>2, <2>2, <1>1, <1>2, <1>3 DEF TasksFit, SameCages
    <3> QED
      BY <3>1, <3>2
  <2>3. \A x \in Streams(g) : g.loads # <<>> /\ g.loads[1].task = x
    BY <1>1, <1>2, <1>4 DEF TasksFit
  <2> QED
    BY <2>1, <2>2, <2>3 DEF TasksFit
<1>6. LoadsApart(g)
  BY <1>1, <1>2 DEF LoadsApart, SameCages
<1>7. g.loads \in Seq(Loading) /\ \A i \in DOMAIN g.loads : g.loads[i].task \in Given(h) /\ g.loads[i].seq < h.nextSeq
  BY <1>1, <1>2 DEF HopTyped
<1>8. DOMAIN g.rec \subseteq Given(h)
  BY <1>1, <1>3 DEF HopTyped
<1>9. KnownTasks(h, g)
  BY <1>3, <1>7, <1>8 DEF KnownTasks
<1> QED
  BY <1>2, <1>5, <1>6, <1>9, OthersStay

\* The first load is done with.
First(h) == h.loads[1].task

LEMMA RestIs ==
  ASSUME NEW S, NEW q \in Seq(S), q # <<>>
  PROVE  /\ Rest(q) \in Seq(S) /\ 1 \in DOMAIN q
         /\ \A i \in DOMAIN Rest(q) : i \in Nat /\ i + 1 \in DOMAIN q /\ i + 1 # 1 /\ Rest(q)[i] = q[i + 1]
<1>1. Tail(q) \in Seq(S) /\ Len(Tail(q)) = Len(q) - 1 /\ \A i \in 1..Len(Tail(q)) : Tail(q)[i] = q[i + 1]
  BY HeadTailProperties
<1> DEFINE t == Tail(q)
<1>2. Len(q) \in Nat /\ Len(q) # 0 /\ DOMAIN q = 1..Len(q) /\ DOMAIN t = 1..Len(t)
  BY <1>1
<1> HIDE DEF t
<1>3. \A i \in DOMAIN t : i \in Nat /\ i + 1 \in DOMAIN q /\ i + 1 # 1
  BY <1>1, <1>2 DEF t
<1> QED
  BY <1>1, <1>2, <1>3 DEF t, Rest

LEMMA PopKeeps ==
  ASSUME NEW h, NEW k, SoundBut(h, k, {First(h)}), h.phase = "up", h.loads # <<>>,
         NEW g, g = WithLoads(h, Rest(h.loads))
  PROVE  /\ SoundBut(g, k, {First(h)}) /\ Keeps(h, g) /\ SameCages(h, g) /\ g.rec = h.rec
         /\ \A i \in DOMAIN g.loads : g.loads[i].task # First(h)
<1> DEFINE t == First(h)
<1>1. HopTyped(h) /\ LoadsApart(h) /\ TasksFit(h, {t})
  BY DEF SoundBut
<1>2. SameCages(h, g) /\ g.rec = h.rec /\ g.loads = Rest(h.loads)
  BY HopFields DEF WithLoads, SameCages
<1>3. h.loads \in Seq(Loading) /\ Len(h.loads) \in Nat /\ Len(h.loads) >= 1 /\ 1 \in DOMAIN h.loads
  BY <1>1 DEF HopTyped
<1>4. /\ g.loads \in Seq(Loading)
      /\ \A i \in DOMAIN g.loads : i \in Nat /\ i + 1 \in DOMAIN h.loads /\ i + 1 # 1 /\ g.loads[i] = h.loads[i + 1]
  BY <1>2, <1>3, RestIs
<1>5. /\ \A i \in DOMAIN g.loads : g.loads[i].task \in Given(h) /\ g.loads[i].seq < h.nextSeq
      /\ \A i \in DOMAIN g.loads : g.loads[i].task # t
  BY <1>1, <1>3, <1>4 DEF HopTyped, LoadsApart, First
<1>6. LoadsApart(g)
  <2>1. ASSUME NEW i \in DOMAIN g.loads, NEW j \in DOMAIN g.loads, g.loads[i].task = g.loads[j].task PROVE i = j
    <3>1. i + 1 = j + 1
      BY <2>1, <1>1, <1>4 DEF LoadsApart
    <3>2. i \in Nat /\ j \in Nat
      BY <1>4
    <3> QED
      BY <3>1, <3>2
  <2> QED
    BY <2>1, <1>1, <1>2, <1>4 DEF LoadsApart, SameCages
<1>7. Streams(g) = Streams(h)
  BY <1>2 DEF Streams, SameCages
<1>8. TasksFit(g, {t})
  <2>1. \A id \in Streams(g) \ {t} : FALSE
    BY <1>1, <1>7 DEF TasksFit, First
  <2> QED
    BY <2>1, <1>1, <1>2, <1>4 DEF TasksFit, SameCages
<1>9. g.rec \in [DOMAIN g.rec -> Record] /\ DOMAIN g.rec \subseteq Given(h)
  BY <1>1, <1>2 DEF HopTyped
<1>10. KnownTasks(h, g)
  BY <1>4, <1>5, <1>9 DEF KnownTasks
<1>11. SoundBut(g, k, {t}) /\ Keeps(h, g)
  BY <1>2, <1>6, <1>8, <1>10, OthersStay
<1> QED
  BY <1>2, <1>5, <1>11
-----------------------------------------------------------------------------
(* Starts, failures and the end of a load *)

\* A handler has come from h to the pair q of an owner and a kernel, all in order.
LeftWell(h, q) == \E g, m : q = <<g, m>> /\ SoundBut(g, m, {}) /\ Keeps(h, g)

Added(q, x) == Append(q, x)

\* a is q with x behind it.
Longer(a, q, x) ==
  \E n : /\ DOMAIN a = DOMAIN q \cup {n} /\ n \notin DOMAIN q /\ a[n] = x
         /\ \A i \in DOMAIN q : a[i] = q[i]

LEMMA AddedIs ==
  ASSUME NEW S, NEW q \in Seq(S), NEW x \in S
  PROVE  /\ Added(q, x) \in Seq(S) /\ Added(q, x) # <<>> /\ (q # <<>> => 1 \in DOMAIN q)
         /\ Longer(Added(q, x), q, x)
<1> DEFINE a == Append(q, x)
           n == Len(q) + 1
<1>1. a \in Seq(S) /\ Len(a) = n /\ a[n] = x /\ \A i \in 1..Len(q) : a[i] = q[i]
  BY AppendProperties
<1>2. Len(q) \in Nat /\ DOMAIN q = 1..Len(q) /\ DOMAIN a = 1..Len(a)
  BY <1>1
<1> HIDE DEF a
<1>3. DOMAIN a = DOMAIN q \cup {n} /\ n \notin DOMAIN q /\ a # <<>> /\ (q # <<>> => 1 \in DOMAIN q)
  BY <1>1, <1>2
<1>4. Longer(a, q, x)
  BY <1>1, <1>2, <1>3 DEF Longer
<1> QED
  BY <1>1, <1>3, <1>4 DEF a, Added

LEMMA StartsWell ==
  ASSUME NEW h, NEW k, NEW j \in Job, SoundBut(h, k, {}), h.phase = "up", h.nextId <= MaxId
  PROVE  LeftWell(h, NewTask(<<h, k>>, j, "awaits"))
<1> DEFINE n == h.nextId
           c == [phase |-> "Queued", slot |-> None, done |-> 0]
           e == NewRec(j)
           x == [seq |-> h.nextSeq, task |-> n, sent |-> FALSE, placed |-> None]
           g == HopOf(h.phase, h.boots, h.nextId + 1, h.nextSeq + 1, h.jobs, With(h.rec, n, e),
                      Added(h.loads, x), With(h.cages, n, c), h.inUse, h.downloads, h.mistaken)
<1>1. /\ HopTyped(h) /\ KernTyped(h, k) /\ CageBooks(h) /\ OneStream(h) /\ SlotsFit(h, k)
      /\ LoadsApart(h) /\ TasksFit(h, {}) /\ AppsCaged(h, k) /\ SavedFits(h, k)
  BY DEF SoundBut
<1>2. NewTask(<<h, k>>, j, "awaits") = <<g, k>>
  <2>1. IsHop(h)
    BY <1>1 DEF HopTyped
  <2> QED
    BY <2>1, NewTaskIs DEF Added
<1>3. n \in Nat /\ n \in Id /\ n \notin Given(h) /\ Given(h) \subseteq Id
      /\ 1..(n + 1 - 1) = Given(h) \cup {n} /\ h.nextSeq \in Nat \ {0}
  BY <1>1, ResidentAssumption DEF HopTyped, Given, Id
<1>4. /\ e \in Record /\ e.state = "Starting" /\ ~e.waits
      /\ c \in Cage /\ c.phase = "Queued" /\ c.slot = None
      /\ x \in Loading /\ x.task = n /\ x.seq = h.nextSeq /\ x.placed = None
  <2>1. x \in Loading
    BY <1>3 DEF Loading
  <2>2. c \in Cage
    BY ResidentAssumption DEF Cage
  <2>3. e \in Record /\ e.state = "Starting" /\ ~e.waits
    BY DEF Record, NewRec
  <2> QED
    BY <2>1, <2>2, <2>3
<1>5. n \notin DOMAIN h.rec /\ n \notin DOMAIN h.cages /\ \A i \in DOMAIN h.loads : h.loads[i].task # n
  <2>1. /\ DOMAIN h.rec \subseteq Given(h) /\ DOMAIN h.cages \subseteq Given(h)
        /\ \A i \in DOMAIN h.loads : h.loads[i].task \in Given(h)
    BY <1>1 DEF HopTyped
  <2> HIDE DEF n
  <2> QED
    BY <2>1, <1>3
<1> HIDE DEF c, e, x
<1>6. /\ IsHop(g) /\ g.phase = h.phase /\ g.boots = h.boots /\ g.nextId = n + 1 /\ g.nextSeq = h.nextSeq + 1
      /\ g.jobs = h.jobs /\ g.rec = With(h.rec, n, e) /\ g.loads = Added(h.loads, x)
      /\ g.cages = With(h.cages, n, c) /\ g.inUse = h.inUse /\ g.downloads = h.downloads /\ g.mistaken = h.mistaken
  BY HopFields
<1> HIDE DEF g
<1>7. /\ DOMAIN g.rec = DOMAIN h.rec \cup {n} /\ g.rec[n] = e
      /\ g.rec = [y \in DOMAIN g.rec |-> g.rec[y]] /\ \A y \in DOMAIN h.rec : g.rec[y] = h.rec[y]
  BY <1>5, <1>6 DEF With
<1>8. /\ DOMAIN g.cages = DOMAIN h.cages \cup {n} /\ g.cages[n] = c
      /\ g.cages = [y \in DOMAIN g.cages |-> g.cages[y]] /\ \A y \in DOMAIN h.cages : g.cages[y] = h.cages[y]
  BY <1>5, <1>6 DEF With
<1>9. h.loads \in Seq(Loading)
  BY <1>1 DEF HopTyped
<1>10. /\ g.loads \in Seq(Loading) /\ g.loads # <<>> /\ (h.loads # <<>> => 1 \in DOMAIN h.loads)
       /\ Longer(g.loads, h.loads, x)
  <2>1. x \in Loading /\ g.loads = Added(h.loads, x)
    BY <1>4, <1>6
  <2> QED
    BY <2>1, <1>9, AddedIs
<1>11. PICK l : /\ DOMAIN g.loads = DOMAIN h.loads \cup {l} /\ l \notin DOMAIN h.loads /\ g.loads[l] = x
                /\ \A i \in DOMAIN h.loads : g.loads[i] = h.loads[i]
  BY <1>10 DEF Longer
<1>12. Given(g) = Given(h) \cup {n}
  BY <1>3, <1>6 DEF Given
<1>13. HopTyped(g)
  <2>5. /\ h.rec \in [DOMAIN h.rec -> Record] /\ DOMAIN h.rec \subseteq Given(h)
        /\ h.cages \in [DOMAIN h.cages -> Cage] /\ DOMAIN h.cages \subseteq Given(h)
    BY <1>1 DEF HopTyped
  <2>6. e \in Record /\ c \in Cage
    BY <1>4
  <2>1. g.rec \in [DOMAIN g.rec -> Record] /\ DOMAIN g.rec \subseteq Given(g)
    BY <2>5, <2>6, <1>7, <1>12
  <2>2. g.cages \in [DOMAIN g.cages -> Cage] /\ DOMAIN g.cages \subseteq Given(g)
    BY <2>5, <2>6, <1>8, <1>12
  <2>3. ASSUME NEW i \in DOMAIN g.loads PROVE g.loads[i].task \in Given(g) /\ g.loads[i].seq < g.nextSeq
    <3>1. CASE i = l
      BY <3>1, <1>3, <1>4, <1>6, <1>11, <1>12
    <3>2. CASE i \in DOMAIN h.loads
      <4>1. g.loads[i] = h.loads[i] /\ h.loads[i].task \in Given(h) /\ h.loads[i].seq < h.nextSeq /\ h.loads[i] \in Loading
        BY <3>2, <1>1, <1>9, <1>11 DEF HopTyped
      <4>2. h.loads[i].seq \in Nat
        BY <4>1 DEF Loading
      <4> QED
        BY <4>1, <4>2, <1>3, <1>6, <1>12
    <3> QED
      BY <3>1, <3>2, <1>11
  <2>4. g.nextId \in 1..(MaxId + 1) /\ g.nextSeq \in Nat
    BY <1>3, <1>6, ResidentAssumption DEF Id
  <2> QED
    BY <2>1, <2>2, <2>3, <2>4, <1>1, <1>6, <1>10 DEF HopTyped
<1>14. KernTyped(g, k)
  BY <1>1, <1>12 DEF KernTyped
<1>15. Streams(g) = Streams(h)
  BY <1>4, <1>8 DEF Streams
<1>16. CageBooks(g)
  BY <1>1, <1>4, <1>6, <1>8 DEF CageBooks
<1>17. OneStream(g)
  BY <1>1, <1>6, <1>15 DEF OneStream
<1>18. SlotsFit(g, k)
  <2>1. SlotsFit(h, k)
    BY <1>1
  <2>2. c.phase = "Queued" /\ g.mistaken = h.mistaken
    BY <1>4, <1>6
  <2> QED
    BY <2>1, <2>2, <1>8 DEF SlotsFit
<1>19. LoadsApart(g)
  BY <1>1, <1>4, <1>5, <1>8, <1>11 DEF LoadsApart
<1>20. TasksFit(g, {})
  <2>1. ASSUME NEW i \in DOMAIN g.loads, NEW t, t = g.loads[i].task, t \in DOMAIN g.rec
        PROVE  g.rec[t].state = "Starting" /\ t \in DOMAIN g.cages
    <3>1. CASE i = l
      BY <3>1, <2>1, <1>4, <1>7, <1>8, <1>11
    <3>2. CASE i \in DOMAIN h.loads
      BY <3>2, <2>1, <1>1, <1>5, <1>7, <1>8, <1>11 DEF TasksFit
    <3> QED
      BY <3>1, <3>2, <1>11
  <2>2. ASSUME NEW y \in DOMAIN g.rec
        PROVE  /\ g.rec[y].state = "Running" =>
                    /\ g.rec[y].pid # None /\ y \in DOMAIN g.cages
                    /\ g.cages[y].phase = "Armed" /\ g.cages[y].slot = g.rec[y].pid
               /\ g.rec[y].waits => g.rec[y].state = "Failed"
    <3>1. CASE y = n
      BY <3>1, <1>4, <1>7
    <3>2. CASE y \in DOMAIN h.rec
      BY <3>2, <1>1, <1>7, <1>8 DEF TasksFit
    <3> QED
      BY <3>1, <3>2, <1>7
  <2>3. \A y \in Streams(g) : g.loads # <<>> /\ g.loads[1].task = y
    BY <1>1, <1>10, <1>11, <1>15 DEF TasksFit
  <2> QED
    BY <2>1, <2>2, <2>3 DEF TasksFit
<1>21. AppsCaged(g, k)
  BY <1>1, <1>6 DEF AppsCaged
<1>22. SavedFits(g, k)
  BY <1>1, <1>6 DEF SavedFits
<1>23. Keeps(h, g)
  BY <1>3, <1>6, <1>8, <1>12 DEF Keeps
<1>24. SoundBut(g, k, {})
  BY <1>13, <1>14, <1>16, <1>17, <1>18, <1>19, <1>20, <1>21, <1>22 DEF SoundBut
<1> QED
  BY <1>2, <1>23, <1>24 DEF LeftWell

FailedRec(j, w) == [job |-> j, state |-> "Failed", pid |-> None, waits |-> w]

\* A start that the runner refuses leaves a record that has failed.
LEMMA RefusedIs ==
  ASSUME NEW h, NEW k, IsHop(h), NEW j, NEW left, left # "awaits"
  PROVE  NewTask(<<h, k>>, j, left) =
           <<HopOf(h.phase, h.boots, h.nextId + 1, h.nextSeq, h.jobs,
                   With(h.rec, h.nextId, FailedRec(j, left = "waits")),
                   h.loads, h.cages, h.inUse, h.downloads, h.mistaken), k>>
<1> DEFINE r == With(h.rec, h.nextId, FailedRec(j, left = "waits"))
           n == h.nextId + 1
           a == [h EXCEPT !.rec = r]
           b == [a EXCEPT !.nextId = n]
<1>2. a = HopOf(h.phase, h.boots, h.nextId, h.nextSeq, h.jobs, r, h.loads, h.cages, h.inUse, h.downloads, h.mistaken)
  BY DEF IsHop, HopOf
<1>1. NewTask(<<h, k>>, j, left) = <<b, k>>
  <2>1. a.nextId = h.nextId
    BY <1>2 DEF HopOf
  <2> QED
    BY <2>1 DEF NewTask, FailedRec
<1> HIDE DEF r, n
<1> HIDE DEF a
<1>3. b = HopOf(h.phase, h.boots, n, h.nextSeq, h.jobs, r, h.loads, h.cages, h.inUse, h.downloads, h.mistaken)
  BY <1>2 DEF HopOf
<1> QED
  BY <1>1, <1>3 DEF r, n

LEMMA RefusesWell ==
  ASSUME NEW h, NEW k, NEW j \in Job, SoundBut(h, k, {}), h.phase = "up", h.nextId <= MaxId,
         NEW left, left # "awaits"
  PROVE  LeftWell(h, NewTask(<<h, k>>, j, left))
<1> DEFINE n == h.nextId
           e == FailedRec(j, left = "waits")
           g == HopOf(h.phase, h.boots, h.nextId + 1, h.nextSeq, h.jobs, With(h.rec, n, e),
                      h.loads, h.cages, h.inUse, h.downloads, h.mistaken)
<1>1. /\ HopTyped(h) /\ KernTyped(h, k) /\ CageBooks(h) /\ OneStream(h) /\ SlotsFit(h, k)
      /\ LoadsApart(h) /\ TasksFit(h, {}) /\ AppsCaged(h, k) /\ SavedFits(h, k)
  BY DEF SoundBut
<1>2. NewTask(<<h, k>>, j, left) = <<g, k>>
  BY <1>1, RefusedIs DEF HopTyped
<1>3. n \in Nat /\ n \in Id /\ n \notin Given(h) /\ 1..(n + 1 - 1) = Given(h) \cup {n}
  BY <1>1, ResidentAssumption DEF HopTyped, Given, Id
<1>4. e \in Record /\ e.state = "Failed"
  BY DEF Record, FailedRec
<1>5. n \notin DOMAIN h.rec /\ \A i \in DOMAIN h.loads : h.loads[i].task # n
  <2>1. DOMAIN h.rec \subseteq Given(h) /\ \A i \in DOMAIN h.loads : h.loads[i].task \in Given(h)
    BY <1>1 DEF HopTyped
  <2> HIDE DEF n
  <2> QED
    BY <2>1, <1>3
<1> HIDE DEF e
<1>6. /\ IsHop(g) /\ g.phase = h.phase /\ g.boots = h.boots /\ g.nextId = n + 1 /\ g.nextSeq = h.nextSeq
      /\ g.jobs = h.jobs /\ g.rec = With(h.rec, n, e) /\ g.loads = h.loads
      /\ g.cages = h.cages /\ g.inUse = h.inUse /\ g.downloads = h.downloads /\ g.mistaken = h.mistaken
  BY HopFields
<1> HIDE DEF g
<1>7. /\ DOMAIN g.rec = DOMAIN h.rec \cup {n} /\ g.rec[n] = e
      /\ g.rec = [y \in DOMAIN g.rec |-> g.rec[y]] /\ \A y \in DOMAIN h.rec : g.rec[y] = h.rec[y]
  BY <1>5, <1>6 DEF With
<1>8. Given(g) = Given(h) \cup {n}
  BY <1>3, <1>6 DEF Given
<1>9. HopTyped(g)
  <2>1. h.rec \in [DOMAIN h.rec -> Record] /\ DOMAIN h.rec \subseteq Given(h)
    BY <1>1 DEF HopTyped
  <2>2. g.rec \in [DOMAIN g.rec -> Record] /\ DOMAIN g.rec \subseteq Given(g)
    BY <2>1, <1>4, <1>7, <1>8
  <2>3. g.nextId \in 1..(MaxId + 1)
    BY <1>3, <1>6, ResidentAssumption DEF Id
  <2> QED
    BY <2>2, <2>3, <1>1, <1>6, <1>8 DEF HopTyped
<1>10. KernTyped(g, k)
  BY <1>1, <1>8 DEF KernTyped
<1>11. Streams(g) = Streams(h)
  BY <1>6 DEF Streams
<1>12. CageBooks(g) /\ OneStream(g) /\ SlotsFit(g, k) /\ LoadsApart(g)
  BY <1>1, <1>6, <1>11 DEF CageBooks, OneStream, SlotsFit, LoadsApart
<1>13. TasksFit(g, {})
  <2>1. ASSUME NEW i \in DOMAIN g.loads, NEW t, t = g.loads[i].task, t \in DOMAIN g.rec
        PROVE  g.rec[t].state = "Starting" /\ t \in DOMAIN g.cages
    BY <2>1, <1>1, <1>5, <1>6, <1>7 DEF TasksFit
  <2>2. ASSUME NEW y \in DOMAIN g.rec
        PROVE  /\ g.rec[y].state = "Running" =>
                    /\ g.rec[y].pid # None /\ y \in DOMAIN g.cages
                    /\ g.cages[y].phase = "Armed" /\ g.cages[y].slot = g.rec[y].pid
               /\ g.rec[y].waits => g.rec[y].state = "Failed"
    <3>1. CASE y = n
      BY <3>1, <1>4, <1>7
    <3>2. CASE y \in DOMAIN h.rec
      BY <3>2, <1>1, <1>6, <1>7 DEF TasksFit
    <3> QED
      BY <3>1, <3>2, <1>7
  <2>3. \A y \in Streams(g) : g.loads # <<>> /\ g.loads[1].task = y
    BY <1>1, <1>6, <1>11 DEF TasksFit
  <2> QED
    BY <2>1, <2>2, <2>3 DEF TasksFit
<1>14. AppsCaged(g, k) /\ SavedFits(g, k)
  BY <1>1, <1>6 DEF AppsCaged, SavedFits
<1>15. Keeps(h, g)
  BY <1>6, <1>8 DEF Keeps
<1>16. SoundBut(g, k, {})
  BY <1>9, <1>10, <1>12, <1>13, <1>14 DEF SoundBut
<1> QED
  BY <1>2, <1>15, <1>16 DEF LeftWell

LEMMA TriesWell ==
  ASSUME NEW h, NEW k, NEW j \in Job, SoundBut(h, k, {}), h.phase = "up", h.nextId <= MaxId, NEW left
  PROVE  LeftWell(h, NewTask(<<h, k>>, j, left))
  BY StartsWell, RefusesWell

LEMMA LeftOn ==
  ASSUME NEW h, NEW g, NEW q, Keeps(h, g), LeftWell(g, q)
  PROVE  LeftWell(h, q)
  BY KeepsOn DEF LeftWell

LEMMA ForgetOne ==
  ASSUME NEW h, NEW k, NEW id, SoundBut(h, k, {id}), h.phase = "up"
  PROVE  /\ SoundBut(Forget(h, {id}), k, {id}) /\ Keeps(h, Forget(h, {id})) /\ SameCages(h, Forget(h, {id}))
         /\ id \notin DOMAIN Forget(h, {id}).rec
<1> DEFINE X == {id}
<1>1. SoundBut(h, k, X) /\ id \in X
  OBVIOUS
<1> HIDE DEF X
<1>2. /\ SoundBut(Forget(h, X), k, X) /\ Keeps(h, Forget(h, X)) /\ SameCages(h, Forget(h, X))
      /\ Forget(h, X).rec = Cut(h.rec, X)
  BY <1>1, ForgetKeeps
<1>3. id \notin DOMAIN Forget(h, X).rec
  BY <1>1, <1>2 DEF Cut
<1> QED
  BY <1>2, <1>3 DEF X

\* q is what the stop of task id has made of h.
Stopped(h, id, q) ==
  \E g, m :
    /\ q = <<g, m>> /\ SoundBut(g, m, {id}) /\ Keeps(h, g) /\ id \notin DOMAIN g.cages
    /\ g.rec = h.rec /\ g.loads = h.loads /\ g.jobs = h.jobs /\ g.nextId = h.nextId

LEMMA StopOne ==
  ASSUME NEW h, NEW k, NEW id, SoundBut(h, k, {id})
  PROVE  Stopped(h, id, RunnerStop(<<h, k>>, {id}))
<1> DEFINE X == {id}
           g == DropCages(h, X)
           m == StopSlots(k, SlotsOf(h, X))
<1>1. SoundBut(h, k, X) /\ id \in X /\ X \cup X = X
  OBVIOUS
<1>2. RunnerStop(<<h, k>>, {id}) = <<g, m>>
  BY DEF RunnerStop
<1>3. SoundBut(g, m, X \cup X) /\ Keeps(h, g) /\ DOMAIN g.cages = DOMAIN h.cages \ X
      /\ g.rec = h.rec /\ g.loads = h.loads /\ g.jobs = h.jobs /\ g.nextId = h.nextId
  <2> HIDE DEF X
  <2>1. g = DropCages(h, X) /\ m = StopSlots(k, SlotsOf(h, X))
    OBVIOUS
  <2> HIDE DEF g, m
  <2> QED
    BY <2>1, <1>1, StopKeeps
<1> HIDE DEF g, m
<1>4. SoundBut(g, m, {id}) /\ id \notin DOMAIN g.cages
  BY <1>1, <1>3
<1> QED
  BY <1>2, <1>3, <1>4 DEF Stopped

\* What failed is forgotten, replaced, or kept as failed.
LEMMA DecidesWell ==
  ASSUME NEW h, NEW k, NEW id \in DOMAIN h.rec, NEW d, SoundBut(h, k, {id}), h.phase = "up",
         \A i \in DOMAIN h.loads : h.loads[i].task # id, id \notin Streams(h),
         d.fires => h.nextId <= MaxId
  PROVE  LeftWell(h, RestartDecide(<<h, k>>, id, d))
<1> DEFINE j == h.rec[id].job
           g == Forget(h, {id})
<1>1. HopTyped(h) /\ h.rec[id] \in Record /\ j \in Job
  BY DEF SoundBut, HopTyped, Record
<1>2. /\ SoundBut(g, k, {id}) /\ Keeps(h, g) /\ SameCages(h, g) /\ id \notin DOMAIN g.rec
  BY ForgetOne
<1>3. id \notin Streams(g) /\ g.phase = "up" /\ g.nextId = h.nextId
  BY <1>2 DEF SameCages, Streams
<1>4. SoundBut(g, k, {})
  BY <1>2, <1>3, LessToDo
<1>5. CASE j \notin h.jobs
  <2>1. RestartDecide(<<h, k>>, id, d) = <<g, k>>
    BY <1>5 DEF RestartDecide
  <2> QED
    BY <2>1, <1>2, <1>4 DEF LeftWell
<1>6. CASE j \in h.jobs /\ d.fires
  <2>1. RestartDecide(<<h, k>>, id, d) = NewTask(<<g, k>>, j, d.left)
    BY <1>6 DEF RestartDecide
  <2> HIDE DEF g, j
  <2>2. LeftWell(g, NewTask(<<g, k>>, j, d.left))
    BY <1>1, <1>3, <1>4, <1>6, TriesWell
  <2> QED
    BY <2>1, <2>2, <1>2, LeftOn
<1>7. CASE j \in h.jobs /\ ~d.fires
  <2> DEFINE w == d.left = "waits"
             e == [job |-> j, state |-> "Failed", pid |-> h.rec[id].pid, waits |-> w]
             f == WithRec(h, Set(h.rec, id, e))
  <2>1. RestartDecide(<<h, k>>, id, d) = <<f, k>>
    <3>1. RestartDecide(<<h, k>>, id, d) =
            <<[h EXCEPT !.rec[id].state = "Failed", !.rec[id].waits = w], k>>
      BY <1>7 DEF RestartDecide
    <3> HIDE DEF w
    <3>2. [h.rec[id] EXCEPT !.state = "Failed", !.waits = w] = e
      <4> DEFINE o == h.rec[id]
                 u == [o EXCEPT !.state = "Failed"]
      <4>1. o = [job |-> o.job, state |-> o.state, pid |-> o.pid, waits |-> o.waits]
        BY <1>1 DEF Record
      <4>2. u = [job |-> o.job, state |-> "Failed", pid |-> o.pid, waits |-> o.waits]
        BY <4>1
      <4> HIDE DEF u
      <4>3. [u EXCEPT !.waits = w] = e
        BY <4>2
      <4> QED
        BY <4>3 DEF u
    <3>3. [h EXCEPT !.rec[id].state = "Failed", !.rec[id].waits = w] = [h EXCEPT !.rec = Set(h.rec, id, e)]
      BY <1>1, <3>2 DEF Set, HopTyped, IsHop, HopOf
    <3>4. [h EXCEPT !.rec = Set(h.rec, id, e)] = f
      <4> HIDE DEF e
      <4> QED
        BY <1>1 DEF HopTyped, IsHop, HopOf, WithRec
    <3> QED
      BY <3>1, <3>3, <3>4
  <2>2. e \in Record /\ e.state = "Failed"
    BY <1>1 DEF Record
  <2> HIDE DEF e
  <2>3. SoundBut(f, k, {}) /\ Keeps(h, f)
    BY <2>2, RecordSet
  <2> QED
    BY <2>1, <2>3 DEF LeftWell
<1> QED
  BY <1>5, <1>6, <1>7

\* First the slot, then the decision.
LEMMA SchedulesWell ==
  ASSUME NEW h, NEW k, NEW id \in DOMAIN h.rec, NEW d, SoundBut(h, k, {id}), h.phase = "up",
         \A i \in DOMAIN h.loads : h.loads[i].task # id,
         d.fires => h.nextId <= MaxId
  PROVE  LeftWell(h, ScheduleRestart(<<h, k>>, id, d))
<1>1. ScheduleRestart(<<h, k>>, id, d) = RestartDecide(RunnerStop(<<h, k>>, {id}), id, d)
  BY DEF ScheduleRestart
<1>2. PICK g, m :
        /\ RunnerStop(<<h, k>>, {id}) = <<g, m>> /\ SoundBut(g, m, {id}) /\ Keeps(h, g) /\ id \notin DOMAIN g.cages
        /\ g.rec = h.rec /\ g.loads = h.loads /\ g.nextId = h.nextId
  <2> DEFINE q == RunnerStop(<<h, k>>, {id})
  <2>1. Stopped(h, id, q)
    BY StopOne
  <2> HIDE DEF q
  <2>2. \E g, m :
          /\ q = <<g, m>> /\ SoundBut(g, m, {id}) /\ Keeps(h, g) /\ id \notin DOMAIN g.cages
          /\ g.rec = h.rec /\ g.loads = h.loads /\ g.jobs = h.jobs /\ g.nextId = h.nextId
    BY <2>1 DEF Stopped
  <2> QED
    BY <2>2 DEF q
<1>3. g.phase = "up" /\ id \notin Streams(g)
  BY <1>2 DEF Keeps, Streams
<1>4. LeftWell(g, RestartDecide(<<g, m>>, id, d))
  BY <1>2, <1>3, DecidesWell
<1> QED
  BY <1>1, <1>2, <1>4, LeftOn

\* on_started, of a task whose load is gone.
LEMMA StartedWell ==
  ASSUME NEW h, NEW k, NEW id, NEW d, NEW res \in {"ok", "noCapacity", "failed"}, NEW pid,
         SoundBut(h, k, {id}), h.phase = "up",
         \A i \in DOMAIN h.loads : h.loads[i].task # id,
         res # "ok" => id \notin DOMAIN h.cages,
         res = "ok" =>
           /\ pid \in Slot
           /\ id \in DOMAIN h.rec =>
                ~h.rec[id].waits /\ id \in DOMAIN h.cages /\ h.cages[id].phase = "Armed" /\ h.cages[id].slot = pid,
         d.fires => h.nextId <= MaxId
  PROVE  LeftWell(h, OnStarted(<<h, k>>, id, res, pid, d))
<1> DEFINE alive == id \in DOMAIN h.rec /\ h.rec[id].job \in h.jobs
           g == Forget(h, {id})
<1>1. HopTyped(h)
  BY DEF SoundBut
<1>2. /\ SoundBut(g, k, {id}) /\ Keeps(h, g) /\ SameCages(h, g) /\ id \notin DOMAIN g.rec
  BY ForgetOne
<1>3. CASE res = "ok" /\ alive
  <2> DEFINE e == [job |-> h.rec[id].job, state |-> "Running", pid |-> pid, waits |-> h.rec[id].waits]
             f == WithRec(h, Set(h.rec, id, e))
  <2>0. h.rec[id] \in Record /\ id \in DOMAIN h.rec
    BY <1>1, <1>3 DEF HopTyped
  <2>1. OnStarted(<<h, k>>, id, res, pid, d) = <<f, k>>
    <3>1. OnStarted(<<h, k>>, id, res, pid, d) =
            <<[h EXCEPT !.rec[id].state = "Running", !.rec[id].pid = pid], k>>
      BY <1>3 DEF OnStarted
    <3>2. [h.rec[id] EXCEPT !.state = "Running", !.pid = pid] = e
      <4> DEFINE o == h.rec[id]
                 u == [o EXCEPT !.state = "Running"]
      <4>1. o = [job |-> o.job, state |-> o.state, pid |-> o.pid, waits |-> o.waits]
        BY <2>0 DEF Record
      <4>2. u = [job |-> o.job, state |-> "Running", pid |-> o.pid, waits |-> o.waits]
        BY <4>1
      <4> HIDE DEF u
      <4>3. [u EXCEPT !.pid = pid] = e
        BY <4>2
      <4> QED
        BY <4>3 DEF u
    <3>3. [h EXCEPT !.rec[id].state = "Running", !.rec[id].pid = pid] = [h EXCEPT !.rec = Set(h.rec, id, e)]
      BY <1>1, <2>0, <3>2 DEF Set, HopTyped, IsHop, HopOf
    <3>4. [h EXCEPT !.rec = Set(h.rec, id, e)] = f
      <4> HIDE DEF e
      <4> QED
        BY <1>1 DEF HopTyped, IsHop, HopOf, WithRec
    <3> QED
      BY <3>1, <3>3, <3>4
  <2>2. e \in Record /\ e.state = "Running" /\ e.pid = pid /\ ~e.waits
    BY <2>0, <1>3 DEF Record
  <2>3. pid # None /\ id \notin Streams(h) /\ id \in DOMAIN h.cages /\ h.cages[id].phase = "Armed" /\ h.cages[id].slot = pid
    BY <1>3 DEF Slot, None, Streams
  <2> HIDE DEF e
  <2>4. SoundBut(f, k, {}) /\ Keeps(h, f)
    BY <2>0, <2>2, <2>3, RecordSet
  <2> QED
    BY <2>1, <2>4 DEF LeftWell
<1>4. CASE res = "ok" /\ ~alive
  <2>1. OnStarted(<<h, k>>, id, res, pid, d) = RunnerStop(<<g, k>>, {id})
    BY <1>4 DEF OnStarted
  <2> HIDE DEF g
  <2>2. PICK f, m :
          /\ RunnerStop(<<g, k>>, {id}) = <<f, m>> /\ SoundBut(f, m, {id}) /\ Keeps(g, f)
          /\ id \notin DOMAIN f.cages /\ f.rec = g.rec
    BY <1>2, StopOne DEF Stopped
  <2>3. SoundBut(f, m, {})
    BY <2>2, <1>2, LessToDo DEF Streams
  <2>4. Keeps(h, f)
    BY <2>2, <1>2, KeepsOn
  <2> QED
    BY <2>1, <2>2, <2>3, <2>4 DEF LeftWell
<1>5. CASE res = "noCapacity"
  <2>1. OnStarted(<<h, k>>, id, res, pid, d) = <<g, k>>
    BY <1>5 DEF OnStarted
  <2>2. id \notin Streams(g)
    BY <1>2, <1>5 DEF SameCages, Streams
  <2> HIDE DEF g
  <2>3. SoundBut(g, k, {})
    BY <2>2, <1>2, LessToDo
  <2> QED
    BY <2>1, <2>3, <1>2 DEF LeftWell
<1>6. CASE res = "failed" /\ id \in DOMAIN h.rec
  <2>1. OnStarted(<<h, k>>, id, res, pid, d) = ScheduleRestart(<<h, k>>, id, d)
    BY <1>6 DEF OnStarted
  <2> QED
    BY <2>1, <1>6, SchedulesWell
<1>7. CASE res = "failed" /\ id \notin DOMAIN h.rec
  <2>1. OnStarted(<<h, k>>, id, res, pid, d) = <<h, k>>
    BY <1>7 DEF OnStarted
  <2>2. SoundBut(h, k, {})
    BY <1>7, LessToDo DEF Streams
  <2>3. Keeps(h, h)
    BY DEF Keeps
  <2> QED
    BY <2>1, <2>2, <2>3 DEF LeftWell
<1> QED
  BY <1>3, <1>4, <1>5, <1>6, <1>7

\* finish_load: the first load ends, well or not.
LEMMA FinishesWell ==
  ASSUME NEW h, NEW k, NEW d, NEW res \in {"ok", "noCapacity", "failed"}, NEW pid,
         SoundBut(h, k, {First(h)}), h.phase = "up", h.loads # <<>>,
         res = "ok" => SoundBut(h, k, {}) /\ pid # None /\ pid = h.loads[1].placed,
         d.fires => h.nextId <= MaxId
  PROVE  LeftWell(h, FinishLoad(<<h, k>>, res, pid, d))
<1> DEFINE t == First(h)
           g == WithLoads(h, Rest(h.loads))
<1>1. HopTyped(h) /\ h.loads \in Seq(Loading) /\ 1 \in DOMAIN h.loads
  BY DEF SoundBut, HopTyped
<1>2. [h EXCEPT !.loads = Tail(@)] = g
  <2> DEFINE l == Rest(h.loads)
  <2>1. [h EXCEPT !.loads = Tail(@)] = [h EXCEPT !.loads = l]
    BY DEF Rest
  <2> HIDE DEF l
  <2>2. [h EXCEPT !.loads = l] = WithLoads(h, l)
    BY <1>1 DEF HopTyped, IsHop, HopOf, WithLoads
  <2> QED
    BY <2>1, <2>2 DEF l
<1>3. /\ SoundBut(g, k, {t}) /\ Keeps(h, g) /\ SameCages(h, g) /\ g.rec = h.rec
      /\ \A i \in DOMAIN g.loads : g.loads[i].task # t
  BY PopKeeps
<1>4. g.phase = "up" /\ g.nextId = h.nextId
  BY <1>3 DEF SameCages
<1>5. CASE res = "ok"
  <2>1. FinishLoad(<<h, k>>, res, pid, d) = OnStarted(<<g, k>>, t, res, pid, d)
    BY <1>2, <1>5 DEF FinishLoad, First
  <2>2. pid \in Slot
    <3>1. h.loads[1] \in Loading
      BY <1>1
    <3> QED
      BY <3>1, <1>5 DEF Loading
  <2>3. t \in DOMAIN g.rec =>
          ~g.rec[t].waits /\ t \in DOMAIN g.cages /\ g.cages[t].phase = "Armed" /\ g.cages[t].slot = pid
    <3> SUFFICES ASSUME t \in DOMAIN h.rec
                 PROVE  ~h.rec[t].waits /\ t \in DOMAIN h.cages /\ h.cages[t].phase = "Armed" /\ h.cages[t].slot = pid
      BY <1>3 DEF SameCages
    <3>1. TasksFit(h, {}) /\ LoadsApart(h) /\ t = h.loads[1].task
      BY <1>5 DEF SoundBut, First
    <3>2. h.rec[t].state = "Starting" /\ t \in DOMAIN h.cages /\ (h.rec[t].waits => h.rec[t].state = "Failed")
      BY <3>1, <1>1 DEF TasksFit
    <3>3. h.cages[t].phase = "Armed" /\ h.cages[t].slot = pid
      BY <3>1, <3>2, <1>1, <1>5 DEF LoadsApart
    <3> QED
      BY <3>2, <3>3
  <2> HIDE DEF g, t
  <2>4. LeftWell(g, OnStarted(<<g, k>>, t, res, pid, d))
    BY <2>2, <2>3, <1>3, <1>4, <1>5, StartedWell
  <2> QED
    BY <2>1, <2>4, <1>3, LeftOn
<1>6. CASE res # "ok"
  <2>1. FinishLoad(<<h, k>>, res, pid, d) = OnStarted(RunnerStop(<<g, k>>, {t}), t, res, pid, d)
    BY <1>2, <1>6 DEF FinishLoad, First
  <2> HIDE DEF g, t
  <2>2. PICK f, m :
          /\ RunnerStop(<<g, k>>, {t}) = <<f, m>> /\ SoundBut(f, m, {t}) /\ Keeps(g, f) /\ t \notin DOMAIN f.cages
          /\ f.loads = g.loads /\ f.nextId = g.nextId
    <3>1. SoundBut(g, k, {t})
      BY <1>3
    <3>2. Stopped(g, t, RunnerStop(<<g, k>>, {t}))
      BY <3>1, StopOne
    <3> QED
      BY <3>2 DEF Stopped
  <2>3. f.phase = "up"
    BY <2>2, <1>4 DEF Keeps
  <2>4. LeftWell(f, OnStarted(<<f, m>>, t, res, pid, d))
    BY <2>2, <2>3, <1>3, <1>4, <1>6, StartedWell
  <2>5. Keeps(h, f)
    BY <2>2, <1>3, KeepsOn
  <2> QED
    BY <2>1, <2>2, <2>4, <2>5, LeftOn
<1> QED
  BY <1>5, <1>6
-----------------------------------------------------------------------------
(* An image comes in *)

LEMMA LeastIsIn ==
  ASSUME NEW S, S \subseteq Nat, S # {}
  PROVE  \E x \in S : \A y \in S : x <= y
<1> DEFINE R == {p \in Nat \X Nat : p[1] < p[2]}
<1>1. IsWellFoundedOn(R, Nat)
  BY NatLessThanWellFounded DEF OpToRel
<1>2. PICK x \in S : \A y \in S : ~(<<y, x>> \in R)
  <2> HIDE DEF R
  <2> QED
    BY <1>1, WFMin
<1>3. ASSUME NEW y \in S PROVE x <= y
  <2>1. <<y, x>> \in Nat \X Nat /\ x \in Nat /\ y \in Nat
    OBVIOUS
  <2>2. ~(y < x)
    BY <2>1, <1>2
  <2> QED
    BY <2>1, <2>2
<1> QED
  BY <1>3

LEMMA MinIsIn ==
  ASSUME NEW S, S \subseteq Nat, S # {}
  PROVE  Min(S) \in S
  BY LeastIsIn DEF Min

KernWith(k, s, x) == [slots |-> Set(k.slots, s, x), state |-> k.state, fresh |-> k.fresh]

LEMMA KernSets ==
  ASSUME NEW h, NEW k, KernTyped(h, k), NEW s \in Slot, NEW x \in SlotRec, NEW m, m = KernWith(k, s, x)
  PROVE  /\ KernTyped(h, m) /\ m.state = k.state /\ m.slots[s] = x
         /\ \A z \in Slot : z # s => m.slots[z] = k.slots[z]
<1>1. m.slots = Set(k.slots, s, x) /\ m.state = k.state /\ m.fresh = k.fresh
      /\ m = [slots |-> m.slots, state |-> m.state, fresh |-> m.fresh]
  BY DEF KernWith
<1>2. k.slots \in [Slot -> SlotRec]
  BY DEF KernTyped
<1>3. m.slots \in [Slot -> SlotRec] /\ m.slots[s] = x /\ \A z \in Slot : z # s => m.slots[z] = k.slots[z]
  BY <1>1, <1>2 DEF Set
<1> QED
  BY <1>1, <1>3 DEF KernTyped, IsKern

\* What a slot has of the cage c of task y.
Fit(c, y, known, x) ==
  /\ c.phase = "Streaming" =>
       x.state = "Streaming" /\ x.task = y /\ x.got = c.done /\ c.done < SIZE
  /\ c.phase = "Armed" => x.state = "Running" /\ (known => x.task = y)

\* The parts of the invariant from what they say of each cage, load and record.
LEMMA SlotsFitIf ==
  ASSUME NEW h, NEW k, \A s \in Slot : k.slots[s].on => k.slots[s].state = "Running",
         \A y \in DOMAIN h.cages : Fit(h.cages[y], y, y \notin h.mistaken, k.slots[h.cages[y].slot])
  PROVE  SlotsFit(h, k)
  BY DEF SlotsFit, Fit

LoadFits(h, o) ==
  o.placed # None /\ o.task \in DOMAIN h.cages =>
    h.cages[o.task].phase = "Armed" /\ h.cages[o.task].slot = o.placed

LEMMA LoadsApartIf ==
  ASSUME NEW h, \A i, j \in DOMAIN h.loads : h.loads[i].task = h.loads[j].task => i = j,
         \A i \in DOMAIN h.loads : LoadFits(h, h.loads[i])
  PROVE  LoadsApart(h)
  BY DEF LoadsApart, LoadFits

TaskFits(h, t) ==
  t \in DOMAIN h.rec => h.rec[t].state = "Starting" /\ t \in DOMAIN h.cages

RecFits(h, y) ==
  /\ h.rec[y].state = "Running" =>
       /\ h.rec[y].pid # None /\ y \in DOMAIN h.cages
       /\ h.cages[y].phase = "Armed" /\ h.cages[y].slot = h.rec[y].pid
  /\ h.rec[y].waits => h.rec[y].state = "Failed"

LEMMA TasksFitIf ==
  ASSUME NEW h, \A i \in DOMAIN h.loads : TaskFits(h, h.loads[i].task),
         \A y \in DOMAIN h.rec : RecFits(h, y),
         \A y \in Streams(h) : h.loads # <<>> /\ h.loads[1].task = y
  PROVE  TasksFit(h, {})
  BY DEF TasksFit, TaskFits, RecFits

\* The loads of g are those of h, but that the first may know its slot.
SameLoads(h, g, s) ==
  /\ g.loads \in Seq(Loading) /\ DOMAIN g.loads = DOMAIN h.loads
  /\ \A i \in DOMAIN h.loads :
       /\ g.loads[i].task = h.loads[i].task /\ g.loads[i].seq = h.loads[i].seq
       /\ g.loads[i].placed = h.loads[i].placed \/ (i = 1 /\ g.loads[i].placed = s)

Imaged(h, id, c, s, l) ==
  HopOf(h.phase, h.boots, h.nextId, h.nextSeq, h.jobs, h.rec, l, Set(h.cages, id, c),
        With(h.inUse, s, id), IF c.phase = "Streaming" THEN 1 ELSE 0, h.mistaken)

\* The cage c of the first load begins to stream into slot s, goes on, or is full;
\* x is what the kernel then has there.
LEMMA ImageMoves ==
  ASSUME NEW h, NEW k, SoundBut(h, k, {}), h.phase = "up", h.loads # <<>>,
         NEW id \in DOMAIN h.cages, id = First(h), h.cages[id].phase # "Armed",
         NEW s \in Slot, NEW c \in Cage, NEW x \in SlotRec,
         c.slot = s, c.phase # "Queued",
         h.cages[id].phase = "Queued" => k.slots[s].state = "Empty",
         h.cages[id].phase = "Streaming" => h.cages[id].slot = s,
         x.task = id, x.on => x.state = "Running",
         c.phase = "Streaming" => x.state = "Streaming" /\ x.got = c.done /\ c.done < SIZE,
         c.phase = "Armed" => x.state = "Running",
         NEW l, NEW g,
         g = Imaged(h, id, c, s, l),
         SameLoads(h, g, s), c.phase # "Armed" => \A i \in DOMAIN h.loads : g.loads[i].placed = h.loads[i].placed,
         NEW m, m = KernWith(k, s, x)
  PROVE  LeftWell(h, <<g, m>>)
<1>1. /\ HopTyped(h) /\ KernTyped(h, k) /\ CageBooks(h) /\ OneStream(h) /\ SlotsFit(h, k)
      /\ LoadsApart(h) /\ TasksFit(h, {}) /\ AppsCaged(h, k) /\ SavedFits(h, k)
  BY DEF SoundBut
<1>2. /\ IsHop(g) /\ g.phase = h.phase /\ g.boots = h.boots /\ g.nextId = h.nextId /\ g.nextSeq = h.nextSeq
      /\ g.jobs = h.jobs /\ g.rec = h.rec /\ g.cages = Set(h.cages, id, c)
      /\ g.inUse = With(h.inUse, s, id) /\ g.mistaken = h.mistaken
      /\ g.downloads = IF c.phase = "Streaming" THEN 1 ELSE 0
  BY HopFields DEF Imaged
<1>3. /\ DOMAIN g.cages = DOMAIN h.cages /\ g.cages[id] = c
      /\ \A y \in DOMAIN h.cages : y # id => g.cages[y] = h.cages[y]
      /\ g.cages = [y \in DOMAIN g.cages |-> g.cages[y]]
  <2>1. h.cages = [y \in DOMAIN h.cages |-> h.cages[y]]
    BY <1>1 DEF HopTyped
  <2> QED
    BY <2>1, <1>2 DEF Set
<1>4. /\ DOMAIN g.inUse = DOMAIN h.inUse \cup {s} /\ g.inUse[s] = id
      /\ \A z \in DOMAIN h.inUse : z # s => g.inUse[z] = h.inUse[z]
      /\ g.inUse = [z \in DOMAIN g.inUse |-> g.inUse[z]]
  BY <1>2 DEF With
<1>5. KernTyped(h, m) /\ m.state = k.state /\ m.slots[s] = x /\ \A z \in Slot : z # s => m.slots[z] = k.slots[z]
  BY <1>1, KernSets
<1>6. Given(g) = Given(h)
  BY <1>2 DEF Given
<1>7. /\ \A y \in DOMAIN h.cages : h.cages[y] \in Cage /\ y \in Given(h)
      /\ Given(h) \subseteq Id /\ s # None /\ h.loads \in Seq(Loading) /\ 1 \in DOMAIN h.loads
  BY <1>1, ResidentAssumption DEF HopTyped, Given, Id, Slot, None
\* no other cage has the slot
<1>8. ASSUME NEW y \in DOMAIN h.cages, y # id, h.cages[y].phase # "Queued"
      PROVE  h.cages[y].slot \in Slot /\ h.cages[y].slot # s /\ h.cages[y].slot \in DOMAIN h.inUse
  <2>1. h.cages[y].slot \in DOMAIN h.inUse /\ h.inUse[h.cages[y].slot] = y /\ h.cages[y].slot \in Slot
    BY <1>1, <1>8 DEF CageBooks, HopTyped
  <2>2. CASE h.cages[id].phase = "Queued"
    <3>1. h.cages[y].phase \in {"Streaming", "Armed"}
      BY <1>7, <1>8 DEF Cage
    <3>2. k.slots[h.cages[y].slot].state # "Empty"
      BY <3>1, <1>1, <1>8 DEF SlotsFit
    <3> QED
      BY <2>1, <2>2, <3>2
  <2>3. CASE h.cages[id].phase = "Streaming"
    <3>1. h.inUse[s] = id
      BY <2>3, <1>1 DEF CageBooks
    <3> QED
      BY <2>1, <3>1, <1>8
  <2>4. h.cages[id].phase \in {"Queued", "Streaming"}
    BY <1>7 DEF Cage
  <2> QED
    BY <2>2, <2>3, <2>4
<1>9. HopTyped(g)
  <2>1. g.cages \in [DOMAIN g.cages -> Cage] /\ DOMAIN g.cages \subseteq Given(g)
    BY <1>3, <1>6, <1>7
  <2>2. g.inUse \in [DOMAIN g.inUse -> Id] /\ DOMAIN g.inUse \subseteq Slot
    <3>1. h.inUse \in [DOMAIN h.inUse -> Id] /\ DOMAIN h.inUse \subseteq Slot
      BY <1>1 DEF HopTyped
    <3>2. id \in Id
      BY <1>7
    <3>3. \A z \in DOMAIN g.inUse : g.inUse[z] \in Id /\ z \in Slot
      BY <3>1, <3>2, <1>4
    <3>4. g.inUse = [z \in DOMAIN g.inUse |-> g.inUse[z]]
      BY <1>4
    <3> QED
      BY <3>3, <3>4
  <2>3. /\ g.loads \in Seq(Loading)
        /\ \A i \in DOMAIN g.loads : g.loads[i].task \in Given(g) /\ g.loads[i].seq < g.nextSeq
    BY <1>1, <1>2, <1>6 DEF HopTyped, SameLoads
  <2>4. HopTyped(h)
    BY <1>1
  <2>5. g.downloads \in Nat
    BY <1>2
  <2> QED
    BY <2>1, <2>2, <2>3, <2>4, <2>5, <1>2, <1>6 DEF HopTyped
<1>10. KernTyped(g, m)
  BY <1>5, <1>6 DEF KernTyped
<1>11. CageBooks(g)
  <2>1. ASSUME NEW z \in DOMAIN g.inUse PROVE g.inUse[z] \in DOMAIN g.cages /\ g.cages[g.inUse[z]].slot = z
    <3>1. CASE z = s
      BY <3>1, <1>3, <1>4
    <3>2. CASE z # s
      <4>1. z \in DOMAIN h.inUse /\ g.inUse[z] = h.inUse[z] /\ z \in Slot
        BY <3>2, <2>1, <1>1, <1>4 DEF HopTyped
      <4>2. h.inUse[z] \in DOMAIN h.cages /\ h.cages[h.inUse[z]].slot = z /\ z # None
        BY <4>1, <1>1 DEF CageBooks, Slot, None
      <4>3. h.inUse[z] # id
        <5>1. h.cages[id].phase \in {"Queued", "Streaming"}
          BY <1>7 DEF Cage
        <5> QED
          BY <5>1, <4>2, <3>2, <1>1 DEF CageBooks
      <4> QED
        BY <4>1, <4>2, <4>3, <1>3
    <3> QED
      BY <3>1, <3>2
  <2>2. ASSUME NEW y \in DOMAIN g.cages
        PROVE  /\ g.cages[y].phase = "Queued" => g.cages[y].slot = None
               /\ g.cages[y].phase # "Queued" =>
                    g.cages[y].slot \in DOMAIN g.inUse /\ g.inUse[g.cages[y].slot] = y
    <3>1. CASE y = id
      BY <3>1, <1>3, <1>4
    <3>2. CASE y # id
      <4>1. g.cages[y] = h.cages[y] /\ y \in DOMAIN h.cages
        BY <3>2, <2>2, <1>3
      <4>2. CASE h.cages[y].phase = "Queued"
        BY <4>1, <4>2, <1>1 DEF CageBooks
      <4>3. CASE h.cages[y].phase # "Queued"
        <5>1. h.cages[y].slot # s /\ h.cages[y].slot \in DOMAIN h.inUse /\ h.inUse[h.cages[y].slot] = y
          BY <4>1, <4>3, <3>2, <1>1, <1>8 DEF CageBooks
        <5> QED
          BY <5>1, <4>1, <4>3, <1>4
      <4> QED
        BY <4>2, <4>3
    <3> QED
      BY <3>1, <3>2
  <2> QED
    BY <2>1, <2>2 DEF CageBooks
<1>12. Streams(h) \subseteq {id}
  BY <1>1 DEF TasksFit, First
<1>13. Streams(g) = IF c.phase = "Streaming" THEN {id} ELSE {}
  <2>1. \A y \in DOMAIN h.cages : y # id => g.cages[y].phase # "Streaming"
    BY <1>3, <1>12 DEF Streams
  <2> QED
    BY <2>1, <1>3 DEF Streams
<1>14. OneStream(g)
  BY <1>2, <1>13 DEF OneStream
<1>15. SlotsFit(g, m)
  <2>1. ASSUME NEW z \in Slot, m.slots[z].on PROVE m.slots[z].state = "Running"
    BY <2>1, <1>1, <1>5 DEF SlotsFit
  <2>2. ASSUME NEW y \in DOMAIN g.cages
        PROVE  Fit(g.cages[y], y, y \notin g.mistaken, m.slots[g.cages[y].slot])
    <3>1. CASE y = id
      <4>1. c.phase \in {"Queued", "Streaming", "Armed"}
        BY DEF Cage
      <4>2. Fit(c, id, id \notin g.mistaken, x)
        BY <4>1 DEF Fit
      <4>3. g.cages[y] = c /\ m.slots[c.slot] = x
        BY <3>1, <1>3, <1>5
      <4> QED
        BY <4>2, <4>3, <3>1
    <3>2. CASE y # id /\ h.cages[y].phase # "Queued"
      <4>1. g.cages[y] = h.cages[y] /\ y \in DOMAIN h.cages
        BY <3>2, <2>2, <1>3
      <4>2. m.slots[h.cages[y].slot] = k.slots[h.cages[y].slot]
        BY <3>2, <4>1, <1>5, <1>8
      <4>3. Fit(h.cages[y], y, y \notin h.mistaken, k.slots[h.cages[y].slot])
        BY <4>1, <1>1 DEF SlotsFit, Fit
      <4> QED
        BY <4>1, <4>2, <4>3, <1>2
    <3>3. CASE y # id /\ h.cages[y].phase = "Queued"
      <4>1. g.cages[y].phase = "Queued"
        BY <3>3, <2>2, <1>3
      <4> QED
        BY <4>1 DEF Fit
    <3> QED
      BY <3>1, <3>2, <3>3
  <2> QED
    BY <2>1, <2>2, SlotsFitIf
<1>16. LoadsApart(g)
  <2>1. \A i, j \in DOMAIN g.loads : g.loads[i].task = g.loads[j].task => i = j
    BY <1>1 DEF LoadsApart, SameLoads
  <2>2. ASSUME NEW i \in DOMAIN g.loads PROVE LoadFits(g, g.loads[i])
    <3> DEFINE t == g.loads[i].task
    <3> SUFFICES ASSUME g.loads[i].placed # None, t \in DOMAIN g.cages
                 PROVE  g.cages[t].phase = "Armed" /\ g.cages[t].slot = g.loads[i].placed
      BY DEF LoadFits
    <3>1. i \in DOMAIN h.loads /\ t = h.loads[i].task /\ t \in DOMAIN h.cages
      BY <2>2, <1>3 DEF SameLoads
    <3>2. CASE g.loads[i].placed = h.loads[i].placed
      <4>1. h.cages[t].phase = "Armed" /\ h.cages[t].slot = h.loads[i].placed
        BY <3>1, <3>2, <2>2, <1>1 DEF LoadsApart
      <4>2. t # id
        BY <4>1
      <4> QED
        BY <4>1, <4>2, <3>1, <3>2, <1>3
    <3>3. CASE g.loads[i].placed # h.loads[i].placed
      <4>1. i = 1 /\ g.loads[i].placed = s /\ c.phase = "Armed"
        BY <3>1, <3>3 DEF SameLoads
      <4>2. t = id
        BY <4>1, <3>1 DEF First
      <4> QED
        BY <4>1, <4>2, <1>3
    <3> QED
      BY <3>2, <3>3
  <2> QED
    BY <2>1, <2>2, LoadsApartIf
<1>17. TasksFit(g, {})
  <2>1. ASSUME NEW i \in DOMAIN g.loads PROVE TaskFits(g, g.loads[i].task)
    <3> DEFINE t == g.loads[i].task
    <3> SUFFICES ASSUME t \in DOMAIN g.rec PROVE g.rec[t].state = "Starting" /\ t \in DOMAIN g.cages
      BY DEF TaskFits
    <3>1. i \in DOMAIN h.loads /\ h.loads[i].task = t /\ t \in DOMAIN h.rec \ {}
      BY <2>1, <1>2 DEF SameLoads
    <3>2. h.rec[t].state = "Starting" /\ t \in DOMAIN h.cages
      BY <3>1, <1>1 DEF TasksFit
    <3> QED
      BY <3>2, <1>2, <1>3
  <2>2. ASSUME NEW y \in DOMAIN g.rec
        PROVE  RecFits(g, y)
    <3>1. /\ h.rec[y].state = "Running" =>
               /\ h.rec[y].pid # None /\ y \in DOMAIN h.cages
               /\ h.cages[y].phase = "Armed" /\ h.cages[y].slot = h.rec[y].pid
          /\ h.rec[y].waits => h.rec[y].state = "Failed"
      <4>1. y \in DOMAIN h.rec \ {}
        BY <2>2, <1>2
      <4> QED
        BY <4>1, <1>1 DEF TasksFit
    <3>2. g.rec[y] = h.rec[y] /\ (y \in DOMAIN h.cages /\ h.cages[y].phase = "Armed" => g.cages[y] = h.cages[y])
      BY <1>2, <1>3
    <3> QED
      BY <3>1, <3>2, <1>3 DEF RecFits
  <2>3. ASSUME NEW y \in Streams(g) PROVE g.loads # <<>> /\ g.loads[1].task = y
    <3>1. y = id
      BY <2>3, <1>13
    <3>2. 1 \in DOMAIN g.loads /\ g.loads[1].task = h.loads[1].task
      BY <1>7 DEF SameLoads
    <3> QED
      BY <3>1, <3>2 DEF First
  <2> QED
    BY <2>1, <2>2, <2>3, TasksFitIf
<1>18. AppsCaged(g, m)
  BY <1>1, <1>2, <1>4, <1>5 DEF AppsCaged
<1>19. SavedFits(g, m)
  BY <1>1, <1>2, <1>5 DEF SavedFits
<1>20. Keeps(h, g)
  <2>1. ASSUME NEW y \in DOMAIN g.cages \cap Given(h), h.cages[y].slot # None PROVE g.cages[y].slot = h.cages[y].slot
    <3>1. CASE y = id
      <4>1. h.cages[id].phase = "Streaming"
        BY <3>1, <2>1, <1>1, <1>7 DEF CageBooks, Cage
      <4> QED
        BY <4>1, <3>1, <1>3
    <3>2. CASE y # id
      BY <3>2, <2>1, <1>3
    <3> QED
      BY <3>1, <3>2
  <2> QED
    BY <2>1, <1>2, <1>3, <1>6 DEF Keeps
<1>21. SoundBut(g, m, {})
  BY <1>9, <1>10, <1>11, <1>14, <1>15, <1>16, <1>17, <1>18, <1>19 DEF SoundBut
<1> QED
  BY <1>20, <1>21 DEF LeftWell

\* A load that fails: whatever its cage is.
LEMMA FailsWell ==
  ASSUME NEW h, NEW k, NEW d, NEW res \in {"noCapacity", "failed"},
         SoundBut(h, k, {First(h)}), h.phase = "up", h.loads # <<>>, d.fires => h.nextId <= MaxId
  PROVE  LeftWell(h, FinishLoad(<<h, k>>, res, None, d))
  BY FinishesWell

\* And so it is when its cage was given up before, in q.
LEMMA FailsStopped ==
  ASSUME NEW h, NEW d, NEW res \in {"noCapacity", "failed"}, NEW q, Stopped(h, First(h), q),
         h.phase = "up", h.loads # <<>>, d.fires => h.nextId <= MaxId
  PROVE  LeftWell(h, FinishLoad(q, res, None, d))
<1>1. PICK g, m : /\ q = <<g, m>> /\ SoundBut(g, m, {First(h)}) /\ Keeps(h, g)
                  /\ g.loads = h.loads /\ g.nextId = h.nextId
  BY DEF Stopped
<1>2. First(g) = First(h) /\ g.phase = "up"
  BY <1>1 DEF First, Keeps
<1>3. LeftWell(g, FinishLoad(<<g, m>>, res, None, d))
  BY <1>1, <1>2, FailsWell
<1> QED
  BY <1>1, <1>3, LeftOn

\* A cage that waits for its image has no slot to give back.
LEMMA QueuedStops ==
  ASSUME NEW h, NEW k, SoundBut(h, k, {}), NEW id \in DOMAIN h.cages, h.cages[id].phase = "Queued"
  PROVE  Stopped(h, id, <<DropCages(h, {id}), k>>)
<1>1. HopTyped(h) /\ KernTyped(h, k) /\ CageBooks(h)
  BY DEF SoundBut
<1>2. SlotsOf(h, {id}) = {None}
  BY <1>1 DEF SlotsOf, CageBooks
<1>3. StopSlots(k, {None}) = k
  <2> DEFINE f == [s \in Slot |-> IF s \in {None} THEN EmptySlot ELSE k.slots[s]]
  <2>1. f = k.slots
    <3>1. \A s \in Slot : s \notin {None}
      BY DEF Slot, None
    <3>2. k.slots = [s \in Slot |-> k.slots[s]]
      BY <1>1 DEF KernTyped
    <3> QED
      BY <3>1, <3>2
  <2>2. StopSlots(k, {None}) = [k EXCEPT !.slots = f]
    BY DEF StopSlots
  <2> HIDE DEF f
  <2> QED
    BY <2>1, <2>2, <1>1 DEF KernTyped, IsKern
<1>4. SoundBut(h, k, {id})
  BY MoreToDo
<1>5. RunnerStop(<<h, k>>, {id}) = <<DropCages(h, {id}), k>>
  BY <1>2, <1>3 DEF RunnerStop
<1> QED
  BY <1>4, <1>5, StopOne

\* image_begin
LEMMA BeginWell ==
  ASSUME NEW h, NEW k, SoundBut(h, k, {}), h.phase = "up", h.loads # <<>>, NEW size \in Nat,
         NEW ans, NEW d, d.fires => h.nextId <= MaxId
  PROVE  LeftWell(h, ImageBegin(<<h, k>>, First(h), size, ans, d))
<1> DEFINE id == First(h)
           drop == <<DropCages(h, {id}), k>>
           F(q, res) == FinishLoad(q, res, None, d)
           s == Min(FreeSlots(k))
           c == [phase |-> "Streaming", slot |-> s, done |-> 0]
           x == [state |-> "Streaming", on |-> FALSE, task |-> id, got |-> 0]
           b == [h EXCEPT !.inUse = With(@, s, id), !.cages[id] = c, !.downloads = @ + 1]
<1>1. SoundBut(h, k, {id}) /\ HopTyped(h) /\ KernTyped(h, k) /\ OneStream(h) /\ TasksFit(h, {})
  BY MoreToDo DEF SoundBut
<1>2. LeftWell(h, F(<<h, k>>, "failed"))
  BY <1>1, FailsWell
<1>3. ASSUME id \in DOMAIN h.cages, h.cages[id].phase = "Queued", NEW res \in {"noCapacity", "failed"}
      PROVE  LeftWell(h, F(drop, res))
  <2>1. Stopped(h, First(h), drop)
    BY <1>3, QueuedStops
  <2> HIDE DEF id, drop
  <2> QED
    BY <2>1, FailsStopped
<1>4. ASSUME id \in DOMAIN h.cages, h.cages[id].phase = "Queued", FreeSlots(k) # {}
      PROVE  LeftWell(h, <<b, StartSlot(k, s, id)>>)
  <2>1. s \in FreeSlots(k)
    <3>1. FreeSlots(k) \subseteq Nat
      BY DEF FreeSlots, Slot
    <3> QED
      BY <3>1, <1>4, MinIsIn
  <2> HIDE DEF s
  <2>2. s \in Slot /\ k.slots[s].state = "Empty"
    BY <2>1 DEF FreeSlots
  <2>3. id \in Id
    BY <1>1, <1>4, ResidentAssumption DEF HopTyped, Given, Id
  <2>4. /\ c \in Cage /\ c.slot = s /\ c.phase = "Streaming" /\ c.done = 0
        /\ x \in SlotRec /\ x.task = id /\ x.state = "Streaming" /\ x.got = 0 /\ ~x.on
    BY <2>2, <2>3, ResidentAssumption DEF Cage, SlotRec
  <2>5. StartSlot(k, s, id) = KernWith(k, s, x)
    <3> DEFINE f == Set(k.slots, s, x)
    <3>1. StartSlot(k, s, id) = [k EXCEPT !.slots = f]
      BY DEF StartSlot, Set
    <3> HIDE DEF f
    <3>2. [k EXCEPT !.slots = f] = [slots |-> f, state |-> k.state, fresh |-> k.fresh]
      BY <1>1 DEF KernTyped, IsKern
    <3> QED
      BY <3>1, <3>2 DEF KernWith, f
  <2>6. h.downloads = 0
    <3>1. Streams(h) = {}
      BY <1>1, <1>4 DEF TasksFit, Streams, First
    <3> QED
      BY <3>1, <1>1 DEF OneStream
  <2> DEFINE g == HopOf(h.phase, h.boots, h.nextId, h.nextSeq, h.jobs, h.rec, h.loads, Set(h.cages, id, c),
                        With(h.inUse, s, id), IF c.phase = "Streaming" THEN 1 ELSE 0, h.mistaken)
  <2>7. b = g
    <3> DEFINE u == With(h.inUse, s, id)
               w == Set(h.cages, id, c)
               b1 == [h EXCEPT !.inUse = u]
               b2 == [b1 EXCEPT !.cages = w]
    <3>1. b1 = HopOf(h.phase, h.boots, h.nextId, h.nextSeq, h.jobs, h.rec, h.loads, h.cages, u, h.downloads, h.mistaken)
      <4> HIDE DEF u
      <4> QED
        BY <1>1 DEF HopTyped, IsHop, HopOf
    <3>2. b2 = HopOf(h.phase, h.boots, h.nextId, h.nextSeq, h.jobs, h.rec, h.loads, w, u, h.downloads, h.mistaken)
      <4> HIDE DEF u, w, b1
      <4> QED
        BY <3>1 DEF HopOf
    <3>3. b = [b2 EXCEPT !.downloads = h.downloads + 1]
      <4> HIDE DEF u, c
      <4>1. b1.cages = h.cages
        BY <3>1 DEF HopOf
      <4>2. b2.downloads = h.downloads
        BY <3>2 DEF HopOf
      <4> QED
        BY <4>1, <4>2 DEF Set, u
    <3>4. [b2 EXCEPT !.downloads = h.downloads + 1] =
            HopOf(h.phase, h.boots, h.nextId, h.nextSeq, h.jobs, h.rec, h.loads, w, u, h.downloads + 1, h.mistaken)
      <4> HIDE DEF b2, u, w
      <4> QED
        BY <3>2 DEF HopOf
    <3> HIDE DEF b2, u, w
    <3>5. h.downloads + 1 = (IF c.phase = "Streaming" THEN 1 ELSE 0)
      BY <2>4, <2>6
    <3> HIDE DEF b, c
    <3> QED
      BY <3>3, <3>4, <3>5 DEF u, w
  <2>8. SameLoads(h, g, s) /\ \A i \in DOMAIN h.loads : g.loads[i].placed = h.loads[i].placed
    <3>1. g.loads = h.loads
      BY HopFields
    <3> QED
      BY <3>1, <1>1 DEF SameLoads, HopTyped
  <2>9. 0 < SIZE
    BY ResidentAssumption
  <2>10. id = First(h)
    OBVIOUS
  <2> HIDE DEF b, c, x, id
  <2>11. LeftWell(h, <<g, KernWith(k, s, x)>>)
    <3>1. g = Imaged(h, id, c, s, h.loads)
      BY DEF Imaged
    <3> HIDE DEF g
    <3>2. /\ c.phase # "Queued" /\ c.phase # "Armed" /\ (c.phase = "Streaming" => x.state = "Streaming" /\ x.got = c.done /\ c.done < SIZE)
          /\ (x.on => x.state = "Running") /\ c \in Cage /\ x \in SlotRec /\ c.slot = s /\ x.task = id
      BY <2>4, <2>9
    <3>3. /\ h.cages[id].phase # "Armed" /\ h.cages[id].phase # "Streaming" /\ id \in DOMAIN h.cages
          /\ s \in Slot /\ k.slots[s].state = "Empty" /\ id = First(h)
      BY <1>4, <2>2, <2>10
    <3> QED
      BY <3>1, <3>2, <3>3, <2>8, ImageMoves
  <2> HIDE DEF g
  <2> QED
    BY <2>5, <2>7, <2>11
<1> HIDE DEF F, drop, b, s
<1>5. CASE id \notin DOMAIN h.cages \/ h.cages[id].phase # "Queued"
  <2>1. ImageBegin(<<h, k>>, id, size, ans, d) = F(<<h, k>>, "failed")
    BY <1>5 DEF ImageBegin, F
  <2> QED
    BY <2>1, <1>2
<1>6. CASE id \in DOMAIN h.cages /\ h.cages[id].phase = "Queued" /\ size = 0
  <2>1. ImageBegin(<<h, k>>, id, size, ans, d) = F(drop, "failed")
    BY <1>6 DEF ImageBegin, F, drop
  <2> QED
    BY <2>1, <1>3, <1>6
<1>7. CASE id \in DOMAIN h.cages /\ h.cages[id].phase = "Queued" /\ size > 0
           /\ h.downloads >= MAX_CONCURRENT_DOWNLOADS
  <2>1. ImageBegin(<<h, k>>, id, size, ans, d) = F(<<h, k>>, "failed")
    BY <1>7 DEF ImageBegin, F
  <2> QED
    BY <2>1, <1>2
<1>8. CASE id \in DOMAIN h.cages /\ h.cages[id].phase = "Queued" /\ size > 0
           /\ ~(h.downloads >= MAX_CONCURRENT_DOWNLOADS)
  <2>1. CASE ans = "refused"
    <3>1. ImageBegin(<<h, k>>, id, size, ans, d) = F(drop, "failed")
      BY <1>8, <2>1 DEF ImageBegin, F, drop
    <3> QED
      BY <3>1, <1>3, <1>8
  <2>2. CASE ans # "refused" /\ FreeSlots(k) = {}
    <3>1. ImageBegin(<<h, k>>, id, size, ans, d) = F(drop, "noCapacity")
      BY <1>8, <2>2 DEF ImageBegin, F, drop
    <3> QED
      BY <3>1, <1>3, <1>8
  <2>3. CASE ans # "refused" /\ FreeSlots(k) # {}
    <3>1. ImageBegin(<<h, k>>, id, size, ans, d) = <<b, StartSlot(k, s, id)>>
      BY <1>8, <2>3 DEF ImageBegin, b, s
    <3> QED
      BY <3>1, <2>3, <1>4, <1>8
  <2> QED
    BY <2>1, <2>2, <2>3
<1>9. size = 0 \/ size > 0
  OBVIOUS
<1> QED
  BY <1>5, <1>6, <1>7, <1>8, <1>9

\* What a piece makes of the slot it goes to.
Filled(o) ==
  [state |-> IF o.got + 1 = SIZE THEN "Running" ELSE o.state, on |-> o.got + 1 = SIZE, task |-> o.task,
   got |-> o.got + 1]

LEMMA StreamIs ==
  ASSUME NEW h, NEW k, KernTyped(h, k), NEW s \in Slot
  PROVE  StreamImage(k, s) = KernWith(k, s, Filled(k.slots[s]))
<1> DEFINE o == k.slots[s]
           x == Filled(o)
           o1 == [o EXCEPT !.got = o.got + 1]
           o2 == [o1 EXCEPT !.state = IF o.got + 1 = SIZE THEN "Running" ELSE o.state]
           f == Set(k.slots, s, x)
<1>1. k.slots \in [Slot -> SlotRec] /\ o \in SlotRec
  BY DEF KernTyped
<1>2. o = [state |-> o.state, on |-> o.on, task |-> o.task, got |-> o.got]
  BY <1>1 DEF SlotRec
<1>3. o1 = [state |-> o.state, on |-> o.on, task |-> o.task, got |-> o.got + 1]
  BY <1>2
<1>4. o2 = [state |-> IF o.got + 1 = SIZE THEN "Running" ELSE o.state, on |-> o.on, task |-> o.task, got |-> o.got + 1]
  <2> HIDE DEF o1
  <2> QED
    BY <1>3
<1>5. [o2 EXCEPT !.on = (o.got + 1 = SIZE)] = x
  <2> HIDE DEF o2
  <2> QED
    BY <1>4 DEF Filled
<1>6. StreamImage(k, s) = [k EXCEPT !.slots = f]
  <2> DEFINE k1 == [k EXCEPT !.slots = Set(k.slots, s, o1)]
             k2 == [k1 EXCEPT !.slots = Set(k1.slots, s, o2)]
             k3 == [k2 EXCEPT !.slots = Set(k2.slots, s, x)]
  <2>1. k = [slots |-> k.slots, state |-> k.state, fresh |-> k.fresh]
    BY DEF KernTyped, IsKern
  <2>2. k1 = [slots |-> Set(k.slots, s, o1), state |-> k.state, fresh |-> k.fresh]
    BY <2>1
  <2>3. k1.slots = Set(k.slots, s, o1)
    BY <2>2
  <2>4. Set(k1.slots, s, o2) = Set(k.slots, s, o2) /\ k1.slots[s] = o1
    BY <2>3, <1>1 DEF Set
  <2>5. k2 = [slots |-> Set(k.slots, s, o2), state |-> k.state, fresh |-> k.fresh]
    <3> HIDE DEF k1
    <3> QED
      BY <2>2, <2>4
  <2>6. k2.slots = Set(k.slots, s, o2)
    <3> HIDE DEF k2
    <3> QED
      BY <2>5
  <2>7. Set(k2.slots, s, x) = Set(k.slots, s, x) /\ k2.slots[s] = o2
    <3> HIDE DEF x
    <3> QED
      BY <2>6, <1>1 DEF Set
  <2>8. k3 = [slots |-> f, state |-> k.state, fresh |-> k.fresh]
    <3> HIDE DEF k2
    <3> QED
      BY <2>5, <2>7
  <2>9. [k EXCEPT !.slots = f] = [slots |-> f, state |-> k.state, fresh |-> k.fresh]
    <3> HIDE DEF f
    <3> QED
      BY <2>1
  <2>10. StreamImage(k, s) = k3
    <3>1. StreamImage(k, s) =
            [[[k EXCEPT !.slots = Set(k.slots, s, o1)]
                EXCEPT !.slots = Set(k1.slots, s, [k1.slots[s] EXCEPT !.state = IF o.got + 1 = SIZE THEN "Running" ELSE k1.slots[s].state])]
                EXCEPT !.slots = Set(k2.slots, s, [k2.slots[s] EXCEPT !.on = (o.got + 1 = SIZE)])]
      <4>1. o1.state = o.state
        BY <1>3
      <4> QED
        BY <4>1, <2>4, <2>7 DEF StreamImage, Set
    <3>2. o1.state = o.state
      BY <1>3
    <3> HIDE DEF x
    <3> QED
      BY <3>1, <3>2, <2>4, <2>7, <1>5
  <2> QED
    BY <2>8, <2>9, <2>10
<1> HIDE DEF f
<1>7. [k EXCEPT !.slots = f] = [slots |-> f, state |-> k.state, fresh |-> k.fresh]
  BY DEF KernTyped, IsKern
<1> QED
  BY <1>6, <1>7 DEF KernWith, f

\* image_chunk
LEMMA ChunkWell ==
  ASSUME NEW h, NEW k, SoundBut(h, k, {}), h.phase = "up", h.loads # <<>>,
         NEW ans, NEW d, d.fires => h.nextId <= MaxId
  PROVE  LeftWell(h, ImageChunk(<<h, k>>, First(h), ans, d))
<1> DEFINE id == First(h)
           s == h.cages[id].slot
           n == h.cages[id].done + 1
           o == k.slots[s]
           x == Filled(o)
           m == KernWith(k, s, x)
<1>1. /\ SoundBut(h, k, {id}) /\ HopTyped(h) /\ KernTyped(h, k) /\ OneStream(h) /\ CageBooks(h)
      /\ SlotsFit(h, k) /\ LoadsApart(h)
  BY MoreToDo DEF SoundBut
<1>2. CASE id \notin DOMAIN h.cages \/ h.cages[id].phase # "Streaming"
  <2>1. ImageChunk(<<h, k>>, id, ans, d) = FinishLoad(<<h, k>>, "failed", None, d)
    BY <1>2 DEF ImageChunk
  <2>2. LeftWell(h, FinishLoad(<<h, k>>, "failed", None, d))
    BY <1>1, FailsWell
  <2> QED
    BY <2>1, <2>2
<1>3. CASE id \in DOMAIN h.cages /\ h.cages[id].phase = "Streaming"
  <2>1. h.cages[id] \in Cage /\ id \in Id
    BY <1>1, <1>3, ResidentAssumption DEF HopTyped, Given, Id
  <2>2. s \in Slot /\ s \in DOMAIN h.inUse /\ h.inUse[s] = id /\ h.inUse = [z \in DOMAIN h.inUse |-> h.inUse[z]]
    BY <1>1, <1>3 DEF CageBooks, HopTyped
  <2>3. o \in SlotRec
    BY <1>1, <2>2 DEF KernTyped
  <2>4. o.state = "Streaming" /\ o.task = id /\ o.got = h.cages[id].done /\ h.cages[id].done < SIZE
    BY <1>1, <1>3 DEF SlotsFit
  <2>5. h.cages[id].done \in 0..SIZE /\ n \in 0..SIZE /\ SIZE \in Nat
    BY <2>1, <2>4, ResidentAssumption DEF Cage
  <2>6. /\ x \in SlotRec /\ x.task = id /\ x.got = n
        /\ n = SIZE => x.state = "Running" /\ x.on
        /\ n # SIZE => x.state = "Streaming" /\ ~x.on
    BY <2>1, <2>3, <2>4, <2>5 DEF SlotRec, Filled
  <2>7. StreamImage(k, s) = m
    BY <1>1, <2>2, StreamIs
  <2>8. h.downloads = 1
    BY <1>1, <1>3 DEF OneStream, Streams
  <2>9. With(h.inUse, s, id) = h.inUse
    BY <2>2 DEF With
  <2>10. CASE ans = "refused"
    <3>1. ImageChunk(<<h, k>>, id, ans, d) =
            FinishLoad(<<DropCages(h, {id}), StopSlots(k, {s})>>, "failed", None, d)
      BY <1>3, <2>10 DEF ImageChunk
    <3>2. SlotsOf(h, {id}) = {s}
      BY <1>3 DEF SlotsOf
    <3>3. RunnerStop(<<h, k>>, {id}) = <<DropCages(h, {id}), StopSlots(k, {s})>>
      BY <3>2 DEF RunnerStop
    <3>4. Stopped(h, First(h), <<DropCages(h, {id}), StopSlots(k, {s})>>)
      BY <1>1, <3>3, StopOne
    <3> HIDE DEF id, s
    <3>5. LeftWell(h, FinishLoad(<<DropCages(h, {id}), StopSlots(k, {s})>>, "failed", None, d))
      BY <3>4, FailsStopped
    <3> QED
      BY <3>1, <3>5 DEF id
  <2>11. CASE ans # "refused" /\ n < SIZE
    <3> DEFINE c == [phase |-> "Streaming", slot |-> s, done |-> n]
               g == HopOf(h.phase, h.boots, h.nextId, h.nextSeq, h.jobs, h.rec, h.loads, Set(h.cages, id, c),
                          With(h.inUse, s, id), IF c.phase = "Streaming" THEN 1 ELSE 0, h.mistaken)
    <3>1. ImageChunk(<<h, k>>, id, ans, d) = <<[h EXCEPT !.cages[id].done = n], StreamImage(k, s)>>
      BY <1>3, <2>11 DEF ImageChunk
    <3>2. [h EXCEPT !.cages[id].done = n] = g
      <4>1. [h.cages[id] EXCEPT !.done = n] = c
        <5>1. h.cages[id] = [phase |-> h.cages[id].phase, slot |-> s, done |-> h.cages[id].done]
          BY <2>1 DEF Cage
        <5> QED
          BY <5>1, <1>3
      <4> DEFINE w == Set(h.cages, id, c)
      <4>2. [h EXCEPT !.cages[id].done = n] = [h EXCEPT !.cages = w]
        <5> HIDE DEF c
        <5> QED
          BY <4>1 DEF Set
      <4> HIDE DEF w
      <4>3. [h EXCEPT !.cages = w] =
              HopOf(h.phase, h.boots, h.nextId, h.nextSeq, h.jobs, h.rec, h.loads, w, h.inUse, h.downloads, h.mistaken)
        BY <1>1 DEF HopTyped, IsHop, HopOf
      <4>4. h.downloads = (IF c.phase = "Streaming" THEN 1 ELSE 0)
        BY <2>8
      <4> HIDE DEF c
      <4> QED
        BY <4>2, <4>3, <4>4, <2>9 DEF w
    <3>3. SameLoads(h, g, s) /\ \A i \in DOMAIN h.loads : g.loads[i].placed = h.loads[i].placed
      <4>1. g.loads = h.loads
        BY HopFields
      <4> QED
        BY <4>1, <1>1 DEF SameLoads, HopTyped
    <3>4. c \in Cage /\ c.slot = s /\ c.phase = "Streaming" /\ c.done = n
      BY <2>2, <2>5 DEF Cage
    <3>5. g = Imaged(h, id, c, s, h.loads)
      BY DEF Imaged
    <3>6. m = KernWith(k, s, x) /\ id = First(h) /\ s = h.cages[id].slot
      OBVIOUS
    <3>7. x.state = "Streaming" /\ ~x.on /\ x.got = n /\ x.task = id /\ x \in SlotRec
      BY <2>5, <2>6, <2>11
    <3> HIDE DEF g, c, m, x, id, s, n, o
    <3>8. /\ c.phase # "Queued" /\ c.phase # "Armed" /\ (c.phase = "Streaming" => x.state = "Streaming" /\ x.got = c.done /\ c.done < SIZE)
          /\ (x.on => x.state = "Running")
      BY <3>4, <3>7, <2>11
    <3>9. h.cages[id].phase # "Armed" /\ h.cages[id].phase # "Queued" /\ id \in DOMAIN h.cages
      BY <1>3
    <3>10. LeftWell(h, <<g, m>>)
      BY <3>3, <3>4, <3>5, <3>6, <3>7, <3>8, <3>9, <2>2, ImageMoves
    <3> QED
      BY <3>1, <3>2, <3>10, <2>7 DEF id
  <2>12. CASE ans # "refused" /\ ~(n < SIZE)
    <3> DEFINE c == [phase |-> "Armed", slot |-> s, done |-> n]
               y == [seq |-> h.loads[1].seq, task |-> h.loads[1].task, sent |-> h.loads[1].sent, placed |-> s]
               l == Set(h.loads, 1, y)
               g == HopOf(h.phase, h.boots, h.nextId, h.nextSeq, h.jobs, h.rec, l, Set(h.cages, id, c),
                          With(h.inUse, s, id), IF c.phase = "Streaming" THEN 1 ELSE 0, h.mistaken)
               b == [h EXCEPT !.cages[id] = c, !.downloads = @ - 1, !.loads[1].placed = s]
    <3>1. ImageChunk(<<h, k>>, id, ans, d) = <<b, StreamImage(k, s)>>
      BY <1>3, <2>12 DEF ImageChunk
    <3>0. h.loads \in Seq(Loading) /\ 1 \in DOMAIN h.loads /\ h.loads[1] \in Loading /\ n = SIZE
      BY <1>1, <2>5, <2>12 DEF HopTyped
    <3>2. b = g
      <4> DEFINE w == Set(h.cages, id, c)
                 b1 == [h EXCEPT !.cages = w]
                 b2 == [b1 EXCEPT !.downloads = h.downloads - 1]
      <4>1. b1 = HopOf(h.phase, h.boots, h.nextId, h.nextSeq, h.jobs, h.rec, h.loads, w, h.inUse, h.downloads, h.mistaken)
        <5> HIDE DEF w
        <5> QED
          BY <1>1 DEF HopTyped, IsHop, HopOf
      <4>2. b2 = HopOf(h.phase, h.boots, h.nextId, h.nextSeq, h.jobs, h.rec, h.loads, w, h.inUse, h.downloads - 1, h.mistaken)
        <5> HIDE DEF w, b1
        <5> QED
          BY <4>1 DEF HopOf
      <4>3. [h.loads[1] EXCEPT !.placed = s] = y
        BY <3>0 DEF Loading
      <4>4. b = [b2 EXCEPT !.loads = l]
        <5> HIDE DEF c, y
        <5>1. b1.downloads = h.downloads
          BY <4>1 DEF HopOf
        <5>2. b2.loads = h.loads
          BY <4>2 DEF HopOf
        <5>3. b = [b2 EXCEPT !.loads = [b2.loads EXCEPT ![1] = [b2.loads[1] EXCEPT !.placed = s]]]
          BY <5>1 DEF Set
        <5> HIDE DEF b, b2
        <5> QED
          BY <5>2, <5>3, <4>3 DEF Set
      <4>5. [b2 EXCEPT !.loads = l] =
              HopOf(h.phase, h.boots, h.nextId, h.nextSeq, h.jobs, h.rec, l, w, h.inUse, h.downloads - 1, h.mistaken)
        <5> HIDE DEF b2, w, l
        <5> QED
          BY <4>2 DEF HopOf
      <4>6. h.downloads - 1 = (IF c.phase = "Streaming" THEN 1 ELSE 0)
        BY <2>8
      <4> HIDE DEF b, b2, l, c
      <4> QED
        BY <4>4, <4>5, <4>6, <2>9 DEF w
    <3>3. SameLoads(h, g, s)
      <4>1. g.loads = l
        BY HopFields
      <4>2. y \in Loading /\ y.task = h.loads[1].task /\ y.seq = h.loads[1].seq /\ y.placed = s
        BY <3>0, <2>2 DEF Loading
      <4> HIDE DEF y, g
      <4>3. /\ l \in Seq(Loading) /\ DOMAIN l = DOMAIN h.loads /\ l[1] = y
            /\ \A i \in DOMAIN h.loads : i # 1 => l[i] = h.loads[i]
        BY <3>0, <4>2 DEF Set
      <4> HIDE DEF l
      <4> QED
        BY <4>1, <4>2, <4>3 DEF SameLoads
    <3>4. c \in Cage /\ c.slot = s /\ c.phase = "Armed"
      BY <2>2, <2>5 DEF Cage
    <3>5. g = Imaged(h, id, c, s, l)
      BY DEF Imaged
    <3>6. m = KernWith(k, s, x) /\ id = First(h) /\ s = h.cages[id].slot
      OBVIOUS
    <3>7. x.state = "Running" /\ x.task = id /\ x \in SlotRec
      BY <3>0, <2>6
    <3> HIDE DEF g, c, m, x, id, s, n, o, l, b
    <3>8. c.phase # "Queued" /\ c.phase # "Streaming"
      BY <3>4
    <3>9. h.cages[id].phase # "Armed" /\ h.cages[id].phase # "Queued" /\ id \in DOMAIN h.cages
      BY <1>3
    <3>10. LeftWell(h, <<g, m>>)
      BY <3>3, <3>4, <3>5, <3>6, <3>7, <3>8, <3>9, <2>2, ImageMoves
    <3> QED
      BY <3>1, <3>2, <3>10, <2>7 DEF id
  <2> QED
    BY <2>10, <2>11, <2>12
<1> QED
  BY <1>2, <1>3

\* on_piece
LEMMA PieceWell ==
  ASSUME NEW h, NEW k, SoundBut(h, k, {}), h.phase = "up", NEW seq \in Nat, NEW piece,
         NEW ans, NEW d, d.fires => h.nextId <= MaxId
  PROVE  seq # None => LeftWell(h, OnPiece(<<h, k>>, seq, piece, ans, d))
<1> SUFFICES ASSUME seq # None PROVE LeftWell(h, OnPiece(<<h, k>>, seq, piece, ans, d))
  OBVIOUS
<1>1. CASE Wanted(h) # seq
  <2>1. OnPiece(<<h, k>>, seq, piece, ans, d) = <<h, k>>
    BY <1>1 DEF OnPiece
  <2>2. Keeps(h, h)
    BY DEF Keeps
  <2> QED
    BY <2>1, <2>2 DEF LeftWell
<1>2. CASE Wanted(h) = seq
  <2> DEFINE p == h.loads[1].placed
             o == OnPiece(<<h, k>>, seq, piece, ans, d)
  <2>1. h.loads # <<>>
    BY <1>2 DEF Wanted
  <2>2. SoundBut(h, k, {First(h)})
    BY MoreToDo
  <2>3. SIZE \in Nat /\ 0 \in Nat
    BY ResidentAssumption
  <2>4. CASE piece = "begin"
    <3>1. o = ImageBegin(<<h, k>>, First(h), SIZE, ans, d)
      BY <1>2, <2>4 DEF OnPiece, First
    <3> QED
      BY <3>1, <2>1, <2>3, BeginWell
  <2>5. CASE piece = "beginNone"
    <3>1. o = ImageBegin(<<h, k>>, First(h), 0, ans, d)
      BY <1>2, <2>5 DEF OnPiece, First
    <3> QED
      BY <3>1, <2>1, <2>3, BeginWell
  <2>6. CASE piece = "bytes"
    <3>1. o = ImageChunk(<<h, k>>, First(h), ans, d)
      BY <1>2, <2>6 DEF OnPiece, First
    <3> QED
      BY <3>1, <2>1, ChunkWell
  <2>7. CASE piece = "endOk" /\ p # None
    <3>1. o = FinishLoad(<<h, k>>, "ok", p, d)
      BY <1>2, <2>7 DEF OnPiece
    <3>2. LeftWell(h, FinishLoad(<<h, k>>, "ok", p, d))
      BY <2>1, <2>2, <2>7, FinishesWell
    <3> QED
      BY <3>1, <3>2
  <2>8. CASE piece \notin {"begin", "beginNone", "bytes"} /\ ~(piece = "endOk" /\ p # None)
    <3>1. o = FinishLoad(<<h, k>>, "failed", None, d)
      BY <1>2, <2>8 DEF OnPiece
    <3>2. LeftWell(h, FinishLoad(<<h, k>>, "failed", None, d))
      BY <2>1, <2>2, FailsWell
    <3> QED
      BY <3>1, <3>2
  <2> QED
    BY <2>4, <2>5, <2>6, <2>7, <2>8
<1> QED
  BY <1>1, <1>2

-----------------------------------------------------------------------------
(* What goes out at the end of a step *)

\* The cages and the records of g are those of h, and its loads but for what was sent.
LEMMA SentKeeps ==
  ASSUME NEW h, NEW k, SoundBut(h, k, {}), NEW g, SameCages(h, g), g.rec = h.rec,
         g.loads \in Seq(Loading), DOMAIN g.loads = DOMAIN h.loads,
         \A i \in DOMAIN h.loads :
           /\ g.loads[i].task = h.loads[i].task /\ g.loads[i].seq = h.loads[i].seq
           /\ g.loads[i].placed = h.loads[i].placed,
         h.phase # "boot"
  PROVE  SoundBut(g, k, {}) /\ Keeps(h, g)
<1>1. /\ HopTyped(h) /\ KernTyped(h, k) /\ CageBooks(h) /\ OneStream(h) /\ SlotsFit(h, k)
      /\ LoadsApart(h) /\ TasksFit(h, {}) /\ AppsCaged(h, k) /\ SavedFits(h, k)
  BY DEF SoundBut
<1>2. Given(g) = Given(h) /\ Streams(g) = Streams(h)
  BY DEF SameCages, Given, Streams
<1>3. HopTyped(g)
  BY <1>1, <1>2 DEF HopTyped, SameCages
<1>4. KernTyped(g, k)
  BY <1>1, <1>2 DEF KernTyped
<1>5. CageBooks(g) /\ OneStream(g)
  BY <1>1, <1>2 DEF CageBooks, OneStream, SameCages
<1>6. SlotsFit(g, k)
  BY <1>1 DEF SlotsFit, SameCages
<1>7. LoadsApart(g)
  <2>1. ASSUME NEW i \in DOMAIN g.loads PROVE LoadFits(g, g.loads[i])
    <3>1. LoadFits(h, h.loads[i])
      BY <1>1 DEF LoadsApart, LoadFits
    <3> QED
      BY <3>1 DEF LoadFits, SameCages
  <2>2. \A i, j \in DOMAIN g.loads : g.loads[i].task = g.loads[j].task => i = j
    BY <1>1 DEF LoadsApart
  <2> QED
    BY <2>1, <2>2, LoadsApartIf
<1>8. TasksFit(g, {})
  <2>1. ASSUME NEW i \in DOMAIN g.loads PROVE TaskFits(g, g.loads[i].task)
    <3>1. TaskFits(h, h.loads[i].task)
      BY <1>1 DEF TasksFit, TaskFits
    <3> QED
      BY <3>1 DEF TaskFits, SameCages
  <2>2. ASSUME NEW y \in DOMAIN g.rec PROVE RecFits(g, y)
    <3>1. RecFits(h, y)
      BY <1>1 DEF TasksFit, RecFits
    <3> QED
      BY <3>1 DEF RecFits, SameCages
  <2>3. ASSUME NEW y \in Streams(g) PROVE g.loads # <<>> /\ g.loads[1].task = y
    <3>1. h.loads # <<>> /\ h.loads[1].task = y /\ h.loads \in Seq(Loading)
      BY <1>1, <1>2 DEF TasksFit, HopTyped
    <3>2. 1 \in DOMAIN h.loads
      BY <3>1
    <3> QED
      BY <3>1, <3>2
  <2> QED
    BY <2>1, <2>2, <2>3, TasksFitIf
<1>9. AppsCaged(g, k) /\ SavedFits(g, k)
  BY <1>1 DEF AppsCaged, SavedFits, SameCages
<1>10. Keeps(h, g)
  BY <1>1, <1>2 DEF Keeps, SameCages
<1> QED
  BY <1>3, <1>4, <1>5, <1>6, <1>7, <1>8, <1>9, <1>10 DEF SoundBut

LoadOf(seq, task, sent, placed) == [seq |-> seq, task |-> task, sent |-> sent, placed |-> placed]

LEMMA LoadIs ==
  ASSUME NEW x, x = LoadOf(x.seq, x.task, x.sent, x.placed), NEW v
  PROVE  [x EXCEPT !.sent = v] = LoadOf(x.seq, x.task, v, x.placed)
  BY DEF LoadOf

\* flush: what goes out is the number of the first load.
LEMMA Flushes ==
  ASSUME NEW h, NEW k, SoundBut(h, k, {}), h.phase # "boot", NEW l, LineTyped(l),
         NEW g, g = Flush(h, l)[1], NEW n, n = Flush(h, l)[2]
  PROVE  SoundBut(g, k, {}) /\ Keeps(h, g) /\ g.rec = h.rec /\ LineTyped(n)
<1> DEFINE due == h.loads # <<>> /\ ~h.loads[1].sent
           fits == Len(l.orders) < ORDERS
           x == h.loads[1]
           y == LoadOf(x.seq, x.task, TRUE, x.placed)
           q == Set(h.loads, 1, y)
           o == Added(l.orders, x.seq)
<1>1. HopTyped(h) /\ IsHop(h) /\ h.loads \in Seq(Loading)
  BY DEF SoundBut, HopTyped
<1>2. CASE due /\ fits
  <2>1. 1 \in DOMAIN h.loads /\ x \in Loading
    BY <1>1, <1>2
  <2>2. y \in Loading /\ y.task = x.task /\ y.seq = x.seq /\ y.placed = x.placed /\ x.seq \in Nat \ {0}
    BY <2>1 DEF Loading, LoadOf
  <2>3. g = WithLoads(h, q)
    <3>1. [x EXCEPT !.sent = TRUE] = y
      <4>1. x = LoadOf(x.seq, x.task, x.sent, x.placed)
        BY <2>1 DEF Loading, LoadOf
      <4> HIDE DEF x
      <4> QED
        BY <4>1, LoadIs
    <3>2. g = [h EXCEPT !.loads[1].sent = TRUE]
      BY <1>2 DEF Flush
    <3>3. [h EXCEPT !.loads[1].sent = TRUE] = [h EXCEPT !.loads = q]
      <4> HIDE DEF y
      <4> QED
        BY <3>1 DEF Set
    <3> HIDE DEF q
    <3>4. [h EXCEPT !.loads = q] = WithLoads(h, q)
      BY <1>1 DEF IsHop, HopOf, WithLoads
    <3> QED
      BY <3>2, <3>3, <3>4
  <2>4. /\ q \in Seq(Loading) /\ DOMAIN q = DOMAIN h.loads /\ q[1] = y
        /\ \A i \in DOMAIN h.loads : i # 1 => q[i] = h.loads[i]
    <3> HIDE DEF y
    <3> QED
      BY <2>1, <2>2, <1>1 DEF Set
  <2>5. g.loads = q /\ g.rec = h.rec /\ SameCages(h, g)
    <3> HIDE DEF q
    <3> QED
      BY <2>3, HopFields DEF WithLoads, SameCages
  <2>6. \A i \in DOMAIN h.loads :
          /\ g.loads[i].task = h.loads[i].task /\ g.loads[i].seq = h.loads[i].seq
          /\ g.loads[i].placed = h.loads[i].placed
    <3> HIDE DEF y, q
    <3> QED
      BY <2>2, <2>4, <2>5
  <2>7. SoundBut(g, k, {}) /\ Keeps(h, g)
    <3> HIDE DEF q
    <3> QED
      BY <2>4, <2>5, <2>6, SentKeeps
  <2>8. n = [l EXCEPT !.orders = o, !.wanted = Wanted(g)]
    <3>1. g = [h EXCEPT !.loads[1].sent = TRUE]
      BY <1>2 DEF Flush
    <3> QED
      BY <3>1, <1>2 DEF Flush, Added
  <2>9. o \in Seq(Nat \ {0}) /\ Len(o) = Len(l.orders) + 1
    <3>1. l.orders \in Seq(Nat \ {0})
      BY DEF LineTyped
    <3> QED
      BY <3>1, <2>2, AppendProperties DEF Added
  <2>10. LineTyped(n)
    <3> HIDE DEF o
    <3> DEFINE w == Wanted(g)
    <3> HIDE DEF w
    <3>1. n = [orders |-> o, pieces |-> l.pieces, wanted |-> w, dl |-> l.dl]
      BY <2>8 DEF LineTyped, w
    <3>2. Len(l.orders) \in Nat /\ ORDERS \in Nat
      BY ResidentAssumption DEF LineTyped
    <3> QED
      BY <3>1, <3>2, <2>9, <1>2 DEF LineTyped
  <2> QED
    BY <2>5, <2>7, <2>10
<1>3. CASE ~(due /\ fits)
  <2>1. g = h /\ n = [l EXCEPT !.orders = l.orders, !.wanted = Wanted(h)]
    BY <1>3 DEF Flush
  <2>2. Keeps(h, h)
    BY DEF Keeps
  <2>3. LineTyped(n)
    <3> DEFINE w == Wanted(h)
    <3> HIDE DEF w
    <3>1. n = [orders |-> l.orders, pieces |-> l.pieces, wanted |-> w, dl |-> l.dl]
      BY <2>1 DEF LineTyped, w
    <3> QED
      BY <3>1 DEF LineTyped
  <2> QED
    BY <2>1, <2>2, <2>3
<1> QED
  BY <1>2, <1>3

\* A step of the owner that goes well.
LEMMA DoneWell ==
  ASSUME NEW p, NEW l, LineTyped(l), LeftWell(hop, p), Up, Done(p, l)
  PROVE  ResidentIInv' /\ Keeps(hop, hop')
<1>1. PICK g, m : p = <<g, m>> /\ SoundBut(g, m, {}) /\ Keeps(hop, g)
  BY DEF LeftWell
<1>2. hop' = Flush(g, l)[1] /\ line' = Flush(g, l)[2] /\ kern' = m
  BY <1>1 DEF Done
<1>3. g.phase = "up"
  BY <1>1 DEF Keeps, Up
<1>4. SoundBut(hop', kern', {}) /\ Keeps(g, hop') /\ LineTyped(line')
  BY <1>1, <1>2, <1>3, Flushes
<1> QED
  BY <1>1, <1>4, KeepsOn DEF ResidentIInv

-----------------------------------------------------------------------------
(* Requests: other jobs, tasks that go, raw images and the saved state *)

LEMMA LeftAlone ==
  ASSUME NEW h, NEW k, SoundBut(h, k, {})
  PROVE  LeftWell(h, <<h, k>>)
<1>1. Keeps(h, h)
  BY DEF Keeps
<1> QED
  BY <1>1 DEF LeftWell

\* Other definitions of jobs.
WithJobs(h, J) ==
  HopOf(h.phase, h.boots, h.nextId, h.nextSeq, J, h.rec, h.loads, h.cages, h.inUse, h.downloads, h.mistaken)

LEMMA JobsKeep ==
  ASSUME NEW h, NEW k, SoundBut(h, k, {}), NEW J, J \subseteq Job, NEW g, g = [h EXCEPT !.jobs = J]
  PROVE  SoundBut(g, k, {}) /\ Keeps(h, g) /\ g.phase = h.phase /\ g.nextId = h.nextId /\ g.rec = h.rec
<1>1. /\ HopTyped(h) /\ KernTyped(h, k) /\ CageBooks(h) /\ OneStream(h) /\ SlotsFit(h, k)
      /\ LoadsApart(h) /\ TasksFit(h, {}) /\ AppsCaged(h, k) /\ SavedFits(h, k)
  BY DEF SoundBut
<1>2. g = WithJobs(h, J)
  BY <1>1 DEF HopTyped, IsHop, HopOf, WithJobs
<1>3. /\ IsHop(g) /\ g.phase = h.phase /\ g.boots = h.boots /\ g.nextId = h.nextId /\ g.nextSeq = h.nextSeq
      /\ g.jobs = J /\ g.rec = h.rec /\ g.loads = h.loads /\ g.cages = h.cages /\ g.inUse = h.inUse
      /\ g.downloads = h.downloads /\ g.mistaken = h.mistaken
  BY <1>2, HopFields DEF WithJobs
<1>4. Given(g) = Given(h) /\ Streams(g) = Streams(h)
  BY <1>3 DEF Given, Streams
<1>5. HopTyped(g)
  BY <1>1, <1>3, <1>4 DEF HopTyped
<1>6. KernTyped(g, k)
  BY <1>1, <1>4 DEF KernTyped
<1>7. CageBooks(g) /\ OneStream(g) /\ SlotsFit(g, k)
  <2>1. CageBooks(g)
    BY <1>1, <1>3 DEF CageBooks
  <2>2. OneStream(g)
    BY <1>1, <1>3, <1>4 DEF OneStream
  <2>3. SlotsFit(g, k)
    BY <1>1, <1>3 DEF SlotsFit
  <2> QED
    BY <2>1, <2>2, <2>3
<1>8. LoadsApart(g) /\ TasksFit(g, {})
  BY <1>1, <1>3, <1>4 DEF LoadsApart, TasksFit
<1>9. AppsCaged(g, k) /\ SavedFits(g, k)
  BY <1>1, <1>3 DEF AppsCaged, SavedFits
<1>10. Keeps(h, g)
  BY <1>1, <1>3, <1>4 DEF Keeps
<1> QED
  BY <1>3, <1>5, <1>6, <1>7, <1>8, <1>9, <1>10 DEF SoundBut

\* remove_and_stop
LEMMA RemovesWell ==
  ASSUME NEW h, NEW k, SoundBut(h, k, {}), h.phase = "up", NEW ids
  PROVE  LeftWell(h, RemoveAndStop(<<h, k>>, ids))
<1> DEFINE g == DropCages(h, ids)
           m == StopSlots(k, SlotsOf(h, ids))
           f == Forget(g, ids)
<1>1. RemoveAndStop(<<h, k>>, ids) = <<f, m>>
  <2>1. RunnerStop(<<h, k>>, ids) = <<g, m>>
    BY DEF RunnerStop
  <2> HIDE DEF g, m
  <2> QED
    BY <2>1 DEF RemoveAndStop
<1>2. SoundBut(g, m, {} \cup ids) /\ Keeps(h, g) /\ DOMAIN g.cages = DOMAIN h.cages \ ids /\ g.rec = h.rec
  <2>1. g = DropCages(h, ids) /\ m = StopSlots(k, SlotsOf(h, ids))
    OBVIOUS
  <2> HIDE DEF g, m
  <2> QED
    BY <2>1, StopKeeps
<1> HIDE DEF g, m
<1>3. g.phase = "up"
  BY <1>2 DEF Keeps
<1>4. SoundBut(f, m, {} \cup ids) /\ Keeps(g, f) /\ SameCages(g, f) /\ f.rec = Cut(g.rec, ids)
  BY <1>2, <1>3, ForgetKeeps
<1> HIDE DEF f
<1>5. \A id \in {} \cup ids : id \notin DOMAIN f.rec /\ id \notin Streams(f)
  BY <1>2, <1>4 DEF Cut, SameCages, Streams
<1>6. SoundBut(f, m, {})
  BY <1>4, <1>5, LessToDo
<1>7. Keeps(h, f)
  BY <1>2, <1>4, KeepsOn
<1> QED
  BY <1>1, <1>6, <1>7 DEF LeftWell

\* A raw image that stays is in a slot of nobody.
LEMMA RawKeeps ==
  ASSUME NEW h, NEW k, SoundBut(h, k, {}), h.phase = "up", NEW kept
  PROVE  SoundBut(h, RawLeft(k, kept), {})
<1> DEFINE s == Min(FreeSlots(k))
           x == [state |-> "Running", on |-> FALSE, task |-> None, got |-> 0]
           m == KernWith(k, s, x)
<1>1. /\ HopTyped(h) /\ KernTyped(h, k) /\ CageBooks(h) /\ OneStream(h) /\ SlotsFit(h, k)
      /\ LoadsApart(h) /\ TasksFit(h, {}) /\ AppsCaged(h, k) /\ SavedFits(h, k)
  BY DEF SoundBut
<1>2. CASE kept /\ FreeSlots(k) # {}
  <2>1. s \in FreeSlots(k)
    <3>1. FreeSlots(k) \subseteq Nat
      BY DEF FreeSlots, Slot
    <3> QED
      BY <3>1, <1>2, MinIsIn
  <2>2. RawLeft(k, kept) = [k EXCEPT !.slots[s] = x]
    BY <1>2 DEF RawLeft
  <2> HIDE DEF s
  <2>3. s \in Slot /\ k.slots[s].state = "Empty"
    BY <2>1 DEF FreeSlots
  <2>4. x \in SlotRec /\ ~x.on
    BY ResidentAssumption DEF SlotRec, None
  <2>5. [k EXCEPT !.slots[s] = x] = m
    <3> DEFINE f == Set(k.slots, s, x)
    <3>1. [k EXCEPT !.slots[s] = x] = [k EXCEPT !.slots = f]
      BY DEF Set
    <3> HIDE DEF f
    <3>2. [k EXCEPT !.slots = f] = [slots |-> f, state |-> k.state, fresh |-> k.fresh]
      BY <1>1 DEF KernTyped, IsKern
    <3> QED
      BY <3>1, <3>2 DEF KernWith, f
  <2> HIDE DEF x
  <2>6. KernTyped(h, m) /\ m.state = k.state /\ m.slots[s] = x /\ \A z \in Slot : z # s => m.slots[z] = k.slots[z]
    BY <1>1, <2>3, <2>4, KernSets
  <2> HIDE DEF m
  <2>7. SlotsFit(h, m)
    <3>1. \A z \in Slot : m.slots[z].on => m.slots[z].state = "Running"
      BY <1>1, <2>4, <2>6 DEF SlotsFit
    <3>2. ASSUME NEW y \in DOMAIN h.cages PROVE Fit(h.cages[y], y, y \notin h.mistaken, m.slots[h.cages[y].slot])
      <4>1. Fit(h.cages[y], y, y \notin h.mistaken, k.slots[h.cages[y].slot])
        BY <1>1 DEF SlotsFit, Fit
      <4>2. CASE h.cages[y].phase \in {"Streaming", "Armed"}
        <5>1. h.cages[y].slot \in Slot
          BY <4>2, <1>1 DEF CageBooks, HopTyped
        <5>2. h.cages[y].slot # s
          BY <4>1, <4>2, <2>3 DEF Fit
        <5> QED
          BY <5>1, <5>2, <4>1, <2>6
      <4>3. CASE h.cages[y].phase \notin {"Streaming", "Armed"}
        BY <4>3 DEF Fit
      <4> QED
        BY <4>2, <4>3
    <3> QED
      BY <3>1, <3>2, SlotsFitIf
  <2>8. AppsCaged(h, m)
    BY <1>1, <2>4, <2>6 DEF AppsCaged
  <2>9. SavedFits(h, m)
    BY <1>1, <2>6 DEF SavedFits
  <2>10. SoundBut(h, m, {})
    BY <1>1, <2>6, <2>7, <2>8, <2>9 DEF SoundBut
  <2> QED
    BY <2>2, <2>5, <2>10
<1>3. CASE ~(kept /\ FreeSlots(k) # {})
  <2>1. RawLeft(k, kept) = k
    BY <1>3 DEF RawLeft
  <2> QED
    BY <2>1
<1> QED
  BY <1>2, <1>3

\* save_state
Saved(k, h, b) == [slots |-> k.slots, state |-> [jobs |-> h.jobs, tasks |-> h.rec], fresh |-> b]

Aged(k, b) == [k EXCEPT !.fresh = b]

LEMMA SaveIs ==
  ASSUME NEW k, IsKern(k), NEW h, NEW b
  PROVE  SaveState(k, h) = Saved(k, h, TRUE) /\ Aged(SaveState(k, h), b) = Saved(k, h, b)
<1> DEFINE v == [jobs |-> h.jobs, tasks |-> h.rec]
           k1 == [k EXCEPT !.state = v]
           k2 == [slots |-> k.slots, state |-> v, fresh |-> k.fresh]
<1>1. k1 = k2
  <2> HIDE DEF v
  <2> QED
    BY DEF IsKern
<1>2. ASSUME NEW c PROVE [k1 EXCEPT !.fresh = c] = Saved(k, h, c)
  <2>1. [k2 EXCEPT !.fresh = c] = [slots |-> k.slots, state |-> v, fresh |-> c]
    <3> HIDE DEF v
    <3> QED
      OBVIOUS
  <2> HIDE DEF k1, k2
  <2> QED
    BY <2>1, <1>1 DEF Saved
<1>3. SaveState(k, h) = [k1 EXCEPT !.fresh = TRUE]
  BY DEF SaveState
<1>4. SaveState(k, h) = Saved(k, h, TRUE)
  BY <1>2, <1>3
<1>5. [Saved(k, h, TRUE) EXCEPT !.fresh = b] = Saved(k, h, b)
  <2> DEFINE t == TRUE
  <2> HIDE DEF t, v
  <2>1. [[slots |-> k.slots, state |-> v, fresh |-> t] EXCEPT !.fresh = b] = [slots |-> k.slots, state |-> v, fresh |-> b]
    OBVIOUS
  <2> QED
    BY <2>1 DEF Saved, v, t
<1> QED
  BY <1>4, <1>5 DEF Aged

LEMMA SaveKeeps ==
  ASSUME NEW h, NEW k, SoundBut(h, k, {}), h.phase \in {"up", "leaving"}, NEW b
  PROVE  SoundBut(h, Saved(k, h, b), {})
<1> DEFINE m == Saved(k, h, b)
           v == [jobs |-> h.jobs, tasks |-> h.rec]
<1>1. /\ HopTyped(h) /\ KernTyped(h, k) /\ CageBooks(h) /\ OneStream(h) /\ SlotsFit(h, k)
      /\ LoadsApart(h) /\ TasksFit(h, {}) /\ AppsCaged(h, k) /\ SavedFits(h, k)
  BY DEF SoundBut
<1>2. m = [slots |-> k.slots, state |-> v, fresh |-> b] /\ v.jobs = h.jobs /\ v.tasks = h.rec
      /\ v = [jobs |-> v.jobs, tasks |-> v.tasks]
  BY DEF Saved
<1> HIDE DEF m, v
<1>3. m.slots = k.slots /\ m.state = v /\ m.fresh = b /\ IsKern(m)
  BY <1>2 DEF IsKern
<1>4. KernTyped(h, m)
  BY <1>1, <1>2, <1>3 DEF KernTyped, HopTyped
<1>5. SlotsFit(h, m) /\ AppsCaged(h, m)
  BY <1>1, <1>3 DEF SlotsFit, AppsCaged
<1>6. SavedFits(h, m)
  <2>1. \A id \in DOMAIN h.rec : h.rec[id].state = "Running" => h.rec[id].pid # None
    BY <1>1 DEF TasksFit
  <2> QED
    BY <2>1, <1>2, <1>3 DEF SavedFits
<1>7. SoundBut(h, m, {})
  BY <1>1, <1>4, <1>5, <1>6 DEF SoundBut
<1> QED
  BY <1>7 DEF m

-----------------------------------------------------------------------------
(* A Hop that leaves, and one that starts *)

\* A Hop that starts has nothing but what the kernel kept.
LEMMA FreshWell ==
  ASSUME NEW h, h.nextId \in 1..(MaxId + 1), NEW b \in 0..MaxBoots, NEW k, KernTyped(h, k),
         \A s \in Slot : k.slots[s].on => k.slots[s].state = "Running",
         \A id \in DOMAIN k.state.tasks : k.state.tasks[id].state = "Running" => k.state.tasks[id].pid # None,
         NEW g, g = Fresh(h, b)
  PROVE  SoundBut(g, k, {}) /\ g.phase = "boot"
<1> DEFINE e == << >>
           t == {}
           z == {}
<1>1. DOMAIN e = {} /\ e = [x \in {} |-> e[x]] /\ z = {} /\ t \subseteq Id
  OBVIOUS
<1>2. e \in Seq(Loading)
  OBVIOUS
<1>3. g = HopOf("boot", b, h.nextId, 1, z, e, e, e, e, 0, t)
  BY DEF Fresh, HopOf
<1> HIDE DEF e, t, z
<1>4. /\ IsHop(g) /\ g.phase = "boot" /\ g.boots = b /\ g.nextId = h.nextId /\ g.nextSeq = 1 /\ g.jobs = z
      /\ g.rec = e /\ g.loads = e /\ g.cages = e /\ g.inUse = e /\ g.downloads = 0 /\ g.mistaken = t
  BY <1>3, HopFields
<1>5. Given(g) = Given(h) /\ Streams(g) = {}
  BY <1>1, <1>4 DEF Given, Streams
<1>6. HopTyped(g)
  <2>1. e \in [DOMAIN e -> Record] /\ e \in [DOMAIN e -> Cage] /\ e \in [DOMAIN e -> Id]
    BY <1>1
  <2>2. b \in 0..MaxBoots /\ g.boots \in 0..MaxBoots /\ g.nextId \in 1..(MaxId + 1) /\ 1 \in Nat \ {0}
    BY <1>4
  <2>3. g.jobs \subseteq Job /\ g.mistaken \subseteq Id
    BY <1>1, <1>4
  <2> QED
    BY <2>1, <2>2, <2>3, <1>1, <1>2, <1>4 DEF HopTyped
<1>7. KernTyped(g, k)
  BY <1>5 DEF KernTyped
<1>8. CageBooks(g) /\ OneStream(g) /\ SlotsFit(g, k) /\ LoadsApart(g) /\ TasksFit(g, {}) /\ AppsCaged(g, k)
  BY <1>1, <1>4, <1>5 DEF CageBooks, OneStream, SlotsFit, LoadsApart, TasksFit, AppsCaged
<1>9. SavedFits(g, k)
  BY <1>4 DEF SavedFits, e
<1> QED
  BY <1>4, <1>6, <1>7, <1>8, <1>9 DEF SoundBut

LEMMA NewLineTyped == LineTyped(NewLine)
<1> DEFINE e == << >>
<1>1. e \in Seq(Nat \ {0}) /\ e \in Seq([seq : Nat \ {0}, what : Piece]) /\ Len(e) = 0
  OBVIOUS
<1>2. NewLine = [orders |-> e, pieces |-> e, wanted |-> None, dl |-> Idle]
  BY DEF NewLine
<1> HIDE DEF e
<1>3. Idle \in [seq : Nat, next : Piece \cup {"idle", "fetch"}, given : Nat] /\ Idle.next = "idle"
  BY DEF Idle, None
<1> HIDE DEF Idle
<1> QED
  BY <1>1, <1>2, <1>3, ResidentAssumption DEF LineTyped

\* The kernel after a reset.
Blank == [slots |-> [s \in Slot |-> EmptySlot], state |-> [jobs |-> {}, tasks |-> <<>>], fresh |-> TRUE]

LEMMA BlankWell ==
  ASSUME NEW h, h.nextId \in 1..(MaxId + 1), NEW b \in 0..MaxBoots
  PROVE  SoundBut(Fresh(h, b), Blank, {})
<1> DEFINE e == << >>
           f == [s \in Slot |-> EmptySlot]
           v == [jobs |-> {}, tasks |-> e]
<1>1. DOMAIN e = {} /\ e = [x \in {} |-> e[x]]
  OBVIOUS
<1>2. EmptySlot \in SlotRec /\ ~EmptySlot.on
  BY ResidentAssumption DEF EmptySlot, SlotRec, None
<1>3. f \in [Slot -> SlotRec] /\ \A s \in Slot : ~f[s].on
  BY <1>2
<1>4. Blank = [slots |-> f, state |-> v, fresh |-> TRUE]
  BY DEF Blank
<1> HIDE DEF e, f
<1>5. v.jobs = {} /\ v.tasks = e /\ v = [jobs |-> v.jobs, tasks |-> v.tasks]
  OBVIOUS
<1> HIDE DEF v
<1>6. Blank.slots = f /\ Blank.state = v /\ IsKern(Blank)
  BY <1>4, <1>5 DEF IsKern
<1>7. e \in [DOMAIN e -> Record]
  BY <1>1
<1>8. KernTyped(h, Blank)
  BY <1>1, <1>3, <1>5, <1>6, <1>7 DEF KernTyped
<1> HIDE DEF Blank
<1>9. /\ \A s \in Slot : Blank.slots[s].on => Blank.slots[s].state = "Running"
      /\ \A id \in DOMAIN Blank.state.tasks : Blank.state.tasks[id].state = "Running" => Blank.state.tasks[id].pid # None
  BY <1>1, <1>3, <1>5, <1>6
<1> QED
  BY <1>8, <1>9, FreshWell

\* hand_over
LEMMA HandsOver ==
  ASSUME ResidentIInv, hop.boots < MaxBoots, hop.phase \in {"up", "leaving"}, NEW ok \in BOOLEAN, HandOver(ok)
  PROVE  ResidentIInv' /\ hop'.phase = "boot"
<1> DEFINE k == IF ok THEN SaveState(kern, hop) ELSE [kern EXCEPT !.fresh = @ /\ hop.phase = "leaving"]
<1>1. SoundBut(hop, kern, {}) /\ HopTyped(hop) /\ KernTyped(hop, kern)
  BY DEF ResidentIInv, SoundBut
<1>2. SoundBut(hop, k, {})
  <2>1. CASE ok
    <3>1. k = SaveState(kern, hop)
      BY <2>1
    <3>2. k = Saved(kern, hop, TRUE)
      BY <3>1, <1>1, SaveIs DEF KernTyped
    <3> HIDE DEF k
    <3> QED
      BY <3>2, <1>1, SaveKeeps
  <2>2. CASE ~ok
    <3> DEFINE c == kern.fresh /\ hop.phase = "leaving"
    <3>1. k = [kern EXCEPT !.fresh = c]
      BY <2>2
    <3> HIDE DEF c, k
    <3>2. k = [slots |-> kern.slots, state |-> kern.state, fresh |-> c]
      BY <3>1, <1>1 DEF KernTyped, IsKern
    <3>3. k.slots = kern.slots /\ k.state = kern.state /\ IsKern(k)
      BY <3>2, <1>1 DEF KernTyped, IsKern
    <3>4. KernTyped(hop, k) /\ SlotsFit(hop, k) /\ AppsCaged(hop, k) /\ SavedFits(hop, k)
      BY <3>3, <1>1 DEF SoundBut, KernTyped, SlotsFit, AppsCaged, SavedFits
    <3> QED
      BY <3>4, <1>1 DEF SoundBut
  <2> QED
    BY <2>1, <2>2
<1>3. PICK S : kern' = StopSlots(k, S)
  BY DEF HandOver
<1>4. hop' = Fresh(hop, hop.boots + 1) /\ line' = NewLine
  BY DEF HandOver
<1> HIDE DEF k
<1>5. KernTyped(hop, k) /\ SlotsFit(hop, k) /\ SavedFits(hop, k)
  BY <1>2 DEF SoundBut
<1>6. /\ KernTyped(hop, kern') /\ kern'.state = k.state
      /\ \A s \in Slot : kern'.slots[s] = IF s \in S THEN EmptySlot ELSE k.slots[s]
  BY <1>3, <1>5, KernStops
<1>7. \A s \in Slot : kern'.slots[s].on => kern'.slots[s].state = "Running"
  BY <1>5, <1>6 DEF SlotsFit, EmptySlot
<1>8. \A id \in DOMAIN kern'.state.tasks :
        kern'.state.tasks[id].state = "Running" => kern'.state.tasks[id].pid # None
  BY <1>5, <1>6 DEF SavedFits
<1>9. hop.boots + 1 \in 0..MaxBoots /\ hop.nextId \in 1..(MaxId + 1)
  BY <1>1, ResidentAssumption DEF HopTyped
<1>10. SoundBut(hop', kern', {}) /\ hop'.phase = "boot"
  BY <1>4, <1>6, <1>7, <1>8, <1>9, FreshWell
<1> QED
  BY <1>4, <1>10, NewLineTyped DEF ResidentIInv

-----------------------------------------------------------------------------
(* The next Hop takes over *)

\* What adopt_running takes over: no slot twice, and of every slot that runs the
\* first of the tasks that name it.
LEMMA Adopts ==
  ASSUME NEW tasks, DOMAIN tasks \subseteq Nat, NEW slots, NEW mine, mine = AdoptRunning(tasks, slots)
  PROVE  /\ mine \subseteq DOMAIN tasks
         /\ \A id \in mine : tasks[id].pid # None /\ slots[tasks[id].pid].state = "Running"
         /\ \A i, j \in mine : tasks[i].pid = tasks[j].pid => i = j
         /\ \A s \in Slot : slots[s].state = "Running" /\ Claimants(tasks, s) # {} =>
              \E id \in Claimants(tasks, s) : id \in mine /\ \A x \in Claimants(tasks, s) : id <= x
<1> DEFINE runs == {id \in DOMAIN tasks : tasks[id].pid # None /\ slots[tasks[id].pid].state = "Running"}
<1>1. mine = {id \in runs : \A x \in runs : tasks[x].pid = tasks[id].pid => id <= x}
  BY DEF AdoptRunning
<1>2. ASSUME NEW i \in mine, NEW j \in mine, tasks[i].pid = tasks[j].pid PROVE i = j
  <2>1. i \in runs /\ j \in runs /\ i <= j /\ j <= i
    BY <1>1, <1>2
  <2>2. i \in Nat /\ j \in Nat
    BY <2>1
  <2> QED
    BY <2>1, <2>2
<1>3. ASSUME NEW s \in Slot, slots[s].state = "Running", Claimants(tasks, s) # {}
      PROVE  \E id \in Claimants(tasks, s) : id \in mine /\ \A x \in Claimants(tasks, s) : id <= x
  <2>1. Claimants(tasks, s) \subseteq Nat
    BY DEF Claimants
  <2>2. PICK id \in Claimants(tasks, s) : \A x \in Claimants(tasks, s) : id <= x
    BY <2>1, <1>3, LeastIsIn
  <2>3. tasks[id].pid = s /\ id \in DOMAIN tasks /\ s # None
    BY <2>2 DEF Claimants, Slot, None
  <2>4. id \in runs
    BY <2>3, <1>3
  <2>5. ASSUME NEW x \in runs, tasks[x].pid = tasks[id].pid PROVE id <= x
    <3>1. x \in Claimants(tasks, s)
      BY <2>3, <2>5 DEF Claimants
    <3> QED
      BY <3>1, <2>2
  <2>6. id \in mine
    BY <2>4, <2>5, <1>1
  <2> QED
    BY <2>2, <2>6
<1> HIDE DEF runs
<1>4. \A id \in mine : id \in DOMAIN tasks /\ tasks[id].pid # None /\ slots[tasks[id].pid].state = "Running"
  BY <1>1 DEF runs
<1> QED
  BY <1>2, <1>3, <1>4

\* restore
LEMMA BootsWell ==
  ASSUME ResidentIInv, Boot
  PROVE  ResidentIInv' /\ hop'.phase = "sweep"
<1> DEFINE tasks == kern.state.tasks
           mine == AdoptRunning(tasks, kern.slots)
           r == [id \in mine |-> [tasks[id] EXCEPT !.waits = FALSE]]
           c == [id \in mine |-> [phase |-> "Armed", slot |-> tasks[id].pid, done |-> SIZE]]
           u == [s \in {tasks[id].pid : id \in mine} |-> CHOOSE id \in mine : tasks[id].pid = s]
           t == Mistaken(tasks, kern.slots)
           J == kern.state.jobs
<1>1. /\ HopTyped(hop) /\ KernTyped(hop, kern) /\ SlotsFit(hop, kern) /\ SavedFits(hop, kern)
      /\ hop.loads = <<>> /\ hop.downloads = 0
  BY DEF ResidentIInv, SoundBut, SavedFits, Boot
<1>2. hop' = HopOf("sweep", hop.boots, hop.nextId, hop.nextSeq, J, r, hop.loads, c, u, hop.downloads, t)
  <2> DEFINE h1 == [hop EXCEPT !.phase = "sweep"]
             h2 == [h1 EXCEPT !.jobs = J]
             h3 == [h2 EXCEPT !.mistaken = t]
             h4 == [h3 EXCEPT !.rec = r]
             h5 == [h4 EXCEPT !.cages = c]
  <2>1. hop' = [h5 EXCEPT !.inUse = u]
    BY DEF Boot
  <2> HIDE DEF r, c, u, t, J
  <2>2. h1 = HopOf("sweep", hop.boots, hop.nextId, hop.nextSeq, hop.jobs, hop.rec, hop.loads, hop.cages, hop.inUse,
                   hop.downloads, hop.mistaken)
    BY <1>1 DEF HopTyped, IsHop, HopOf
  <2> HIDE DEF h1
  <2>3. h2 = HopOf("sweep", hop.boots, hop.nextId, hop.nextSeq, J, hop.rec, hop.loads, hop.cages, hop.inUse,
                   hop.downloads, hop.mistaken)
    BY <2>2 DEF HopOf
  <2> HIDE DEF h2
  <2>4. h3 = HopOf("sweep", hop.boots, hop.nextId, hop.nextSeq, J, hop.rec, hop.loads, hop.cages, hop.inUse,
                   hop.downloads, t)
    BY <2>3 DEF HopOf
  <2> HIDE DEF h3
  <2>5. h4 = HopOf("sweep", hop.boots, hop.nextId, hop.nextSeq, J, r, hop.loads, hop.cages, hop.inUse,
                   hop.downloads, t)
    BY <2>4 DEF HopOf
  <2> HIDE DEF h4
  <2>6. h5 = HopOf("sweep", hop.boots, hop.nextId, hop.nextSeq, J, r, hop.loads, c, hop.inUse, hop.downloads, t)
    BY <2>5 DEF HopOf
  <2> HIDE DEF h5
  <2> QED
    BY <2>1, <2>6 DEF HopOf
<1>3. kern' = kern /\ line' = line
  BY DEF Boot
<1>4. tasks \in [DOMAIN tasks -> Record] /\ DOMAIN tasks \subseteq Given(hop) /\ Given(hop) \subseteq Id /\ DOMAIN tasks \subseteq Nat
  BY <1>1, ResidentAssumption DEF KernTyped, HopTyped, Given, Id
<1>5. /\ mine \subseteq DOMAIN tasks
      /\ \A id \in mine : tasks[id].pid # None /\ kern.slots[tasks[id].pid].state = "Running"
      /\ \A i, j \in mine : tasks[i].pid = tasks[j].pid => i = j
      /\ \A s \in Slot : kern.slots[s].state = "Running" /\ Claimants(tasks, s) # {} =>
           \E id \in Claimants(tasks, s) : id \in mine /\ \A x \in Claimants(tasks, s) : id <= x
  <2>1. mine = AdoptRunning(tasks, kern.slots)
    OBVIOUS
  <2> HIDE DEF mine, tasks
  <2> QED
    BY <2>1, <1>4, Adopts
<1>6. ASSUME NEW id \in mine
      PROVE  /\ tasks[id] \in Record /\ tasks[id].pid \in Slot /\ id \in Id
             /\ id \in DOMAIN r /\ r[id] \in Record /\ r[id].pid = tasks[id].pid /\ ~r[id].waits
             /\ id \in DOMAIN c /\ c[id] \in Cage /\ c[id].phase = "Armed" /\ c[id].slot = tasks[id].pid
  <2> DEFINE o == tasks[id]
             w == FALSE
  <2>1. o \in Record /\ o.pid \in Slot /\ id \in Id
    BY <1>4, <1>5 DEF Record
  <2>2. r[id] = [o EXCEPT !.waits = FALSE] /\ c[id] = [phase |-> "Armed", slot |-> o.pid, done |-> SIZE]
    OBVIOUS
  <2>3. c[id] \in Cage /\ c[id].phase = "Armed" /\ c[id].slot = tasks[id].pid
    BY <2>1, <2>2, ResidentAssumption DEF Cage
  <2>4. o = [job |-> o.job, state |-> o.state, pid |-> o.pid, waits |-> o.waits]
    BY <2>1 DEF Record
  <2>5. [o EXCEPT !.waits = w] = [job |-> o.job, state |-> o.state, pid |-> o.pid, waits |-> w]
    <3> HIDE DEF o, w
    <3> QED
      BY <2>4
  <2>6. r[id] = [job |-> o.job, state |-> o.state, pid |-> o.pid, waits |-> FALSE]
    BY <2>2, <2>5
  <2>7. r[id] \in Record /\ r[id].pid = tasks[id].pid /\ ~r[id].waits
    <3> HIDE DEF r, o
    <3>1. o.job \in Job /\ o.state \in {"Starting", "Running", "Failed"} /\ o.pid \in {None} \cup Slot
      BY <2>1 DEF Record
    <3>2. r[id] \in Record /\ r[id].pid = o.pid /\ ~r[id].waits
      BY <3>1, <2>6 DEF Record
    <3> QED
      BY <3>2 DEF o
  <2> QED
    BY <2>1, <2>3, <2>7
<1>7. DOMAIN r = mine /\ DOMAIN c = mine /\ r = [id \in mine |-> r[id]] /\ c = [id \in mine |-> c[id]]
  OBVIOUS
<1>8. /\ DOMAIN u = {tasks[id].pid : id \in mine} /\ u = [s \in DOMAIN u |-> u[s]]
      /\ \A s \in DOMAIN u : u[s] \in mine /\ tasks[u[s]].pid = s
  <2> HIDE DEF mine, tasks
  <2>1. DOMAIN u = {tasks[id].pid : id \in mine} /\ u = [s \in DOMAIN u |-> u[s]]
    OBVIOUS
  <2>2. ASSUME NEW s \in DOMAIN u PROVE u[s] \in mine /\ tasks[u[s]].pid = s
    <3>1. u[s] = CHOOSE id \in mine : tasks[id].pid = s
      BY <2>1, <2>2
    <3>2. \E id \in mine : tasks[id].pid = s
      BY <2>1, <2>2
    <3> HIDE DEF u
    <3> QED
      BY <3>1, <3>2
  <2> QED
    BY <2>1, <2>2
<1>9. t \subseteq Id
  BY <1>4, <1>5 DEF t, Mistaken
<1>10. \A id \in mine : id \notin t => kern.slots[tasks[id].pid].task = id
  BY DEF t, mine, Mistaken
<1> HIDE DEF r, c, u, t, mine
<1> DEFINE g == hop'
<1>11. /\ IsHop(g) /\ g.phase = "sweep" /\ g.boots = hop.boots /\ g.nextId = hop.nextId /\ g.nextSeq = hop.nextSeq
       /\ g.jobs = J /\ g.rec = r /\ g.loads = hop.loads /\ g.cages = c /\ g.inUse = u
       /\ g.downloads = hop.downloads /\ g.mistaken = t
  <2> HIDE DEF J
  <2> QED
    BY <1>2, HopFields
<1> HIDE DEF g
<1>12. Given(g) = Given(hop)
  BY <1>11 DEF Given
<1>13. ASSUME NEW id \in mine PROVE tasks[id].pid \in DOMAIN u /\ u[tasks[id].pid] = id
  <2>1. tasks[id].pid \in DOMAIN u
    BY <1>8
  <2> QED
    BY <2>1, <1>5, <1>8
<1>14. Streams(g) = {} /\ DOMAIN g.loads = {}
  <2>1. \A id \in DOMAIN g.cages : g.cages[id].phase # "Streaming"
    BY <1>6, <1>7, <1>11
  <2> QED
    BY <2>1, <1>1, <1>11 DEF Streams
<1>15. HopTyped(g)
  <2>1. r \in [DOMAIN r -> Record] /\ DOMAIN r \subseteq Given(g)
    BY <1>4, <1>5, <1>6, <1>7, <1>12
  <2>2. c \in [DOMAIN c -> Cage] /\ DOMAIN c \subseteq Given(g)
    BY <1>4, <1>5, <1>6, <1>7, <1>12
  <2>3. u \in [DOMAIN u -> Id] /\ DOMAIN u \subseteq Slot
    BY <1>6, <1>8
  <2>4. J \subseteq Job
    BY <1>1 DEF KernTyped
  <2>5. /\ hop.boots \in 0..MaxBoots /\ hop.nextId \in 1..(MaxId + 1) /\ hop.nextSeq \in Nat \ {0}
        /\ hop.loads \in Seq(Loading)
    BY <1>1 DEF HopTyped
  <2>6. \A i \in DOMAIN g.loads : g.loads[i].task \in Given(g) /\ g.loads[i].seq < g.nextSeq
    BY <1>14
  <2> QED
    BY <2>1, <2>2, <2>3, <2>4, <2>5, <2>6, <1>9, <1>11 DEF HopTyped
<1>16. KernTyped(g, kern)
  BY <1>1, <1>12 DEF KernTyped
<1>17. CageBooks(g)
  <2>1. ASSUME NEW s \in DOMAIN u PROVE u[s] \in DOMAIN c /\ c[u[s]].slot = s
    BY <1>6, <1>7, <1>8
  <2>2. ASSUME NEW id \in DOMAIN c PROVE c[id].phase = "Armed" /\ c[id].slot \in DOMAIN u /\ u[c[id].slot] = id
    BY <1>6, <1>7, <1>13
  <2> QED
    BY <2>1, <2>2, <1>11 DEF CageBooks
<1>18. OneStream(g)
  BY <1>1, <1>11, <1>14 DEF OneStream
<1>19. SlotsFit(g, kern)
  <2>1. ASSUME NEW y \in DOMAIN g.cages PROVE Fit(g.cages[y], y, y \notin g.mistaken, kern.slots[g.cages[y].slot])
    <3>1. y \in mine /\ g.cages[y] = c[y]
      BY <1>7, <1>11
    <3> QED
      BY <3>1, <1>5, <1>6, <1>10, <1>11 DEF Fit
  <2>2. \A s \in Slot : kern.slots[s].on => kern.slots[s].state = "Running"
    BY <1>1 DEF SlotsFit
  <2> QED
    BY <2>1, <2>2, SlotsFitIf
<1>20. LoadsApart(g)
  BY <1>14 DEF LoadsApart
<1>21. TasksFit(g, {})
  <2>1. ASSUME NEW y \in DOMAIN g.rec PROVE RecFits(g, y)
    <3>1. y \in mine /\ g.rec[y] = r[y] /\ g.cages[y] = c[y] /\ y \in DOMAIN g.cages
      BY <1>7, <1>11
    <3>2. r[y].pid # None
      BY <3>1, <1>5, <1>6
    <3> QED
      BY <3>1, <3>2, <1>6 DEF RecFits
  <2>2. \A i \in DOMAIN g.loads : TaskFits(g, g.loads[i].task)
    BY <1>14
  <2>3. \A y \in Streams(g) : g.loads # <<>> /\ g.loads[1].task = y
    BY <1>14
  <2> QED
    BY <2>1, <2>2, <2>3, TasksFitIf
<1>22. AppsCaged(g, kern)
  BY <1>11 DEF AppsCaged
<1>23. SavedFits(g, kern)
  <2>1. ASSUME NEW s \in Slot, kern.slots[s].state = "Running", Claimants(tasks, s) # {}
        PROVE  s \in DOMAIN g.inUse /\ FirstHas(g.rec, Claimants(tasks, s), s)
    <3>1. PICK id \in Claimants(tasks, s) : id \in mine /\ \A x \in Claimants(tasks, s) : id <= x
      BY <2>1, <1>5
    <3>2. tasks[id].pid = s
      BY <3>1 DEF Claimants
    <3> QED
      BY <3>1, <3>2, <1>6, <1>7, <1>11, <1>13 DEF FirstHas
  <2> QED
    BY <2>1, <1>1, <1>11 DEF SavedFits
<1>24. SoundBut(g, kern, {})
  BY <1>15, <1>16, <1>17, <1>18, <1>19, <1>20, <1>21, <1>22, <1>23 DEF SoundBut
<1>25. SoundBut(hop', kern', {}) /\ hop'.phase = "sweep"
  BY <1>24, <1>11, <1>3 DEF g
<1>26. LineTyped(line')
  BY <1>3 DEF ResidentIInv
<1> QED
  BY <1>25, <1>26 DEF ResidentIInv

-----------------------------------------------------------------------------
(* From one phase to the next, and an app that ends *)

WithPhase(h, p) ==
  HopOf(p, h.boots, h.nextId, h.nextSeq, h.jobs, h.rec, h.loads, h.cages, h.inUse, h.downloads, h.mistaken)

\* A Hop that serves, or leaves, keeps what it had.
LEMMA PhaseMoves ==
  ASSUME NEW h, NEW k, SoundBut(h, k, {}), NEW p \in {"up", "leaving"}, NEW g, g = [h EXCEPT !.phase = p], NEW m,
         KernTyped(h, m), m.state = k.state, SlotsFit(h, m),
         \A s \in Slot : m.slots[s].on => s \in DOMAIN h.inUse
  PROVE  SoundBut(g, m, {}) /\ g.phase = p /\ g.rec = h.rec
<1>1. /\ HopTyped(h) /\ KernTyped(h, k) /\ CageBooks(h) /\ OneStream(h)
      /\ LoadsApart(h) /\ TasksFit(h, {}) /\ SavedFits(h, k)
  BY DEF SoundBut
<1>2. g = WithPhase(h, p)
  BY <1>1 DEF HopTyped, IsHop, HopOf, WithPhase
<1>3. /\ IsHop(g) /\ g.phase = p /\ g.boots = h.boots /\ g.nextId = h.nextId /\ g.nextSeq = h.nextSeq
      /\ g.jobs = h.jobs /\ g.rec = h.rec /\ g.loads = h.loads /\ g.cages = h.cages /\ g.inUse = h.inUse
      /\ g.downloads = h.downloads /\ g.mistaken = h.mistaken
  BY <1>2, HopFields DEF WithPhase
<1>4. Given(g) = Given(h) /\ Streams(g) = Streams(h)
  BY <1>3 DEF Given, Streams
<1>5. HopTyped(g)
  BY <1>1, <1>3, <1>4 DEF HopTyped
<1>6. KernTyped(g, m)
  BY <1>4 DEF KernTyped
<1>7. CageBooks(g) /\ OneStream(g) /\ SlotsFit(g, m)
  <2>1. CageBooks(g)
    BY <1>1, <1>3 DEF CageBooks
  <2>2. OneStream(g)
    BY <1>1, <1>3, <1>4 DEF OneStream
  <2>3. SlotsFit(g, m)
    BY <1>1, <1>3 DEF SlotsFit
  <2> QED
    BY <2>1, <2>2, <2>3
<1>8. LoadsApart(g) /\ TasksFit(g, {})
  BY <1>1, <1>3, <1>4 DEF LoadsApart, TasksFit
<1>9. AppsCaged(g, m)
  BY <1>3 DEF AppsCaged
<1>10. SavedFits(g, m)
  BY <1>1, <1>3 DEF SavedFits
<1> QED
  BY <1>3, <1>5, <1>6, <1>7, <1>8, <1>9, <1>10 DEF SoundBut

\* sweep_strays
LEMMA SweepsWell ==
  ASSUME ResidentIInv, Sweep
  PROVE  ResidentIInv' /\ AppsRunOn
<1> DEFINE S == Strays(hop, kern)
           m == StopSlots(kern, S)
           g == [hop EXCEPT !.phase = "up"]
<1>1. /\ SoundBut(hop, kern, {}) /\ HopTyped(hop) /\ KernTyped(hop, kern) /\ CageBooks(hop) /\ SlotsFit(hop, kern)
      /\ SavedFits(hop, kern) /\ LineTyped(line) /\ hop.phase = "sweep"
  BY DEF ResidentIInv, SoundBut, Sweep
<1>2. hop' = Flush(g, line)[1] /\ line' = Flush(g, line)[2] /\ kern' = m
  BY DEF Sweep, Done
<1>3. \A s \in Slot : s \in S <=> kern.slots[s].state = "Running" /\ s \notin DOMAIN hop.inUse
  BY DEF Strays
<1>4. m = StopSlots(kern, S) /\ g = [hop EXCEPT !.phase = "up"]
  OBVIOUS
<1> HIDE DEF S, m, g
<1>5. /\ KernTyped(hop, m) /\ m.state = kern.state
      /\ \A s \in Slot : m.slots[s] = IF s \in S THEN EmptySlot ELSE kern.slots[s]
  BY <1>1, <1>4, KernStops
<1>6. \A s \in Slot : m.slots[s].on => kern.slots[s].on /\ s \notin S
  BY <1>5 DEF EmptySlot
<1>7. \A s \in Slot : kern.slots[s].on => kern.slots[s].state = "Running"
  BY <1>1 DEF SlotsFit
<1>8. SlotsFit(hop, m)
  <2>1. \A s \in Slot : m.slots[s].on => m.slots[s].state = "Running"
    BY <1>5, <1>6, <1>7
  <2>2. ASSUME NEW y \in DOMAIN hop.cages PROVE Fit(hop.cages[y], y, y \notin hop.mistaken, m.slots[hop.cages[y].slot])
    <3>1. Fit(hop.cages[y], y, y \notin hop.mistaken, kern.slots[hop.cages[y].slot])
      BY <1>1 DEF SlotsFit, Fit
    <3>2. CASE hop.cages[y].phase \in {"Streaming", "Armed"}
      <4>1. hop.cages[y].slot \in Slot /\ hop.cages[y].slot \in DOMAIN hop.inUse
        BY <3>2, <1>1 DEF CageBooks, HopTyped
      <4> QED
        BY <4>1, <3>1, <1>3, <1>5
    <3>3. CASE hop.cages[y].phase \notin {"Streaming", "Armed"}
      BY <3>3 DEF Fit
    <3> QED
      BY <3>2, <3>3
  <2> QED
    BY <2>1, <2>2, SlotsFitIf
<1>9. \A s \in Slot : m.slots[s].on => s \in DOMAIN hop.inUse
  BY <1>3, <1>6, <1>7
<1>10. SoundBut(g, m, {}) /\ g.phase = "up" /\ g.rec = hop.rec
  BY <1>1, <1>4, <1>5, <1>8, <1>9, PhaseMoves
<1>11. SoundBut(hop', kern', {}) /\ LineTyped(line') /\ hop'.rec = g.rec
  BY <1>1, <1>2, <1>10, Flushes
<1>12. ResidentIInv'
  BY <1>11 DEF ResidentIInv
<1>13. ASSUME NEW s \in Slot, kern.slots[s].on, Claimants(kern.state.tasks, s) # {}
       PROVE  kern'.slots[s] = kern.slots[s] /\ FirstHas(hop'.rec, Claimants(kern.state.tasks, s), s)
  <2>2. s \in DOMAIN hop.inUse /\ FirstHas(hop.rec, Claimants(kern.state.tasks, s), s)
    BY <1>1, <1>7, <1>13 DEF SavedFits
  <2> QED
    BY <2>2, <1>2, <1>3, <1>5, <1>10, <1>11
<1>14. AppsRunOn
  BY <1>13 DEF AppsRunOn, FirstHas
<1> QED
  BY <1>12, <1>14

\* POST /restart that the kernel takes
LEMMA RestartsWell ==
  ASSUME ResidentIInv, RestartHop
  PROVE  ResidentIInv' /\ hop'.phase = "leaving"
<1> DEFINE g == [hop EXCEPT !.phase = "leaving"]
           m == SaveState(kern, hop)
<1>1. /\ SoundBut(hop, kern, {}) /\ KernTyped(hop, kern) /\ LineTyped(line) /\ hop.phase = "up"
  BY DEF ResidentIInv, SoundBut, RestartHop, Up
<1>2. hop' = Flush(g, line)[1] /\ line' = Flush(g, line)[2] /\ kern' = m
  BY DEF RestartHop, Done
<1>3. m = Saved(kern, hop, TRUE)
  BY <1>1, SaveIs DEF KernTyped
<1>4. g = [hop EXCEPT !.phase = "leaving"]
  OBVIOUS
<1> HIDE DEF g, m
<1>5. SoundBut(hop, m, {})
  BY <1>1, <1>3, SaveKeeps
<1>6. KernTyped(hop, m) /\ SlotsFit(hop, m) /\ \A s \in Slot : m.slots[s].on => s \in DOMAIN hop.inUse
  BY <1>1, <1>5 DEF SoundBut, AppsCaged
<1>7. SoundBut(g, m, {}) /\ g.phase = "leaving"
  BY <1>4, <1>5, <1>6, PhaseMoves
<1>8. SoundBut(hop', kern', {}) /\ LineTyped(line') /\ Keeps(g, hop')
  BY <1>1, <1>2, <1>7, Flushes
<1> QED
  BY <1>7, <1>8 DEF ResidentIInv, Keeps

\* An app ends by itself.
LEMMA ExitsWell ==
  ASSUME ResidentIInv, NEW s \in Slot, AppExits(s)
  PROVE  /\ ResidentIInv' /\ hop' = hop
         /\ \A z \in Slot : kern'.slots[z].state = kern.slots[z].state
<1> DEFINE o == kern.slots[s]
           f == FALSE
           x == [state |-> o.state, on |-> f, task |-> o.task, got |-> o.got]
<1>1. /\ HopTyped(hop) /\ KernTyped(hop, kern) /\ CageBooks(hop) /\ OneStream(hop) /\ SlotsFit(hop, kern)
      /\ LoadsApart(hop) /\ TasksFit(hop, {}) /\ AppsCaged(hop, kern) /\ SavedFits(hop, kern) /\ LineTyped(line)
  BY DEF ResidentIInv, SoundBut
<1>2. hop' = hop /\ line' = line /\ kern' = [kern EXCEPT !.slots[s].on = f]
  BY DEF AppExits
<1>3. o \in SlotRec
  BY <1>1 DEF KernTyped
<1>4. x \in SlotRec /\ x.state = o.state /\ ~x.on /\ x.task = o.task /\ x.got = o.got
  BY <1>3 DEF SlotRec
<1>5. kern' = KernWith(kern, s, x)
  <2>1. [o EXCEPT !.on = f] = x
    <3>1. o = [state |-> o.state, on |-> o.on, task |-> o.task, got |-> o.got]
      BY <1>3 DEF SlotRec
    <3> HIDE DEF o, f
    <3> QED
      BY <3>1
  <2> DEFINE q == Set(kern.slots, s, x)
  <2>2. kern' = [kern EXCEPT !.slots = q]
    <3> HIDE DEF x, f
    <3> QED
      BY <2>1, <1>2 DEF Set
  <2> HIDE DEF q
  <2>3. [kern EXCEPT !.slots = q] = [slots |-> q, state |-> kern.state, fresh |-> kern.fresh]
    BY <1>1 DEF KernTyped, IsKern
  <2> QED
    BY <2>2, <2>3 DEF KernWith, q
<1> HIDE DEF x
<1>6. /\ KernTyped(hop, kern') /\ kern'.state = kern.state /\ kern'.slots[s] = x
      /\ \A z \in Slot : z # s => kern'.slots[z] = kern.slots[z]
  BY <1>1, <1>4, <1>5, KernSets
<1>7. \A z \in Slot :
        /\ kern'.slots[z].state = kern.slots[z].state /\ kern'.slots[z].task = kern.slots[z].task
        /\ kern'.slots[z].got = kern.slots[z].got /\ (kern'.slots[z].on => kern.slots[z].on)
  BY <1>4, <1>6
<1>8. SlotsFit(hop, kern')
  <2>1. \A z \in Slot : kern'.slots[z].on => kern'.slots[z].state = "Running"
    BY <1>1, <1>7 DEF SlotsFit
  <2>2. ASSUME NEW y \in DOMAIN hop.cages PROVE Fit(hop.cages[y], y, y \notin hop.mistaken, kern'.slots[hop.cages[y].slot])
    <3>1. Fit(hop.cages[y], y, y \notin hop.mistaken, kern.slots[hop.cages[y].slot])
      BY <1>1 DEF SlotsFit, Fit
    <3>2. CASE hop.cages[y].phase \in {"Streaming", "Armed"}
      <4>1. hop.cages[y].slot \in Slot
        BY <3>2, <1>1 DEF CageBooks, HopTyped
      <4> QED
        BY <4>1, <3>1, <1>7 DEF Fit
    <3>3. CASE hop.cages[y].phase \notin {"Streaming", "Armed"}
      BY <3>3 DEF Fit
    <3> QED
      BY <3>2, <3>3
  <2> QED
    BY <2>1, <2>2, SlotsFitIf
<1>9. AppsCaged(hop, kern')
  BY <1>1, <1>7 DEF AppsCaged
<1>10. SavedFits(hop, kern')
  <2>1. \A id \in DOMAIN kern.state.tasks : kern.state.tasks[id].pid # None => kern.state.tasks[id].pid \in Slot
    BY <1>1 DEF KernTyped, Record
  <2> QED
    BY <2>1, <1>1, <1>6, <1>7 DEF SavedFits
<1>11. SoundBut(hop, kern', {})
  BY <1>1, <1>6, <1>8, <1>9, <1>10 DEF SoundBut
<1> QED
  BY <1>1, <1>2, <1>7, <1>11 DEF ResidentIInv

-----------------------------------------------------------------------------
(* The download task *)

\* A line of its parts.
LEMMA LineIf ==
  ASSUME NEW l, NEW o, NEW q, NEW w, NEW d, l = [orders |-> o, pieces |-> q, wanted |-> w, dl |-> d],
         o \in Seq(Nat \ {0}), Len(o) <= ORDERS,
         q \in Seq([seq : Nat \ {0}, what : Piece]), Len(q) <= PIECES,
         d \in [seq : Nat, next : Piece \cup {"idle", "fetch"}, given : Nat], d.next # "idle" => d.seq # 0
  PROVE  LineTyped(l)
  BY DEF LineTyped

LEMMA IdleTyped ==
  Idle \in [seq : Nat, next : Piece \cup {"idle", "fetch"}, given : Nat] /\ Idle.next = "idle"
  BY DEF Idle, None

\* The download task
LEMMA DownloadsWell ==
  ASSUME ResidentIInv, Download
  PROVE  ResidentIInv' /\ hop' = hop /\ kern' = kern
<1> DEFINE o == line.orders
           q == line.pieces
           w == line.wanted
           d == line.dl
           D == [seq : Nat, next : Piece \cup {"idle", "fetch"}, given : Nat]
           P == [seq : Nat \ {0}, what : Piece]
<1>1. /\ LineTyped(line) /\ line = [orders |-> o, pieces |-> q, wanted |-> w, dl |-> d]
      /\ o \in Seq(Nat \ {0}) /\ Len(o) <= ORDERS /\ q \in Seq(P) /\ Len(q) <= PIECES
      /\ d \in D /\ (d.next # "idle" => d.seq # 0)
  BY DEF ResidentIInv, LineTyped
<1>2. hop' = hop /\ kern' = kern
  BY DEF Download, DownloadTake, DownloadFetch, DownloadSend
<1>3. ASSUME DownloadTake PROVE LineTyped(line')
  <2> DEFINE x == [seq |-> Head(o), next |-> "fetch", given |-> 0]
             d2 == IF Head(o) = w THEN x ELSE d
             o2 == Tail(o)
  <2>1. o # <<>> /\ line' = [line EXCEPT !.orders = o2, !.dl = d2]
    BY <1>3 DEF DownloadTake
  <2>2. Head(o) \in Nat \ {0} /\ o2 \in Seq(Nat \ {0}) /\ Len(o2) = Len(o) - 1 /\ Len(o) \in Nat /\ ORDERS \in Nat
    BY <2>1, <1>1, HeadTailProperties, ResidentAssumption
  <2>3. Len(o2) <= ORDERS
    BY <2>2, <1>1
  <2>4. x \in D /\ x.next = "fetch" /\ x.seq # 0
    <3> HIDE DEF o
    <3> QED
      BY <2>2
  <2>5. d2 \in D /\ (d2.next # "idle" => d2.seq # 0)
    <3> HIDE DEF x
    <3> QED
      BY <2>4, <1>1
  <2>6. line' = [orders |-> o2, pieces |-> q, wanted |-> w, dl |-> d2]
    <3> HIDE DEF d2, o2, o, q, w, d
    <3> QED
      BY <1>1, <2>1
  <2> HIDE DEF d2, o2, o, q, w, d
  <2> QED
    BY <2>2, <2>3, <2>5, <2>6, <1>1, LineIf
<1>4. ASSUME DownloadFetch PROVE LineTyped(line')
  <2>1. PICK d2 : /\ line' = [line EXCEPT !.dl = d2]
                  /\ d2 = Idle \/ \E y \in Piece : d2 = [d EXCEPT !.next = y, !.given = @ + 1] /\ d.next = "fetch"
    <3>1. CASE d.seq # w
      <4>1. line' = [line EXCEPT !.dl = Idle]
        BY <1>4, <3>1 DEF DownloadFetch
      <4> QED
        BY <4>1
    <3>2. CASE d.seq = w
      <4>1. PICK y \in Piece : line' = [line EXCEPT !.dl.next = y, !.dl.given = @ + 1] /\ d.next = "fetch"
        BY <1>4, <3>2 DEF DownloadFetch
      <4> DEFINE d1 == [d EXCEPT !.next = y]
                 d2 == [d1 EXCEPT !.given = d1.given + 1]
                 l1 == [line EXCEPT !.dl = d1]
      <4>2. line' = [l1 EXCEPT !.dl = [l1.dl EXCEPT !.given = l1.dl.given + 1]]
        BY <4>1
      <4>3. l1 = [orders |-> o, pieces |-> q, wanted |-> w, dl |-> d1]
        <5> HIDE DEF o, q, w, d, d1
        <5> QED
          BY <1>1
      <4>4. l1.dl = d1
        BY <4>3
      <4>5. [l1 EXCEPT !.dl = d2] = [line EXCEPT !.dl = d2]
        <5> HIDE DEF o, q, w, d, d1, d2, l1
        <5> QED
          BY <4>3, <1>1
      <4>6. line' = [line EXCEPT !.dl = d2]
        <5> HIDE DEF l1, d1
        <5> QED
          BY <4>2, <4>4, <4>5 DEF d2
      <4> QED
        BY <4>1, <4>6
    <3> QED
      BY <3>1, <3>2
  <2>2. d2 \in D /\ (d2.next # "idle" => d2.seq # 0)
    <3>1. CASE d2 = Idle
      BY <3>1, IdleTyped
    <3>2. CASE d2 # Idle
      <4>1. PICK y \in Piece : d2 = [d EXCEPT !.next = y, !.given = @ + 1] /\ d.next = "fetch"
        BY <3>2, <2>1
      <4>2. d = [seq |-> d.seq, next |-> d.next, given |-> d.given] /\ d.seq \in Nat /\ d.given \in Nat /\ d.seq # 0
        BY <4>1, <1>1
      <4>3. d2 = [seq |-> d.seq, next |-> y, given |-> d.given + 1]
        <5> HIDE DEF d
        <5> QED
          BY <4>1, <4>2
      <4> HIDE DEF d
      <4> QED
        BY <4>2, <4>3
    <3> QED
      BY <3>1, <3>2
  <2>3. line' = [orders |-> o, pieces |-> q, wanted |-> w, dl |-> d2]
    <3> HIDE DEF o, q, w, d
    <3> QED
      BY <1>1, <2>1
  <2> HIDE DEF o, q, w, d
  <2>4. LineTyped(line')
    BY <2>2, <2>3, <1>1, LineIf
  <2> QED
    BY <2>4
<1>5. ASSUME DownloadSend PROVE LineTyped(line')
  <2> DEFINE x == [seq |-> d.seq, what |-> d.next]
             y == [d EXCEPT !.next = "fetch"]
             d2 == IF d.next \in {"endOk", "endErr"} THEN Idle ELSE y
             q2 == Append(q, x)
  <2>1. d.next \in Piece /\ Len(q) < PIECES /\ line' = [line EXCEPT !.pieces = q2, !.dl = d2]
    BY <1>5 DEF DownloadSend
  <2>2. d = [seq |-> d.seq, next |-> d.next, given |-> d.given] /\ d.seq \in Nat /\ d.given \in Nat /\ d.seq # 0
    BY <2>1, <1>1 DEF Piece
  <2>3. x \in P
    <3> HIDE DEF d
    <3> QED
      BY <2>1, <2>2
  <2>4. q2 \in Seq(P) /\ Len(q2) = Len(q) + 1 /\ Len(q) \in Nat /\ PIECES \in Nat
    <3> HIDE DEF x, P, q
    <3> QED
      BY <2>3, <1>1, AppendProperties, ResidentAssumption
  <2>5. Len(q2) <= PIECES
    <3> HIDE DEF q2, q
    <3> QED
      BY <2>1, <2>4
  <2>6. y = [seq |-> d.seq, next |-> "fetch", given |-> d.given]
    <3> HIDE DEF d
    <3> QED
      BY <2>2
  <2>7. y \in D /\ y.seq # 0
    <3> HIDE DEF d, y
    <3> QED
      BY <2>2, <2>6
  <2>8. d2 \in D /\ (d2.next # "idle" => d2.seq # 0)
    <3> HIDE DEF y
    <3> QED
      BY <2>7, IdleTyped
  <2>9. line' = [orders |-> o, pieces |-> q2, wanted |-> w, dl |-> d2]
    <3> HIDE DEF d2, q2, o, q, w, d
    <3> QED
      BY <1>1, <2>1
  <2> HIDE DEF d2, q2, o, q, w, d
  <2>10. LineTyped(line')
    BY <2>4, <2>5, <2>8, <2>9, <1>1, LineIf
  <2> QED
    BY <2>10
<1>6. LineTyped(line')
  BY <1>3, <1>4, <1>5 DEF Download
<1> QED
  BY <1>2, <1>6 DEF ResidentIInv

-----------------------------------------------------------------------------
(* Each step *)

Served == Up /\ Keeps(hop, hop')

\* Each step of the owner that goes on serving.
LEMMA RunStep ==
  ASSUME ResidentIInv, NEW j \in Job, Run(j)
  PROVE  ResidentIInv' /\ Served
<1> DEFINE g == [hop EXCEPT !.jobs = hop.jobs \cup {j}]
<1>1. SoundBut(hop, kern, {}) /\ LineTyped(line) /\ Up /\ hop.nextId <= MaxId /\ hop.phase = "up"
  BY DEF ResidentIInv, Run, Up
<1>2. hop.jobs \cup {j} \subseteq Job
  BY <1>1 DEF SoundBut, HopTyped
<1>3. PICK left \in Left : Done(NewTask(<<g, kern>>, j, left), line)
  BY DEF Run
<1>4. SoundBut(g, kern, {}) /\ Keeps(hop, g) /\ g.phase = "up" /\ g.nextId <= MaxId
  BY <1>1, <1>2, JobsKeep
<1> HIDE DEF g
<1>5. LeftWell(hop, NewTask(<<g, kern>>, j, left))
  BY <1>4, TriesWell, LeftOn
<1> QED
  BY <1>1, <1>3, <1>5, DoneWell DEF Served

LEMMA DeleteStep ==
  ASSUME ResidentIInv, NEW j \in Job, DeleteJob(j)
  PROVE  ResidentIInv' /\ Served
<1> DEFINE g == [hop EXCEPT !.jobs = hop.jobs \ {j}]
           ids == {id \in DOMAIN hop.rec : hop.rec[id].job = j}
<1>1. SoundBut(hop, kern, {}) /\ LineTyped(line) /\ Up /\ hop.phase = "up"
  BY DEF ResidentIInv, DeleteJob, Up
<1>2. hop.jobs \ {j} \subseteq Job
  BY <1>1 DEF SoundBut, HopTyped
<1>3. Done(RemoveAndStop(<<g, kern>>, ids), line)
  BY DEF DeleteJob
<1>4. SoundBut(g, kern, {}) /\ Keeps(hop, g) /\ g.phase = "up"
  BY <1>1, <1>2, JobsKeep
<1> HIDE DEF g, ids
<1>5. LeftWell(hop, RemoveAndStop(<<g, kern>>, ids))
  BY <1>4, RemovesWell, LeftOn
<1> QED
  BY <1>1, <1>3, <1>5, DoneWell DEF Served

LEMMA StopStep ==
  ASSUME ResidentIInv, NEW id, StopTask(id)
  PROVE  ResidentIInv' /\ Served
<1> DEFINE ids == {id}
<1>1. SoundBut(hop, kern, {}) /\ LineTyped(line) /\ Up /\ hop.phase = "up"
  BY DEF ResidentIInv, StopTask, Up
<1>2. Done(RemoveAndStop(<<hop, kern>>, ids), line)
  BY DEF StopTask
<1> HIDE DEF ids
<1>3. LeftWell(hop, RemoveAndStop(<<hop, kern>>, ids))
  BY <1>1, RemovesWell
<1> QED
  BY <1>1, <1>2, <1>3, DoneWell DEF Served

\* A task that runs or has failed is not being loaded.
LEMMA NotLoaded ==
  ASSUME NEW h, NEW k, SoundBut(h, k, {}), NEW id \in DOMAIN h.rec, h.rec[id].state # "Starting"
  PROVE  (\A i \in DOMAIN h.loads : h.loads[i].task # id) /\ id \notin Streams(h)
<1>1. TasksFit(h, {}) /\ h.loads \in Seq(Loading)
  BY DEF SoundBut, HopTyped
<1>2. \A i \in DOMAIN h.loads : h.loads[i].task # id
  BY <1>1 DEF TasksFit
<1>3. ASSUME id \in Streams(h) PROVE FALSE
  <2>1. h.loads # <<>> /\ h.loads[1].task = id
    BY <1>1, <1>3 DEF TasksFit
  <2>2. 1 \in DOMAIN h.loads
    BY <2>1, <1>1
  <2> QED
    BY <2>1, <2>2, <1>2
<1> QED
  BY <1>2, <1>3

LEMMA PollStep ==
  ASSUME ResidentIInv, NEW id, PollFailed(id)
  PROVE  ResidentIInv' /\ Served
<1>1. /\ SoundBut(hop, kern, {}) /\ LineTyped(line) /\ Up /\ hop.phase = "up"
      /\ id \in DOMAIN hop.rec /\ hop.rec[id].state = "Running"
  BY DEF ResidentIInv, PollFailed, Up
<1>2. PICK d \in Decision : (d.fires => hop.nextId <= MaxId) /\ Done(ScheduleRestart(<<hop, kern>>, id, d), line)
  BY DEF PollFailed
<1>3. SoundBut(hop, kern, {id}) /\ \A i \in DOMAIN hop.loads : hop.loads[i].task # id
  BY <1>1, MoreToDo, NotLoaded
<1>4. LeftWell(hop, ScheduleRestart(<<hop, kern>>, id, d))
  BY <1>1, <1>2, <1>3, SchedulesWell
<1> QED
  BY <1>1, <1>2, <1>4, DoneWell DEF Served

LEMMA DueStep ==
  ASSUME ResidentIInv, NEW id, RestartDue(id)
  PROVE  ResidentIInv' /\ Served
<1>1. /\ SoundBut(hop, kern, {}) /\ LineTyped(line) /\ Up /\ hop.phase = "up" /\ hop.nextId <= MaxId
      /\ id \in DOMAIN hop.rec /\ hop.rec[id].waits
  BY DEF ResidentIInv, RestartDue, Up
<1>2. PICK d \in Decision : Done(RestartDecide(<<hop, kern>>, id, d), line)
  BY DEF RestartDue
<1>3. hop.rec[id].state = "Failed"
  BY <1>1 DEF SoundBut, TasksFit
<1>4. /\ SoundBut(hop, kern, {id}) /\ id \notin Streams(hop) /\ \A i \in DOMAIN hop.loads : hop.loads[i].task # id
  BY <1>1, <1>3, MoreToDo, NotLoaded
<1>5. LeftWell(hop, RestartDecide(<<hop, kern>>, id, d))
  BY <1>1, <1>4, DecidesWell
<1> QED
  BY <1>1, <1>2, <1>5, DoneWell DEF Served

LEMMA PieceStep ==
  ASSUME ResidentIInv, TakePiece
  PROVE  ResidentIInv' /\ Served
<1> DEFINE P == [seq : Nat \ {0}, what : Piece]
           q == Tail(line.pieces)
           l == [line EXCEPT !.pieces = q]
           x == Head(line.pieces)
<1>1. SoundBut(hop, kern, {}) /\ LineTyped(line) /\ Up /\ hop.phase = "up" /\ line.pieces # <<>>
  BY DEF ResidentIInv, TakePiece, Up
<1>2. PICK ans \in {"ok", "refused"}, d \in Decision :
        /\ d.fires => hop.nextId <= MaxId
        /\ \E p \in {OnPiece(<<hop, kern>>, x.seq, x.what, ans, d)} : Done(p, l)
  BY DEF TakePiece
<1>3. Done(OnPiece(<<hop, kern>>, x.seq, x.what, ans, d), l)
  BY <1>2
<1>4. x \in P /\ q \in Seq(P) /\ Len(q) = Len(line.pieces) - 1 /\ Len(line.pieces) \in Nat
  <2>1. line.pieces \in Seq(P)
    BY <1>1 DEF LineTyped
  <2> HIDE DEF P
  <2> QED
    BY <2>1, <1>1, HeadTailProperties
<1>5. x.seq \in Nat /\ x.seq # None
  BY <1>4 DEF None
<1>6. LineTyped(l)
  <2> HIDE DEF q
  <2>1. l = [orders |-> line.orders, pieces |-> q, wanted |-> line.wanted, dl |-> line.dl]
    <3> DEFINE a == line.orders
               b == line.pieces
               w == line.wanted
               e == line.dl
    <3>1. line = [orders |-> a, pieces |-> b, wanted |-> w, dl |-> e]
      BY <1>1 DEF LineTyped
    <3>2. [line EXCEPT !.pieces = q] = [orders |-> a, pieces |-> q, wanted |-> w, dl |-> e]
      <4> HIDE DEF a, b, w, e
      <4> QED
        BY <3>1
    <3> QED
      BY <3>2
  <2>2. Len(q) <= PIECES
    <3>1. Len(line.pieces) <= PIECES /\ PIECES \in Nat
      BY <1>1, ResidentAssumption DEF LineTyped
    <3> QED
      BY <3>1, <1>4
  <2>3. /\ line.orders \in Seq(Nat \ {0}) /\ Len(line.orders) <= ORDERS /\ (line.dl.next # "idle" => line.dl.seq # 0)
        /\ line.dl \in [seq : Nat, next : Piece \cup {"idle", "fetch"}, given : Nat]
    BY <1>1 DEF LineTyped
  <2>4. q \in Seq([seq : Nat \ {0}, what : Piece])
    BY <1>4 DEF P
  <2> HIDE DEF l
  <2> QED
    BY <2>1, <2>2, <2>3, <2>4, LineIf
<1> HIDE DEF l, x
<1>7. LeftWell(hop, OnPiece(<<hop, kern>>, x.seq, x.what, ans, d))
  BY <1>1, <1>2, <1>5, PieceWell
<1> QED
  BY <1>1, <1>3, <1>6, <1>7, DoneWell DEF Served

LEMMA TickStep ==
  ASSUME ResidentIInv, Tick
  PROVE  ResidentIInv' /\ Served
<1>1. SoundBut(hop, kern, {}) /\ LineTyped(line) /\ Up /\ Done(<<hop, kern>>, line)
  BY DEF ResidentIInv, Tick
<1> QED
  BY <1>1, LeftAlone, DoneWell DEF Served

LEMMA FlipStep ==
  ASSUME ResidentIInv, FlipHop
  PROVE  ResidentIInv' /\ Served
<1>1. SoundBut(hop, kern, {}) /\ LineTyped(line) /\ Up /\ hop.phase = "up"
  BY DEF ResidentIInv, FlipHop, Up
<1>2. PICK kept \in BOOLEAN : Done(<<hop, RawLeft(kern, kept)>>, line)
  BY DEF FlipHop
<1>3. LeftWell(hop, <<hop, RawLeft(kern, kept)>>)
  BY <1>1, RawKeeps, LeftAlone
<1> QED
  BY <1>1, <1>2, <1>3, DoneWell DEF Served

LEMMA RestartFailsStep ==
  ASSUME ResidentIInv, RestartFails
  PROVE  ResidentIInv' /\ Served
<1>1. SoundBut(hop, kern, {}) /\ LineTyped(line) /\ Up /\ hop.phase = "up" /\ IsKern(kern)
  BY DEF ResidentIInv, RestartFails, Up, SoundBut, KernTyped
<1>2. PICK kept \in BOOLEAN, saved \in BOOLEAN :
        Done(<<hop, RawLeft(IF saved THEN [SaveState(kern, hop) EXCEPT !.fresh = FALSE] ELSE kern, kept)>>, line)
  BY DEF RestartFails
<1> DEFINE k == IF saved THEN [SaveState(kern, hop) EXCEPT !.fresh = FALSE] ELSE kern
<1>3. SoundBut(hop, k, {})
  <2>1. CASE saved
    <3>1. k = Saved(kern, hop, FALSE)
      <4>1. k = Aged(SaveState(kern, hop), FALSE)
        BY <2>1 DEF Aged
      <4> HIDE DEF k
      <4> QED
        BY <4>1, <1>1, SaveIs
    <3> HIDE DEF k
    <3> QED
      BY <3>1, <1>1, SaveKeeps
  <2>2. CASE ~saved
    <3>1. k = kern
      BY <2>2
    <3> QED
      BY <3>1, <1>1
  <2> QED
    BY <2>1, <2>2
<1>4. Done(<<hop, RawLeft(k, kept)>>, line)
  BY <1>2
<1> HIDE DEF k
<1>5. LeftWell(hop, <<hop, RawLeft(k, kept)>>)
  BY <1>1, <1>3, RawKeeps, LeftAlone
<1> QED
  BY <1>1, <1>4, <1>5, DoneWell DEF Served

-----------------------------------------------------------------------------
(* What the invariant says *)

\* Who has the slot of an app that runs.
LEMMA Inhabitant ==
  ASSUME NEW h, NEW k, SoundBut(h, k, {}), h.phase = "up", NEW s \in Slot, k.slots[s].on
  PROVE  /\ s \in DOMAIN h.inUse /\ h.inUse[s] \in DOMAIN h.cages /\ h.cages[h.inUse[s]].slot = s
         /\ h.cages[h.inUse[s]].phase = "Armed" /\ h.inUse[s] \in Given(h)
         /\ h.inUse[s] \notin h.mistaken => h.inUse[s] = k.slots[s].task
<1>1. HopTyped(h) /\ CageBooks(h) /\ SlotsFit(h, k) /\ AppsCaged(h, k)
  BY DEF SoundBut
<1>2. s \in DOMAIN h.inUse /\ h.inUse[s] \in DOMAIN h.cages /\ h.cages[h.inUse[s]].slot = s
  BY <1>1 DEF AppsCaged, CageBooks
<1>3. k.slots[s].state = "Running" /\ s # None
  BY <1>1 DEF SlotsFit, Slot, None
<1>4. h.cages[h.inUse[s]] \in Cage /\ h.inUse[s] \in Given(h)
  BY <1>1, <1>2 DEF HopTyped
<1>5. h.cages[h.inUse[s]].phase = "Armed"
  <2>1. h.cages[h.inUse[s]].phase # "Queued"
    BY <1>1, <1>2, <1>3 DEF CageBooks
  <2>2. h.cages[h.inUse[s]].phase # "Streaming"
    BY <1>1, <1>2, <1>3 DEF SlotsFit
  <2> QED
    BY <2>1, <2>2, <1>4 DEF Cage
<1>6. h.inUse[s] \notin h.mistaken => k.slots[s].task = h.inUse[s]
  BY <1>1, <1>2, <1>5 DEF SlotsFit
<1> QED
  BY <1>2, <1>4, <1>5, <1>6

LEMMA InvIs == ResidentIInv => ResidentInv
<1> SUFFICES ASSUME ResidentIInv PROVE ResidentInv
  OBVIOUS
<1>1. /\ SoundBut(hop, kern, {}) /\ HopTyped(hop) /\ KernTyped(hop, kern) /\ CageBooks(hop) /\ OneStream(hop)
      /\ TasksFit(hop, {}) /\ LineTyped(line)
  BY DEF ResidentIInv, SoundBut
<1>2. TypeOK
  <2>1. Given(hop) \subseteq Id
    BY <1>1, ResidentAssumption DEF HopTyped, Given, Id
  <2> QED
    BY <2>1, <1>1 DEF TypeOK, HopTyped, KernTyped, LineTyped
<1>3. RunnerBooks
  <2>1. ASSUME NEW id \in DOMAIN hop.cages, hop.cages[id].slot # None PROVE hop.cages[id].slot \in DOMAIN hop.inUse
    BY <2>1, <1>1 DEF CageBooks
  <2>2. hop.downloads = Cardinality(Streams(hop)) /\ hop.downloads <= 1
    <3>1. CASE Streams(hop) = {}
      <4>1. Cardinality(Streams(hop)) = 0
        BY <3>1, FS_EmptySet
      <4> QED
        BY <4>1, <3>1, <1>1 DEF OneStream
    <3>2. CASE Streams(hop) # {}
      <4>1. PICK x : Streams(hop) = {x}
        BY <3>2, <1>1 DEF OneStream
      <4>2. Cardinality(Streams(hop)) = 1
        BY <4>1, FS_Singleton
      <4> QED
        BY <4>2, <3>2, <1>1 DEF OneStream
    <3> QED
      BY <3>1, <3>2
  <2> QED
    BY <2>1, <2>2, <1>1 DEF RunnerBooks, CageBooks
<1>4. EveryAppOwned
  <2> SUFFICES ASSUME hop.phase = "up"
               PROVE  /\ \A s \in Slot : kern.slots[s].on =>
                           s \in DOMAIN hop.inUse /\ (hop.inUse[s] \notin hop.mistaken => hop.inUse[s] = kern.slots[s].task)
                      /\ \A id \in DOMAIN hop.rec : hop.rec[id].state = "Running" /\ hop.rec[id].pid # None =>
                           id \in DOMAIN hop.cages /\ hop.cages[id].slot = hop.rec[id].pid
    BY DEF EveryAppOwned
  <2>1. ASSUME NEW s \in Slot, kern.slots[s].on
        PROVE  s \in DOMAIN hop.inUse /\ (hop.inUse[s] \notin hop.mistaken => hop.inUse[s] = kern.slots[s].task)
    BY <2>1, <1>1, Inhabitant
  <2>2. ASSUME NEW id \in DOMAIN hop.rec, hop.rec[id].state = "Running"
        PROVE  id \in DOMAIN hop.cages /\ hop.cages[id].slot = hop.rec[id].pid
    BY <2>2, <1>1 DEF TasksFit
  <2> QED
    BY <2>1, <2>2
<1> QED
  BY <1>2, <1>3, <1>4 DEF ResidentInv

\* A step that keeps the cages stops no app whose task still runs after it.
LEMMA OnlyItsOwn ==
  ASSUME ResidentIInv, ResidentIInv', Keeps(hop, hop')
  PROVE  StopsOnlyItsOwn
<1> SUFFICES ASSUME hop.phase = "up", NEW s \in Slot, kern.slots[s].on, kern'.slots[s].state # "Running",
                    hop.inUse[s] \in DOMAIN hop'.rec, hop'.rec[hop.inUse[s]].state = "Running"
             PROVE  FALSE
  BY DEF StopsOnlyItsOwn
<1> DEFINE id == hop.inUse[s]
<1>1. SoundBut(hop, kern, {}) /\ SoundBut(hop', kern', {})
  BY DEF ResidentIInv
<1>2. id \in DOMAIN hop.cages /\ hop.cages[id].slot = s /\ id \in Given(hop)
  BY <1>1, Inhabitant
<1>3. id \in DOMAIN hop'.cages /\ hop'.cages[id].phase = "Armed"
  BY <1>1 DEF SoundBut, TasksFit
<1>4. hop'.cages[id].slot = s
  BY <1>2, <1>3 DEF Keeps, Slot, None
<1>5. kern'.slots[hop'.cages[id].slot].state = "Running"
  BY <1>1, <1>3, <1>4 DEF SoundBut, SlotsFit
<1> QED
  BY <1>4, <1>5

LEMMA ResidentInit == Init => ResidentIInv
<1> SUFFICES ASSUME Init PROVE ResidentIInv
  OBVIOUS
<1> DEFINE h == [nextId |-> 1]
<1>1. h.nextId \in 1..(MaxId + 1) /\ 0 \in 0..MaxBoots
  BY ResidentAssumption
<1>2. hop = Fresh(h, 0) /\ kern = Blank /\ line = NewLine
  BY DEF Init, Blank, NoState
<1> HIDE DEF h
<1> QED
  BY <1>1, <1>2, BlankWell, NewLineTyped DEF ResidentIInv

LEMMA ColdStep ==
  ASSUME ResidentIInv, ColdBoot
  PROVE  ResidentIInv' /\ hop'.phase = "boot"
<1>1. hop' = Fresh(hop, hop.boots + 1) /\ line' = NewLine /\ kern' = Blank
  BY DEF ColdBoot, Blank
<1>2. hop.boots + 1 \in 0..MaxBoots /\ hop.nextId \in 1..(MaxId + 1)
  BY ResidentAssumption DEF ColdBoot, ResidentIInv, SoundBut, HopTyped
<1>3. SoundBut(hop', kern', {})
  BY <1>1, <1>2, BlankWell
<1>4. hop'.phase = "boot"
  BY <1>1 DEF Fresh
<1> QED
  BY <1>1, <1>3, <1>4, NewLineTyped DEF ResidentIInv

\* Every step keeps the invariant and takes no slot from an app that is not to stop.
LEMMA ResidentStep ==
  ASSUME ResidentIInv, [Next]_vars
  PROVE  ResidentIInv' /\ [StopsOnlyItsOwn /\ AppsRunOn]_vars
<1>1. ASSUME Served, ResidentIInv' PROVE StopsOnlyItsOwn /\ AppsRunOn
  <2>1. StopsOnlyItsOwn
    BY <1>1, OnlyItsOwn DEF Served
  <2>2. hop.phase = "up"
    BY <1>1 DEF Served, Up
  <2> QED
    BY <2>1, <2>2 DEF AppsRunOn
<1>2. CASE Owner
  <2>1. CASE \E j \in Job : Run(j) \/ DeleteJob(j)
    BY <2>1, <1>1, RunStep, DeleteStep
  <2>2. CASE \E id \in Id : StopTask(id) \/ PollFailed(id) \/ RestartDue(id)
    BY <2>2, <1>1, StopStep, PollStep, DueStep
  <2>3. CASE TakePiece \/ Tick \/ FlipHop \/ RestartFails
    BY <2>3, <1>1, PieceStep, TickStep, FlipStep, RestartFailsStep
  <2>4. CASE RestartHop
    <3>1. ResidentIInv' /\ hop'.phase = "leaving"
      BY <2>4, RestartsWell
    <3> QED
      BY <3>1 DEF StopsOnlyItsOwn, AppsRunOn
  <2> QED
    BY <1>2, <2>1, <2>2, <2>3, <2>4 DEF Owner
<1>3. CASE Download
  <2>1. ResidentIInv' /\ hop' = hop /\ kern' = kern
    BY <1>3, DownloadsWell
  <2>2. SlotsFit(hop, kern)
    BY DEF ResidentIInv, SoundBut
  <2> QED
    BY <2>1, <2>2 DEF SlotsFit, StopsOnlyItsOwn, AppsRunOn
<1>4. CASE Leave \/ OnStop
  <2>1. PICK ok \in BOOLEAN : HandOver(ok)
    BY <1>4 DEF Leave, OnStop
  <2>2. hop.boots < MaxBoots /\ hop.phase \in {"up", "leaving"}
    BY <1>4 DEF Leave, OnStop, Up
  <2>3. ResidentIInv' /\ hop'.phase = "boot"
    BY <2>1, <2>2, HandsOver
  <2> QED
    BY <2>3 DEF StopsOnlyItsOwn, AppsRunOn
<1>5. CASE ColdBoot
  <2>1. ResidentIInv' /\ hop'.phase = "boot"
    BY <1>5, ColdStep
  <2> QED
    BY <2>1 DEF StopsOnlyItsOwn, AppsRunOn
<1>6. CASE Boot
  <2>1. ResidentIInv' /\ hop'.phase = "sweep"
    BY <1>6, BootsWell
  <2> QED
    BY <2>1 DEF StopsOnlyItsOwn, AppsRunOn
<1>7. CASE Sweep
  <2>1. ResidentIInv' /\ AppsRunOn /\ hop.phase = "sweep"
    BY <1>7, SweepsWell DEF Sweep
  <2> QED
    BY <2>1 DEF StopsOnlyItsOwn
<1>8. CASE \E s \in Slot : AppExits(s)
  <2>1. /\ ResidentIInv' /\ hop' = hop
        /\ \A z \in Slot : kern'.slots[z].state = kern.slots[z].state
    BY <1>8, ExitsWell
  <2>2. SlotsFit(hop, kern)
    BY DEF ResidentIInv, SoundBut
  <2> QED
    BY <2>1, <2>2 DEF SlotsFit, StopsOnlyItsOwn, AppsRunOn
<1>9. CASE UNCHANGED vars
  <2>1. hop' = hop /\ kern' = kern /\ line' = line
    BY <1>9 DEF vars
  <2>2. ResidentIInv'
    BY <2>1 DEF ResidentIInv
  <2> QED
    BY <2>2, <1>9
<1> QED
  BY <1>2, <1>3, <1>4, <1>5, <1>6, <1>7, <1>8, <1>9 DEF Next

\* The runner's books fit the kernel's slots and every app that runs is owned, for
\* any jobs, slots, pieces, queues and boots: whatever image_begin, image_chunk and
\* finish_load leave when a load is stopped halfway, and whatever restore and
\* sweep_strays find of an earlier Hop.
THEOREM ResidentSafe == Spec => []ResidentInv
<1>1. Spec => []ResidentIInv
  BY ResidentInit, ResidentStep, PTL DEF Spec
<1> QED
  BY <1>1, InvIs, PTL

\* No step takes a slot from an app that is not to stop: HopRunner::stop goes by the
\* task's own cage, and the sweep after Node::restore takes only what was not adopted.
THEOREM SlotsAreRespected == Spec => SlotsRespected
<1>1. Spec => []ResidentIInv
  BY ResidentInit, ResidentStep, PTL DEF Spec
<1>2. ResidentIInv /\ [Next]_vars => [StopsOnlyItsOwn /\ AppsRunOn]_vars
  BY ResidentStep
<1> QED
  BY <1>1, <1>2, PTL DEF Spec, SlotsRespected
=============================================================================
