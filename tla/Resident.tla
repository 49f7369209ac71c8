------------------------------ MODULE Resident ------------------------------
(***************************************************************************)
(* Hop as the resident of a HopOS node: the agent's records, the queue of  *)
(* image loads, the runner with its cages, the download task beside the    *)
(* owner, and the kernel whose slots outlive a Hop.                        *)
(*                                                                         *)
(* The owner handles one request, piece, poll or timer to the end,         *)
(* executes the actions that the agent asks for and flushes; that is one   *)
(* step.  The download task and the kernel step in between.  A call that   *)
(* the kernel does not answer is fatal in every step of the owner: Hop     *)
(* exits and the watchdog resets the node, whatever the step had done      *)
(* (ColdBoot).  Restart budgets and admission are those of module Agent;   *)
(* here the decision after a failure is a choice.                          *)
(***************************************************************************)
EXTENDS Integers, Sequences, FiniteSets, FiniteSetsExt, Functions

CONSTANTS
  Job,
  MaxId,      \* bound on the task ids given out
  MaxSlot,    \* the slots for which the kernel has memory
  SIZE,       \* the pieces of an image
  ORDERS, PIECES, MAX_CONCURRENT_DOWNLOADS,
  MaxBoots    \* bound on the boots

ASSUME ResidentAssumption ==
  /\ MaxId \in Nat /\ MaxSlot \in Nat \ {0} /\ SIZE \in Nat \ {0} /\ MaxBoots \in Nat
  /\ ORDERS \in Nat \ {0} /\ PIECES \in Nat \ {0} /\ MAX_CONCURRENT_DOWNLOADS \in Nat \ {0}

VARIABLES
  hop,    \* what the owner keeps, gone when Hop leaves
  kern,   \* the kernel: its slots, and the state that a Hop left there
  line    \* the line to the download task and back

vars == <<hop, kern, line>>

Id == 1..MaxId
Slot == 1..MaxSlot

\* No load, no slot, no task (a raw image has none).
None == 0

With(f, k, v) == [x \in DOMAIN f \cup {k} |-> IF x = k THEN v ELSE f[x]]
Without(f, K) == Restrict(f, DOMAIN f \ K)

-----------------------------------------------------------------------------
(* The kernel *)

EmptySlot == [state |-> "Empty", on |-> FALSE, task |-> None, got |-> 0]

SlotRec == [state : {"Empty", "Streaming", "Running"}, on : BOOLEAN, task : {None} \cup Id, got : 0..SIZE]

FreeSlots(k) == {s \in Slot : k.slots[s].state = "Empty"}

\* StartSlot: the lowest free slot.
StartSlot(k, s, id) ==
  [k EXCEPT !.slots[s] = [state |-> "Streaming", on |-> FALSE, task |-> id, got |-> 0]]

\* StreamImage: the last byte places the app and starts it.
StreamImage(k, s) ==
  [k EXCEPT !.slots[s].got = @ + 1,
            !.slots[s].state = IF k.slots[s].got + 1 = SIZE THEN "Running" ELSE @,
            !.slots[s].on = k.slots[s].got + 1 = SIZE]

\* StopSlot, of some slots one by one.
StopSlots(k, S) == [k EXCEPT !.slots = [s \in Slot |-> IF s \in S THEN EmptySlot ELSE k.slots[s]]]

-----------------------------------------------------------------------------
(* The runner: cages, and who has which slot.  An owner's state h and the   *)
(* kernel k travel together as a pair <<h, k>>.                             *)

Cage == [phase : {"Queued", "Streaming", "Armed"}, slot : {None} \cup Slot, done : 0..SIZE]

Streams(h) == {id \in DOMAIN h.cages : h.cages[id].phase = "Streaming"}

SlotsOf(h, ids) == {h.cages[id].slot : id \in ids \cap DOMAIN h.cages}

\* drop_cage, of those tasks that have one.
DropCages(h, ids) ==
  [h EXCEPT !.cages = Without(@, ids),
            !.inUse = Without(@, SlotsOf(h, ids)),
            !.downloads = @ - Cardinality(ids \cap Streams(h))]

\* (slip: a task without a cage is stopped by the number in its record)
RunnerStopByPid(p, ids) ==
  LET h == p[1]
      old == {h.rec[id].pid : id \in (ids \cap DOMAIN h.rec) \ DOMAIN h.cages}
  IN  <<DropCages(h, ids), StopSlots(p[2], SlotsOf(h, ids) \cup old)>>

\* The tasks are stopped one by one, each only by its own cage: an old record never
\* stops the slot's next inhabitant.
RunnerStop(p, ids) == <<DropCages(p[1], ids), StopSlots(p[2], SlotsOf(p[1], ids))>>

\* What a start leaves: a cage that awaits its image.  The kernel picks the slot later.
QueuedCage == [phase |-> "Queued", slot |-> None, done |-> 0]

RunnerStart(h, id) == [h EXCEPT !.cages = With(@, id, QueuedCage)]

\* The runner's start, and a load at the end of the queue.
Start(p, id) ==
  LET h == p[1] IN
  <<[RunnerStart(h, id) EXCEPT
       !.loads = Append(@, [seq |-> h.nextSeq, task |-> id, sent |-> FALSE, placed |-> None]),
       !.nextSeq = @ + 1], p[2]>>

-----------------------------------------------------------------------------
(* The agent's part *)

Record == [job : Job, state : {"Starting", "Running", "Failed"}, pid : {None} \cup Slot, waits : BOOLEAN]

Forget(h, ids) == [h EXCEPT !.rec = Without(@, ids)]

\* How a try leaves the record of a job: it awaits its image, or it has failed and waits
\* for the next try or not.
Left == {"awaits", "waits", "givenUp"}

\* The runner takes a start or refuses it at once, by what the job asks for.  What the
\* agent makes of a refusal belongs to the step: of its tries the last one is left, failed.
NewTask(p, j, left) ==
  LET h == p[1]
      e == [job |-> j, state |-> IF left = "awaits" THEN "Starting" ELSE "Failed", pid |-> None,
            waits |-> left = "waits"]
      q == <<[h EXCEPT !.rec = With(@, h.nextId, e), !.nextId = @ + 1], p[2]>>
  IN  IF left = "awaits" THEN Start(q, h.nextId) ELSE q

\* After a failure: a next try at once, or none yet.
Decision == {d \in [fires : BOOLEAN, left : Left] : d.left = "awaits" => d.fires}

RestartDecide(p, id, d) ==
  LET h == p[1]  j == h.rec[id].job IN
  CASE j \notin h.jobs -> <<Forget(h, {id}), p[2]>>
    [] j \in h.jobs /\ d.fires -> NewTask(<<Forget(h, {id}), p[2]>>, j, d.left)
    [] OTHER -> <<[h EXCEPT !.rec[id].state = "Failed", !.rec[id].waits = (d.left = "waits")], p[2]>>

\* First the slot, then the decision.
ScheduleRestart(p, id, d) == RestartDecide(RunnerStop(p, {id}), id, d)

\* (slip: the record is not looked up again)
OnStartedBlind(p, id, res, pid, d) ==
  LET h == p[1] IN
  CASE res = "ok" -> <<[h EXCEPT !.rec = With(@, id, [job |-> CHOOSE j \in Job : TRUE,
                          state |-> "Running", pid |-> pid, waits |-> FALSE])], p[2]>>
    [] res = "noCapacity" -> <<Forget(h, {id}), p[2]>>
    [] res = "failed" /\ id \in DOMAIN h.rec -> ScheduleRestart(p, id, d)
    [] OTHER -> p

\* on_started: a task that is gone by now is stopped.
OnStarted(p, id, res, pid, d) ==
  LET h == p[1]
      alive == id \in DOMAIN h.rec /\ h.rec[id].job \in h.jobs
  IN
  CASE res = "ok" /\ alive -> <<[h EXCEPT !.rec[id].state = "Running", !.rec[id].pid = pid], p[2]>>
    [] res = "ok" /\ ~alive -> RunnerStop(<<Forget(h, {id}), p[2]>>, {id})
    [] res = "noCapacity" -> <<Forget(h, {id}), p[2]>>
    [] res = "failed" /\ id \in DOMAIN h.rec -> ScheduleRestart(p, id, d)
    [] OTHER -> p

-----------------------------------------------------------------------------
(* The line to the download task *)

\* begin: whether the server gave a length.
Piece == {"begin", "beginNone", "bytes", "endOk", "endErr"}

Wanted(h) == IF h.loads # <<>> /\ h.loads[1].sent THEN h.loads[1].seq ELSE None

\* (slip: what is wanted is written down before the order goes out)
FlushEarly(h, l) ==
  LET due == h.loads # <<>> /\ ~h.loads[1].sent
      fits == Len(l.orders) < ORDERS
      t == IF due /\ fits THEN [h EXCEPT !.loads[1].sent = TRUE] ELSE h
  IN  <<t, [l EXCEPT !.orders = IF due /\ fits THEN Append(@, h.loads[1].seq) ELSE @,
                     !.wanted = Wanted(h)]>>

\* flush: the order of the first load goes out if the queue has room, else back.
Flush(h, l) ==
  LET due == h.loads # <<>> /\ ~h.loads[1].sent
      fits == Len(l.orders) < ORDERS
      t == IF due /\ fits THEN [h EXCEPT !.loads[1].sent = TRUE] ELSE h
  IN  <<t, [l EXCEPT !.orders = IF due /\ fits THEN Append(@, h.loads[1].seq) ELSE @,
                     !.wanted = Wanted(t)]>>

\* The end of a step of the owner with outcome p; l is the line it left.
Done(p, l) ==
  /\ hop' = Flush(p[1], l)[1]
  /\ line' = Flush(p[1], l)[2]
  /\ kern' = p[2]

Up == hop.phase = "up"

-----------------------------------------------------------------------------
(* Requests, polls and timers of the owner *)

Run(j) ==
  /\ Up /\ hop.nextId <= MaxId
  /\ \E left \in Left : Done(NewTask(<<[hop EXCEPT !.jobs = @ \cup {j}], kern>>, j, left), line)

\* remove_and_stop
RemoveAndStop(p, ids) ==
  LET q == RunnerStop(p, ids) IN <<Forget(q[1], ids), q[2]>>

StopTask(id) ==
  /\ Up /\ id \in DOMAIN hop.rec
  /\ Done(RemoveAndStop(<<hop, kern>>, {id}), line)

\* The definition goes at once, then the records.
DeleteJob(j) ==
  /\ Up /\ j \in hop.jobs
  /\ LET ids == {id \in DOMAIN hop.rec : hop.rec[id].job = j}
     IN  Done(RemoveAndStop(<<[hop EXCEPT !.jobs = @ \ {j}], kern>>, ids), line)

\* The monitor's poll of a running task that is found dead.
PollFailed(id) ==
  /\ Up /\ id \in DOMAIN hop.rec /\ hop.rec[id].state = "Running"
  /\ \/ id \notin DOMAIN hop.cages
     \/ id \in DOMAIN hop.cages /\ ~kern.slots[hop.cages[id].slot].on
  /\ \E d \in Decision :
       /\ d.fires => hop.nextId <= MaxId
       /\ Done(ScheduleRestart(<<hop, kern>>, id, d), line)

RestartDue(id) ==
  /\ Up /\ id \in DOMAIN hop.rec /\ hop.rec[id].waits
  /\ hop.nextId <= MaxId
  /\ \E d \in Decision :
       /\ d.fires \/ d.left = "givenUp"
       /\ Done(RestartDecide(<<hop, kern>>, id, d), line)

\* A tick with nothing due still flushes.
Tick == Up /\ Done(<<hop, kern>>, line)

-----------------------------------------------------------------------------
(* The owner takes a piece *)

\* finish_load: what is not running is stopped, and the agent hears of it.
FinishLoad(p, res, pid, d) ==
  LET load == p[1].loads[1]
      popped == <<[p[1] EXCEPT !.loads = Tail(@)], p[2]>>
      q == IF res = "ok" THEN popped ELSE RunnerStop(popped, {load.task})
  IN  OnStarted(q, load.task, res, pid, d)

\* image_begin; ans is the kernel's answer to START_SLOT.
ImageBegin(p, id, size, ans, d) ==
  LET h == p[1] IN
  CASE id \notin DOMAIN h.cages -> FinishLoad(p, "failed", None, d)
    [] id \in DOMAIN h.cages /\ h.cages[id].phase # "Queued" -> FinishLoad(p, "failed", None, d)
    [] id \in DOMAIN h.cages /\ h.cages[id].phase = "Queued" /\ size = 0 ->
         FinishLoad(<<DropCages(h, {id}), p[2]>>, "failed", None, d)
    [] id \in DOMAIN h.cages /\ h.cages[id].phase = "Queued" /\ size > 0
         /\ h.downloads >= MAX_CONCURRENT_DOWNLOADS -> FinishLoad(p, "failed", None, d)
    [] OTHER ->
         CASE ans = "refused" -> FinishLoad(<<DropCages(h, {id}), p[2]>>, "failed", None, d)
           [] ans # "refused" /\ FreeSlots(p[2]) = {} -> FinishLoad(<<DropCages(h, {id}), p[2]>>, "noCapacity", None, d)
           [] OTHER ->
                LET s == Min(FreeSlots(p[2]))
                IN  <<[h EXCEPT !.inUse = With(@, s, id),
                                !.cages[id] = [phase |-> "Streaming", slot |-> s, done |-> 0],
                                !.downloads = @ + 1], StartSlot(p[2], s, id)>>

\* image_chunk; a refused piece, or a last one that is no image, frees the slot.
ImageChunk(p, id, ans, d) ==
  LET h == p[1] IN
  IF id \notin DOMAIN h.cages \/ h.cages[id].phase # "Streaming" THEN FinishLoad(p, "failed", None, d)
  ELSE
  LET s == h.cages[id].slot
      total == h.cages[id].done + 1
  IN
  CASE ans = "refused" -> FinishLoad(<<DropCages(h, {id}), StopSlots(p[2], {s})>>, "failed", None, d)
    [] ans # "refused" /\ total < SIZE -> <<[h EXCEPT !.cages[id].done = total], StreamImage(p[2], s)>>
    [] OTHER -> <<[h EXCEPT !.cages[id] = [phase |-> "Armed", slot |-> s, done |-> total],
                            !.downloads = @ - 1, !.loads[1].placed = s], StreamImage(p[2], s)>>

\* on_piece: only of the order that the first load waits for.
OnPiece(p, seq, piece, ans, d) ==
  IF Wanted(p[1]) # seq THEN p
  ELSE LET load == p[1].loads[1] IN
  CASE piece = "begin" -> ImageBegin(p, load.task, SIZE, ans, d)
    [] piece = "beginNone" -> ImageBegin(p, load.task, 0, ans, d)
    [] piece = "bytes" -> ImageChunk(p, load.task, ans, d)
    [] piece = "endOk" /\ load.placed # None -> FinishLoad(p, "ok", load.placed, d)
    [] OTHER -> FinishLoad(p, "failed", None, d)

TakePiece ==
  /\ Up /\ line.pieces # <<>>
  /\ \E ans \in {"ok", "refused"}, d \in Decision :
       /\ d.fires => hop.nextId <= MaxId
       /\ \E p \in {OnPiece(<<hop, kern>>, Head(line.pieces).seq, Head(line.pieces).what, ans, d)} :
            Done(p, [line EXCEPT !.pieces = Tail(@)])

-----------------------------------------------------------------------------
(* The download task.  Whether an order is wanted is read before the task  *)
(* waits for room, so a piece may go out after its order was given up.     *)

Idle == [seq |-> None, next |-> "idle", given |-> 0]

\* Any length that the server sends: an image too short, right, or too long.
MaxGiven == SIZE + 1

DownloadTake ==
  /\ line.dl = Idle /\ line.orders # <<>>
  /\ line' = [line EXCEPT !.orders = Tail(@),
                          !.dl = IF Head(line.orders) = line.wanted
                                 THEN [seq |-> Head(line.orders), next |-> "fetch", given |-> 0] ELSE @]
  /\ UNCHANGED <<hop, kern>>

\* fetch: the answer's head, its next part, its end or an error; a step that is
\* no longer wanted ends the download.
DownloadFetch ==
  /\ line.dl.next = "fetch"
  /\ IF line.dl.seq # line.wanted THEN line' = [line EXCEPT !.dl = Idle]
     ELSE \E w \in Piece :
            /\ w \in {"begin", "beginNone"} => line.dl.given = 0
            /\ w \in {"bytes", "endOk"} => line.dl.given > 0
            /\ w = "bytes" => line.dl.given <= MaxGiven
            /\ line' = [line EXCEPT !.dl.next = w, !.dl.given = @ + 1]
  /\ UNCHANGED <<hop, kern>>

\* The piece goes out when there is room.
DownloadSend ==
  /\ line.dl.next \in Piece /\ Len(line.pieces) < PIECES
  /\ line' = [line EXCEPT !.pieces = Append(@, [seq |-> line.dl.seq, what |-> line.dl.next]),
                          !.dl = IF line.dl.next \in {"endOk", "endErr"} THEN Idle
                                 ELSE [@ EXCEPT !.next = "fetch"]]
  /\ UNCHANGED <<hop, kern>>

-----------------------------------------------------------------------------
(* Leaving and arriving *)

\* save_state: the jobs and every record, with its slot.
SaveState(k, h) == [k EXCEPT !.state = [jobs |-> h.jobs, tasks |-> h.rec], !.fresh = TRUE]

NewLine == [orders |-> <<>>, pieces |-> <<>>, wanted |-> None, dl |-> Idle]

\* fetch_raw of an image for the kernel or for Hop: a slot of no task.  Where a
\* stop is not confirmed, it stays; nobody looks at the answer.
RawLeft(k, kept) ==
  IF kept /\ FreeSlots(k) # {}
  THEN [k EXCEPT !.slots[Min(FreeSlots(k))] = [state |-> "Running", on |-> FALSE, task |-> None, got |-> 0]]
  ELSE k

\* POST /flip: the bundle in a slot, then the kernel takes it or refuses.
FlipHop == Up /\ \E kept \in BOOLEAN : Done(<<hop, RawLeft(kern, kept)>>, line)

\* POST /restart that fails: no image, no state at the kernel, or a refusal.
RestartFails ==
  /\ Up /\ hop.boots < MaxBoots
  /\ \E kept, saved \in BOOLEAN :
       Done(<<hop, RawLeft(IF saved THEN [SaveState(kern, hop) EXCEPT !.fresh = FALSE] ELSE kern, kept)>>, line)

\* POST /restart that the kernel takes: the state first.
RestartHop ==
  /\ Up /\ hop.boots < MaxBoots
  /\ Done(<<[hop EXCEPT !.phase = "leaving"], SaveState(kern, hop)>>, line)

\* What is left for the next Hop: nothing but the kernel.
Fresh(h, boots) ==
  [phase |-> "boot", boots |-> boots, nextId |-> h.nextId, nextSeq |-> 1, jobs |-> {}, rec |-> <<>>,
   loads |-> <<>>, cages |-> <<>>, inUse |-> <<>>, downloads |-> 0, mistaken |-> {}]

\* hand_over: the state once more (a failure is only logged), and out of main.
\* A slot whose image is not whole yet may stay with the kernel.
HandOver(ok) ==
  /\ LET k == IF ok THEN SaveState(kern, hop)
              ELSE [kern EXCEPT !.fresh = @ /\ hop.phase = "leaving"]
     IN  \E dropped \in SUBSET {s \in Slot : k.slots[s].state = "Streaming"} :
           kern' = StopSlots(k, dropped)
  /\ hop' = Fresh(hop, hop.boots + 1)
  /\ line' = NewLine

Leave == hop.phase = "leaving" /\ hop.boots < MaxBoots /\ \E ok \in BOOLEAN : HandOver(ok)

\* The kernel's stop bell.
OnStop == Up /\ hop.boots < MaxBoots /\ \E ok \in BOOLEAN : HandOver(ok)

\* A fatal step of Hop, and the watchdog's reset: the kernel starts empty.
ColdBoot ==
  /\ hop.boots < MaxBoots
  /\ hop' = Fresh(hop, hop.boots + 1)
  /\ line' = NewLine
  /\ kern' = [slots |-> [s \in Slot |-> EmptySlot], state |-> [jobs |-> {}, tasks |-> <<>>], fresh |-> TRUE]

\* adopt_running: the tasks whose slot the kernel reports as running; two
\* records with one slot leave the first.
AdoptRunning(tasks, slots) ==
  LET runs == {id \in DOMAIN tasks : tasks[id].pid # None /\ slots[tasks[id].pid].state = "Running"}
  IN  {id \in runs : \A x \in runs : tasks[x].pid = tasks[id].pid => id <= x}

\* (For the properties.) The tasks that were adopted with the slot of another: the state
\* was saved at another moment, or by a Hop that had itself adopted so.
Mistaken(tasks, slots) ==
  {id \in AdoptRunning(tasks, slots) : slots[tasks[id].pid].task # id}

\* restore: the jobs, and the tasks that were adopted.
Boot ==
  /\ hop.phase = "boot"
  /\ LET tasks == kern.state.tasks
         mine == AdoptRunning(tasks, kern.slots)
     IN  hop' = [hop EXCEPT
           !.phase = "sweep", !.jobs = kern.state.jobs,
           !.mistaken = Mistaken(tasks, kern.slots),
           !.rec = [id \in mine |-> [tasks[id] EXCEPT !.waits = FALSE]],
           !.cages = [id \in mine |-> [phase |-> "Armed", slot |-> tasks[id].pid, done |-> SIZE]],
           !.inUse = [s \in {tasks[id].pid : id \in mine} |-> CHOOSE id \in mine : tasks[id].pid = s]]
  /\ UNCHANGED <<kern, line>>

\* What runs and is nobody's.
Strays(h, k) == {s \in Slot : k.slots[s].state = "Running" /\ s \notin DOMAIN h.inUse}

\* sweep_strays

Sweep ==
  /\ hop.phase = "sweep"
  /\ LET gone == Strays(hop, kern)
     IN  Done(<<[hop EXCEPT !.phase = "up"],
                StopSlots(kern, gone)>>, line)

\* An app ends by itself; its slot waits for somebody to stop it.
AppExits(s) ==
  /\ kern.slots[s].on
  /\ kern' = [kern EXCEPT !.slots[s].on = FALSE]
  /\ UNCHANGED <<hop, line>>

-----------------------------------------------------------------------------
NoState == [jobs |-> {}, tasks |-> <<>>]

Init ==
  /\ hop = Fresh([nextId |-> 1], 0)
  /\ kern = [slots |-> [s \in Slot |-> EmptySlot], state |-> NoState, fresh |-> TRUE]
  /\ line = NewLine

Owner ==
  \/ \E j \in Job : Run(j) \/ DeleteJob(j)
  \/ \E id \in Id : StopTask(id) \/ PollFailed(id) \/ RestartDue(id)
  \/ TakePiece \/ Tick
  \/ FlipHop \/ RestartFails \/ RestartHop

Download == DownloadTake \/ DownloadFetch \/ DownloadSend

Next ==
  \/ Owner \/ Download
  \/ Leave \/ OnStop \/ ColdBoot \/ Boot \/ Sweep
  \/ \E s \in Slot : AppExits(s)

\* The executor polls every task that is ready; a download ends, by its bytes or by the
\* idle limit of its connection; the owner ticks and takes the pieces that wait.
Fairness == WF_vars(Tick) /\ WF_vars(TakePiece) /\ WF_vars(Download)

Spec == Init /\ [][Next]_vars /\ Fairness

-----------------------------------------------------------------------------
(* Properties *)

TypeOK ==
  /\ hop.phase \in {"boot", "sweep", "up", "leaving"} /\ hop.boots \in 0..MaxBoots
  /\ hop.nextId \in 1..(MaxId + 1) /\ hop.nextSeq \in Nat /\ hop.jobs \subseteq Job
  /\ DOMAIN hop.rec \subseteq Id /\ \A id \in DOMAIN hop.rec : hop.rec[id] \in Record
  /\ DOMAIN hop.cages \subseteq Id /\ \A id \in DOMAIN hop.cages : hop.cages[id] \in Cage
  /\ \A i \in DOMAIN hop.loads : hop.loads[i].seq < hop.nextSeq
  /\ kern.slots \in [Slot -> SlotRec]
  /\ Len(line.orders) <= ORDERS /\ Len(line.pieces) <= PIECES

\* The books that the runner keeps of its cages: a slot is in use under a task exactly if
\* the cage of that task has that slot, and one download is under way at most, so that the
\* bound on downloads is never met (HopRunner's in_use, cages and downloads).
RunnerBooks ==
  /\ \A s \in DOMAIN hop.inUse : hop.inUse[s] \in DOMAIN hop.cages /\ hop.cages[hop.inUse[s]].slot = s
  /\ \A id \in DOMAIN hop.cages : hop.cages[id].slot # None => hop.cages[id].slot \in DOMAIN hop.inUse
  /\ hop.downloads = Cardinality(Streams(hop))
  /\ hop.downloads <= 1

\* Every app that runs on a node that is up is in a cage of this Hop, which can stop it, and
\* in the cage of its own task unless that cage was adopted by mistake; a task that is
\* recorded as running has its cage in the slot of its record.  So no stop in the middle of
\* a start, no hand-over and no sweep leaves an app that nobody owns (node.rs on_piece,
\* finish_load, restore and sweep_strays).
EveryAppOwned ==
  hop.phase = "up" =>
    /\ \A s \in Slot : kern.slots[s].on =>
         s \in DOMAIN hop.inUse /\ (hop.inUse[s] \notin hop.mistaken => hop.inUse[s] = kern.slots[s].task)
    /\ \A id \in DOMAIN hop.rec : hop.rec[id].state = "Running" /\ hop.rec[id].pid # None =>
         id \in DOMAIN hop.cages /\ hop.cages[id].slot = hop.rec[id].pid

\* An app that is stopped while Hop is up is one whose task, the one that has its slot in
\* Hop's books, went or failed in the same step: the stop of an old record never hits the
\* next inhabitant of its slot (HopRunner::stop).
StopsOnlyItsOwn ==
  hop.phase = "up" /\ hop'.phase = "up" =>
    \A s \in Slot : kern.slots[s].on /\ kern'.slots[s].state # "Running" =>
      LET id == hop.inUse[s]
      IN  id \in DOMAIN hop'.rec => hop'.rec[id].state # "Running"

\* The tasks of a state that name slot s.
Claimants(tasks, s) == {id \in DOMAIN tasks : tasks[id].pid = s}

\* An app whose slot is named in the state that the next Hop finds, and that still runs when
\* that Hop comes up, is neither stopped nor forgotten: a task with its slot is recorded.
\* Which one: the only one that names it, and with several the first, so that the app may
\* go on under another's name (Node::restore, adopt_running, sweep_strays).
AppsRunOn ==
  hop.phase = "sweep" /\ hop'.phase = "up" =>
    \A s \in Slot : LET ids == Claimants(kern.state.tasks, s) IN
      kern.slots[s].on /\ ids # {} =>
        /\ kern'.slots[s] = kern.slots[s]
        /\ \E id \in ids : /\ \A x \in ids : id <= x
                            /\ id \in DOMAIN hop'.rec /\ hop'.rec[id].pid = s

\* Every load comes to its end, whatever the queues of orders and pieces still hold of loads
\* that were given up: as starts are bounded here, the queue of loads empties again and
\* again, unless Hop itself ends.
LoadsEnd == []<>(~Up \/ hop.loads = <<>>)

\* "A task whose slot no longer runs, or already is another's, he does not take over"
\* (node.rs, Node::restore): with a state that was saved as Hop left, every cage that the
\* next Hop takes over holds the app of its own task, or a raw image.
AdoptsItsOwn ==
  hop.phase = "sweep" /\ kern.fresh =>
    \A id \in DOMAIN hop.cages : kern.slots[hop.cages[id].slot].task \in {None, id}

\* What holds of the resident's books and the kernel's slots at any time, loads,
\* hand-overs and restarts included.
ResidentInv ==
  /\ TypeOK
  /\ RunnerBooks
  /\ EveryAppOwned

\* No step takes a slot from an app that is not to stop, neither a late stop nor
\* the hand-over to the next Hop (HopRunner::stop, Node::restore).
SlotsRespected ==
  [][/\ StopsOnlyItsOwn
     /\ AppsRunOn]_vars
=============================================================================
