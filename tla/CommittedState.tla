---------------------------- MODULE CommittedState ----------------------------
(***************************************************************************)
(* The committed state of the cluster: one blob that the leader overwrites *)
(* with a snapshot of its jobs, some time after each mutation, and that a  *)
(* new leader loads before it serves.  Snapshots and loads go through the  *)
(* queue of a thread of their own: on a host the persist thread, a FIFO    *)
(* queue without a bound whose load the owner waits for; on HopOS the      *)
(* state task, a bounded queue whose answers come as mail, which keeps     *)
(* only the newest snapshot and lets a load go first.                      *)
(*                                                                         *)
(* Who leads is decided elsewhere (modules Lease and Election).  Here a    *)
(* node may win at any time, for a lease runs out while its leader goes    *)
(* on; a leader may step down or crash at any time, and the calls of a     *)
(* term may still be under way when the next one begins.  The state has    *)
(* no condition on its writes, so such calls cross: the properties say     *)
(* what they can cost.  A job is a name: that a snapshot renders and       *)
(* parses jobs is left out.                                                *)
(***************************************************************************)
EXTENDS Integers, Sequences, FiniteSets

CONSTANTS
  Node,
  StateJob,          \* the jobs that an operator may submit
  InitJobs,     \* the jobs of cluster.init_jobs
  Host,         \* the nodes that are hosts; the others run HopOS
  STATE_Q,      \* HopOS: the places in the queue; on a host a bound on its length
  MaxMutations, \* bound on the operator's mutations
  MaxFaults,    \* bound on the calls at the store that fail
  MaxTerms      \* bound on the terms of all leaders

ASSUME StateAssumption ==
  /\ InitJobs \subseteq StateJob
  /\ Host \subseteq Node
  /\ STATE_Q \in Nat \ {0}
  /\ MaxMutations \in Nat /\ MaxFaults \in Nat /\ MaxTerms \in Nat

VARIABLES
  committed,  \* the blob
  late,       \* the snapshots of writes given up on that may still be applied
  node,       \* what each node has in memory
  crossed,    \* history: the nodes that a write or a load of another term, or a
              \* late write, has crossed since they began with nothing under way
  unseen,     \* history: per node, the jobs that it may not know of for that reason
  removed,    \* the jobs that an operator removed at some time
  mutations,  \* the mutations so far
  faults,     \* the calls that failed so far
  terms       \* the terms so far

stateVars == <<committed, late, node, crossed, unseen, removed, mutations, faults, terms>>

-----------------------------------------------------------------------------
(* Data *)

StateSnapshot == SUBSET StateJob

\* A snapshot that may be absent: the blob, or what the state task holds.
Nothing == <<>>

Blob == {Nothing} \cup {<<s>> : s \in StateSnapshot}

\* A load in the queue of a host whose owner no longer waits for it is a Skip.
StateOp == [kind : {"Load", "Skip"}] \cup [kind : {"Save"}, jobs : StateSnapshot]

\* ok is FALSE when the blob cannot be read or parsed.
Answer == [ok : BOOLEAN, blob : Blob]

Mail == [kind : {"SaveFailed"}] \cup [kind : {"Loaded"}, got : Answer]

\* dirty is the leader's flag, "seen" when the debounce window has begun.
NodeState ==
  [half : {"off", "loading", "live"}, jobs : StateSnapshot, dirty : {"clean", "dirty", "seen"},
   queue : Seq(StateOp), held : Blob, writing : BOOLEAN,
   mail : Seq(Mail)]

StateTypeOK ==
  /\ committed \in Blob
  /\ late \subseteq StateSnapshot
  /\ node \in [Node -> NodeState]
  /\ crossed \subseteq Node /\ unseen \in [Node -> SUBSET StateJob]
  /\ \A n \in Node : Len(node[n].queue) <= STATE_Q
  /\ removed \subseteq StateJob
  /\ mutations \in 0..MaxMutations /\ faults \in 0..MaxFaults /\ terms \in 0..MaxTerms

-----------------------------------------------------------------------------
(* The leader half *)

\* Stepping down forgets the leader; what is queued stays queued.
Closed(s) == [s EXCEPT !.half = "off", !.jobs = {}, !.dirty = "clean"]

MakeDirty(s) == IF s.dirty = "clean" THEN [s EXCEPT !.dirty = "dirty"] ELSE s

\* (slip: a state that cannot be loaded counts as a clean boot)
OpenedAnyway(s, got) ==
  IF ~got.ok \/ got.blob = Nothing
    THEN [s EXCEPT !.half = "live", !.jobs = InitJobs, !.dirty = "dirty"]
    ELSE [s EXCEPT !.half = "live", !.jobs = got.blob[1]]

\* The answer of a load: the snapshot is the whole truth, no snapshot is a
\* clean boot that seeds the init jobs, and no answer is no leadership.
Opened(s, got) ==
  CASE ~got.ok -> Closed(s)
    [] got.ok /\ got.blob = Nothing ->
                        LET t == [s EXCEPT !.half = "live", !.jobs = InitJobs]
                        IN  IF InitJobs = {} THEN t ELSE MakeDirty(t)
    [] OTHER -> [s EXCEPT !.half = "live", !.jobs = got.blob[1]]

Saving(s) == s.held # Nothing \/ \E i \in DOMAIN s.queue : s.queue[i].kind = "Save"

\* No call of an earlier term is still to be done or to be handled.
Quiet(s) == s.half = "off" /\ ~Saving(s) /\ s.queue = <<>> /\ s.mail = <<>>

Room(s) == Len(s.queue) < STATE_Q

Enqueue(s, op) == [s EXCEPT !.queue = Append(@, op)]

Mailed(s, m) == [s EXCEPT !.mail = Append(@, m)]

Jobs(blob) == IF blob = Nothing THEN {} ELSE blob[1]

\* What the node may still write.
Outstanding(s) ==
  Jobs(s.held) \cup UNION {s.queue[i].jobs : i \in {k \in DOMAIN s.queue : s.queue[k].kind = "Save"}}

\* A node wins the lease and asks for the state.  On HopOS the queue may be
\* full: then the node leads without a leader half (see module Election), which
\* does nothing here.  The load of a HopOS node may overtake what the node has
\* still to write, or an answer of an earlier load may still be on its way to it.
Win(n) ==
  /\ node[n].half = "off"
  /\ Room(node[n])
  /\ terms < MaxTerms
  /\ node' = [node EXCEPT ![n] = [Enqueue(@, [kind |-> "Load"]) EXCEPT !.half = "loading"]]
  /\ terms' = terms + 1
  /\ \/ /\ Quiet(node[n])
        /\ crossed' = crossed \ {n} /\ unseen' = [unseen EXCEPT ![n] = {}]
     \/ /\ ~Quiet(node[n]) /\ n \in Host
        /\ UNCHANGED <<crossed, unseen>>
     \/ /\ ~Quiet(node[n]) /\ n \notin Host
        /\ crossed' = crossed \cup {n}
        /\ unseen' = [unseen EXCEPT ![n] = @ \cup Jobs(committed) \cup Outstanding(node[n])]
  /\ UNCHANGED <<committed, late, removed, mutations, faults>>

\* What one step of a node leaves alone.
Aside == UNCHANGED <<committed, late, crossed, unseen>>

\* A host's owner waits for its load and cannot step down meanwhile.
StepDown(n) ==
  /\ node[n].half = "live" \/ (n \notin Host /\ node[n].half = "loading")
  /\ node' = [node EXCEPT ![n] = Closed(@)]
  /\ Aside /\ UNCHANGED <<removed, mutations, faults, terms>>

\* The snapshot that is on its way to the store.
InFlight(n, snapshot) ==
  \/ n \in Host /\ node[n].queue # <<>> /\ Head(node[n].queue) = [kind |-> "Save", jobs |-> snapshot]
  \/ n \notin Host /\ node[n].writing /\ node[n].held = <<snapshot>>

\* The process ends and starts again: its queues and its leader are gone, but
\* the write that was on its way may still be applied.
Crash(n) ==
  /\ terms > 0
  /\ node' = [node EXCEPT ![n] = [Closed(@) EXCEPT !.queue = <<>>, !.held = Nothing,
                                                   !.writing = FALSE, !.mail = <<>>]]
  /\ \/ UNCHANGED <<late, faults>>
     \/ /\ faults < MaxFaults /\ faults' = faults + 1
        /\ \E snapshot \in StateSnapshot :
             InFlight(n, snapshot) /\ late' = late \cup {snapshot}
  /\ UNCHANGED <<committed, crossed, unseen, removed, mutations, terms>>

WithJobs(s, jobs) == [s EXCEPT !.jobs = jobs]

\* An operator submits or removes a job at a leader.
Mutate(n, j) ==
  /\ node[n].half = "live"
  /\ mutations < MaxMutations
  /\ mutations' = mutations + 1
  /\ \/ /\ node' = [node EXCEPT ![n] = MakeDirty(WithJobs(@, node[n].jobs \cup {j}))]
        /\ UNCHANGED removed
     \/ /\ j \in node[n].jobs
        /\ node' = [node EXCEPT ![n] = MakeDirty(WithJobs(@, node[n].jobs \ {j}))]
        /\ removed' = removed \cup {j}
  /\ Aside /\ UNCHANGED <<faults, terms>>

\* (slip: a snapshot that found no place counts as written)
PolledBlind(s) ==
  IF s.dirty = "dirty" THEN [s EXCEPT !.dirty = "seen"]
  ELSE LET t == [s EXCEPT !.dirty = "clean"]
       IN  IF Room(s) THEN Enqueue(t, [kind |-> "Save", jobs |-> s.jobs]) ELSE t

\* poll_snapshot and the send: the first call opens the debounce window, the
\* next one takes the snapshot; without a place in the queue it is dirty again.
Polled(s) ==
  CASE s.dirty = "clean" -> s
    [] s.dirty = "dirty" -> [s EXCEPT !.dirty = "seen"]
    [] OTHER -> IF Room(s)
                  THEN Enqueue([s EXCEPT !.dirty = "clean"], [kind |-> "Save", jobs |-> s.jobs])
                  ELSE [s EXCEPT !.dirty = "dirty"]

Poll(n) ==
  /\ node[n].half = "live" /\ node[n].dirty # "clean"
  /\ n \notin Host \/ Room(node[n])
  /\ node' = [node EXCEPT ![n] = Polled(@)]
  /\ Aside /\ UNCHANGED <<removed, mutations, faults, terms>>

\* (slip: a failed save is only counted)
HandledSilently(s) ==
  LET m == Head(s.mail)
      t == [s EXCEPT !.mail = Tail(@)]
  IN  IF m.kind = "Loaded" /\ s.half = "loading" THEN Opened(t, m.got) ELSE t

\* A failed save makes the present leader dirty, and a load opens the leader half
\* if it waits for one; without a leader both are dropped.
Handled(s) ==
  LET m == Head(s.mail)
      t == [s EXCEPT !.mail = Tail(@)]
  IN  CASE m.kind = "SaveFailed" /\ s.half = "live" -> MakeDirty(t)
        [] m.kind = "Loaded" /\ s.half = "loading" -> Opened(t, m.got)
        [] OTHER -> t

\* The owner of a host handles no mail while it waits for its load.
OnMail(n) ==
  /\ node[n].mail # <<>>
  /\ n \notin Host \/ node[n].half # "loading"
  /\ node' = [node EXCEPT ![n] = Handled(@)]
  /\ Aside /\ UNCHANGED <<removed, mutations, faults, terms>>

WithoutLoad(s) ==
  [s EXCEPT !.queue = [i \in DOMAIN @ |->
                         IF @[i].kind = "Load" THEN [kind |-> "Skip"] ELSE @[i]]]

\* Host: the load does not answer in time; the thread still does it, for nobody.
LoadTimesOut(n) ==
  /\ n \in Host /\ node[n].half = "loading"
  /\ faults < MaxFaults
  /\ faults' = faults + 1
  /\ node' = [node EXCEPT ![n] = WithoutLoad(Closed(@))]
  /\ Aside /\ UNCHANGED <<removed, mutations, terms>>

-----------------------------------------------------------------------------
(* The thread that owns the store *)

Next1(n, kind) == node[n].queue # <<>> /\ Head(node[n].queue).kind = kind

Taken(s) == [s EXCEPT !.queue = Tail(@)]

\* A call at the store fails, or not.
Fails(failed) ==
  /\ failed => faults < MaxFaults
  /\ faults' = IF failed THEN faults + 1 ELSE faults

\* What a load finds.
Got(failed) == [ok |-> ~failed, blob |-> IF failed THEN Nothing ELSE committed]

\* A snapshot is applied: what it brings is new to the other nodes.
Apply(snapshot, others) ==
  /\ committed' = <<snapshot>>
  /\ crossed' = crossed \cup others
  /\ unseen' = [n \in Node |->
                  IF n \in others THEN unseen[n] \cup (snapshot \ Jobs(committed)) ELSE unseen[n]]

\* Write a snapshot.  A write that fails may have been applied, or may be
\* applied when nobody waits for it any more.
Write(n, snapshot, s, failed) ==
  /\ Fails(failed)
  /\ \/ Apply(snapshot, Node \ {n}) /\ UNCHANGED late
     \/ /\ failed
        /\ late' \in {late, late \cup {snapshot}}
        /\ UNCHANGED <<committed, crossed, unseen>>
  /\ node' = [node EXCEPT ![n] = IF failed THEN Mailed(s, [kind |-> "SaveFailed"]) ELSE s]
  /\ UNCHANGED <<removed, mutations, terms>>

LateWrite ==
  /\ \E snapshot \in late : Apply(snapshot, Node) /\ late' = late \ {snapshot}
  /\ UNCHANGED <<node, removed, mutations, faults, terms>>

\* Host: the operations one by one; the owner waits for the answer of a load.
HostSave(n, failed) ==
  /\ n \in Host /\ Next1(n, "Save")
  /\ Write(n, Head(node[n].queue).jobs, Taken(node[n]), failed)

HostLoad(n, failed) ==
  /\ n \in Host /\ Next1(n, "Load")
  /\ Fails(failed)
  /\ node' = [node EXCEPT ![n] = Opened(Taken(@), Got(failed))]
  /\ Aside /\ UNCHANGED <<removed, mutations, terms>>

HostSkip(n) ==
  /\ n \in Host /\ Next1(n, "Skip")
  /\ node' = [node EXCEPT ![n] = Taken(@)]
  /\ Aside /\ UNCHANGED <<removed, mutations, faults, terms>>

\* HopOS: the write begins when a snapshot is held and the queue is empty.
Drained(s) == [s EXCEPT !.writing = s.held # Nothing /\ s.queue = <<>>]

\* Of the snapshots in the queue the newest is kept ...
Coalesce(n) ==
  /\ n \notin Host /\ Next1(n, "Save") /\ ~node[n].writing
  /\ node' = [node EXCEPT ![n] =
                Drained([Taken(@) EXCEPT !.held = <<Head(node[n].queue).jobs>>])]
  /\ Aside /\ UNCHANGED <<removed, mutations, faults, terms>>

\* ... a load goes first, also before the snapshot that is kept ...
AnswerLoad(n, failed) ==
  /\ n \notin Host /\ Next1(n, "Load") /\ ~node[n].writing
  /\ Fails(failed)
  /\ node' = [node EXCEPT ![n] =
                Drained(Mailed(Taken(@), [kind |-> "Loaded", got |-> Got(failed)]))]
  /\ Aside /\ UNCHANGED <<removed, mutations, terms>>

\* ... and the write ends.
EndWrite(n, failed) ==
  /\ n \notin Host /\ node[n].writing
  /\ Write(n, node[n].held[1], [node[n] EXCEPT !.held = Nothing, !.writing = FALSE], failed)

StateThread(n) ==
  \/ \E failed \in BOOLEAN :
       HostSave(n, failed) \/ HostLoad(n, failed) \/ AnswerLoad(n, failed) \/ EndWrite(n, failed)
  \/ HostSkip(n) \/ Coalesce(n)

-----------------------------------------------------------------------------

StateInit ==
  /\ committed \in Blob
  /\ late = {} /\ crossed = {} /\ unseen = [n \in Node |-> {}]
  /\ node = [n \in Node |-> [half |-> "off", jobs |-> {}, dirty |-> "clean", queue |-> <<>>,
                             held |-> Nothing, writing |-> FALSE, mail |-> <<>>]]
  /\ removed = {} /\ mutations = 0 /\ faults = 0 /\ terms = 0

OwnerStep(n) == Poll(n) \/ OnMail(n)

StateNext ==
  \/ LateWrite
  \/ \E n \in Node :
       \/ Win(n) \/ StepDown(n) \/ Crash(n) \/ LoadTimesOut(n)
       \/ \E j \in StateJob : Mutate(n, j)
       \/ OwnerStep(n) \/ StateThread(n)

StateSpec == StateInit /\ [][StateNext]_stateVars

\* The owner ticks every second and handles its mail; the thread takes the next
\* operation when it is done with one.
StateFairSpec == StateSpec /\ \A n \in Node : WF_stateVars(OwnerStep(n)) /\ WF_stateVars(StateThread(n))

-----------------------------------------------------------------------------
(* Properties *)

\* A write of a node makes the committed state forget a job only because an
\* operator removed it, or because the node could not know of it: another node,
\* or a late write, committed it since the node began with nothing under way, or
\* (HopOS) the node won again before its own calls of an earlier term were done.
\* So no failed load, no failed or repeated save, no coalescing, no crash and no
\* number of terms makes a leader write a snapshot that has forgotten what it has
\* loaded or accepted.  (What a write given up on does when it is applied after
\* all is not a node's doing: it brings an older state back.)
NothingForgotten ==
  [][ \A n \in Node : node'[n] # node[n]
        => Jobs(committed) \ Jobs(committed') \subseteq removed \cup unseen[n] ]_stateVars

\* A leader that is clean, with no save under way and no failure to handle, has
\* its jobs in the store: nothing that it would lose waits for a next mutation.
\* It is not so once a write of another node, a late write, or (HopOS) an
\* unfinished call of its own earlier term has crossed its term.
CleanMeansCommitted ==
  \A n \in Node \ crossed :
    node[n].half = "live" /\ node[n].dirty = "clean" /\ ~Saving(node[n])
      /\ (\A i \in DOMAIN node[n].mail : node[n].mail[i].kind # "SaveFailed")
      => Jobs(committed) = node[n].jobs

\* What a leader has in memory is committed at last, unless it stops leading or
\* its term is crossed: then it is committed with the next mutation only.
CommittedAtLast ==
  []<>(\A n \in Node \ crossed : node[n].half = "live" => Jobs(committed) = node[n].jobs)

\* A leader half that is not dirty has committed what it holds, through failed,
\* unconfirmed and coalesced saves.
StateInv ==
  /\ StateTypeOK
  /\ CleanMeansCommitted
=============================================================================
