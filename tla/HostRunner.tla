----------------------------- MODULE HostRunner -----------------------------
(***************************************************************************)
(* The runner of a host: task directories, process groups and containers.  *)
(*                                                                         *)
(* Four parties move here.  A preparation worker makes a task directory    *)
(* and its mounts; the owner thread launches, stops, polls and ticks; the  *)
(* kernel lets processes die and gives a free group number to strangers;   *)
(* the Docker daemon answers, fails, or does the work and fails to say so. *)
(* What happens outside the owner reaches it as a message that a tick      *)
(* drains.  A crash of the daemon leaves directories, groups and           *)
(* containers behind for the next life.                                    *)
(*                                                                         *)
(* Deadlines are choices: a tick comes before or after the grace period,   *)
(* the log drain or the shutdown budget.  An id is never used again        *)
(* (agent/src/node.rs makes a new one for every restart).                  *)
(***************************************************************************)
EXTENDS Naturals, FiniteSets

CONSTANTS
  Execs,       \* tasks of the exec driver
  Boxes,       \* tasks of the docker driver
  MaxFaults,   \* calls that fail: umount, rmdir, kill, docker
  MaxLives     \* lives of the daemon

HostIds == Execs \cup Boxes

\* A task has one driver, a machine runs finitely many, and the budgets are numbers.
ASSUME HostAssumption ==
  /\ Execs \cap Boxes = {}
  /\ IsFiniteSet(HostIds)
  /\ MaxFaults \in Nat
  /\ MaxLives \in Nat \ {0}

VARIABLES
  own,      \* own[t]: who answers for t: a worker, the message, a task, the quarantine
  rec,      \* rec[t]: the runner's Task and its Stopping
  dir,      \* dir[t]: the task directory on the disk
  grp,      \* grp[t]: the process group of t in the kernel
  box,      \* box[t]: the container of t in the Docker daemon
  mail,     \* the event channel
  daemon,   \* the daemon: running, in its shutdown, or down
  lives,    \* lives of the daemon so far
  faults,   \* failures so far
  lostTrack      \* tasks that a failed call left behind, by call

hostVars == <<own, rec, dir, grp, box, mail, daemon, lives, faults, lostTrack>>

NoRec == [reaped |-> FALSE, group_gone |-> FALSE, open |-> FALSE, stop |-> "no", docker_done |-> FALSE]
NoGrp == [lead |-> "none", kids |-> FALSE, killed |-> "no", stranger |-> FALSE]

HostTypeOK ==
  /\ own \in [HostIds -> {"new", "worker", "message", "task", "quarantine", "nobody"}]
  /\ rec \in [HostIds -> [reaped: BOOLEAN, group_gone: BOOLEAN, open: BOOLEAN,
                          stop: {"no", "term", "killed", "gone"}, docker_done: BOOLEAN]]
  /\ dir \in [HostIds -> {"none", "bare", "mounted"}]
  /\ grp \in [HostIds -> [lead: {"none", "alive", "zombie", "reaped"}, kids: BOOLEAN,
                          killed: {"no", "lead", "all"}, stranger: BOOLEAN]]
  /\ box \in [HostIds -> {"none", "created", "running"}]
  /\ mail \subseteq {"eof", "stopped", "stopping"} \X HostIds
  /\ daemon \in {"up", "closing", "down"}
  /\ lives \in 1..MaxLives
  /\ faults \in 0..MaxFaults
  /\ lostTrack \subseteq {"umount", "kill", "docker", "struck"} \X HostIds
  /\ \A t \in HostIds : own[t] = "quarantine" => dir[t] # "none"
  /\ \A t \in HostIds : own[t] # "task" => rec[t] = NoRec
  /\ daemon = "down" => \A t \in HostIds : own[t] \in {"new", "nobody"}

Alive(t) == grp[t].lead = "alive" \/ grp[t].kids

-----------------------------------------------------------------------------
(* Task directories *)

\* What TaskDir::cleanup leaves of a directory: what is mounted is unmounted first
\* and the directory goes only then; an unmount may fail, and so may the removal.
Cleaned(t, fail) == IF fail THEN {dir[t], "bare"} ELSE {"none"}

\* The same of many directories at once: those that go, and those of which only the
\* mounts went.
Left(t, gone, bare) == IF t \in gone THEN "none" ELSE IF t \in bare THEN "bare" ELSE dir[t]

\* The failures of one step are drawn from the budget.
Fail(S) == /\ Cardinality(S) + faults <= MaxFaults
           /\ faults' = faults + Cardinality(S)

HostSubmit(t) ==
  /\ daemon = "up" /\ own[t] = "new"
  /\ own' = [own EXCEPT ![t] = "worker"]
  /\ UNCHANGED <<rec, dir, grp, box, mail, daemon, lives, faults, lostTrack>>

\* prepare on a worker thread: the directory is on the disk before the download.
MakeDir(t, kind) ==
  /\ daemon # "down" /\ own[t] = "worker" /\ t \in Execs /\ dir[t] = "none"
  /\ dir' = [dir EXCEPT ![t] = kind]
  /\ UNCHANGED <<own, rec, grp, box, mail, daemon, lives, faults, lostTrack>>

\* The worker is done, or the preparation failed and Drop cleaned up behind it.
HostPrepare(t, ok, fail) ==
  /\ daemon # "down" /\ own[t] = "worker"
  /\ t \in Execs => dir[t] # "none"
  /\ fail => ~ok /\ dir[t] # "none"
  /\ Fail(IF fail THEN {t} ELSE {})
  /\ own' = [own EXCEPT ![t] = IF ok THEN "message" ELSE "nobody"]
  /\ \E left \in IF ok THEN {dir[t]} ELSE Cleaned(t, fail) : dir' = [dir EXCEPT ![t] = left]
  /\ lostTrack' = lostTrack \cup (IF fail THEN {<<"umount", t>>} ELSE {})
  /\ UNCHANGED <<rec, grp, box, mail, daemon, lives>>

-----------------------------------------------------------------------------
(* Launching *)

\* HostRunner::launch_proc: a group of its own, or nothing and the directory goes.
LaunchProc(t, ok, fail) ==
  /\ daemon = "up" /\ t \in Execs /\ own[t] = "message"
  /\ fail => ~ok /\ dir[t] # "none"
  /\ Fail(IF fail THEN {t} ELSE {})
  /\ own' = [own EXCEPT ![t] = IF ok THEN "task" ELSE "nobody"]
  /\ \E left \in IF ok THEN {dir[t]} ELSE Cleaned(t, fail) : dir' = [dir EXCEPT ![t] = left]
  /\ rec' = [rec EXCEPT ![t] = [NoRec EXCEPT !.open = ok]]
  /\ grp' = [grp EXCEPT ![t] = IF ok THEN [NoGrp EXCEPT !.lead = "alive"] ELSE NoGrp]
  /\ lostTrack' = lostTrack \cup (IF fail THEN {<<"umount", t>>} ELSE {})
  /\ UNCHANGED <<box, mail, daemon, lives>>

\* Mutant: a failed start leaves its container.
LaunchDockerLeaves(t, create, start, remove) ==
  /\ daemon = "up" /\ t \in Boxes /\ own[t] = "message" /\ create /\ remove
  /\ Fail(IF start THEN {} ELSE {"start"})
  /\ own' = [own EXCEPT ![t] = IF start THEN "task" ELSE "nobody"]
  /\ rec' = [rec EXCEPT ![t] = [NoRec EXCEPT !.open = start]]
  /\ box' = [box EXCEPT ![t] = IF start THEN "running" ELSE "created"]
  /\ UNCHANGED <<dir, grp, mail, daemon, lives, lostTrack>>

\* What create, start and the remove after a failed start leave of a container: a
\* call that fails may have done its work.
DockerLeft(create, start, remove) ==
  CASE create /\ start -> {"running"}
    [] ~create -> {"none", "created"}
    [] create /\ ~start /\ remove -> {"none"}
    [] OTHER -> {"created", "running"}

\* HostRunner::launch_docker: create, start, and a forced remove when the start fails.
LaunchDocker(t, create, start, remove) ==
  LET ok == create /\ start
      failed == {c \in {"create", "start", "rm"} :
                   \/ c = "create" /\ ~create
                   \/ c = "start" /\ create /\ ~start
                   \/ c = "rm" /\ create /\ ~start /\ ~remove}
  IN
  /\ daemon = "up" /\ t \in Boxes /\ own[t] = "message"
  /\ Fail(failed)
  /\ own' = [own EXCEPT ![t] = IF ok THEN "task" ELSE "nobody"]
  /\ rec' = [rec EXCEPT ![t] = [NoRec EXCEPT !.open = ok]]
  /\ \E left \in DockerLeft(create, start, remove) : box' = [box EXCEPT ![t] = left]
  /\ lostTrack' = lostTrack \cup (IF failed \cap {"create", "rm"} # {} THEN {<<"docker", t>>} ELSE {})
  /\ UNCHANGED <<dir, grp, mail, daemon, lives>>

\* The agent no longer starts the task: what was prepared is thrown away.
Discard(t, fail) ==
  /\ daemon = "up" /\ own[t] = "message"
  /\ fail => dir[t] # "none"
  /\ Fail(IF fail THEN {t} ELSE {})
  /\ own' = [own EXCEPT ![t] = IF fail THEN "quarantine" ELSE "nobody"]
  /\ \E left \in Cleaned(t, fail) : dir' = [dir EXCEPT ![t] = left]
  /\ UNCHANGED <<rec, grp, box, mail, daemon, lives, lostTrack>>

-----------------------------------------------------------------------------
(* Signals *)

\* reap: the child's exit is collected; from here on its number can be reused.
Reap(g, r) ==
  [g |-> [g EXCEPT !.lead = IF @ = "zombie" THEN "reaped" ELSE @],
   r |-> [r EXCEPT !.reaped = @ \/ g.lead \in {"zombie", "reaped"}],
   struck |-> FALSE]

\* A group that answers is ours or a stranger's; a call that fails proves nothing.
SignalGroup(x, sig, fail) ==
  LET ours == x.g.lead \in {"alive", "zombie"} \/ x.g.kids IN
  IF fail THEN x ELSE
  CASE ~ours /\ ~x.g.stranger -> [x EXCEPT !.r.group_gone = TRUE]
    [] ours -> [x EXCEPT !.g.killed = IF sig = "KILL" THEN "all" ELSE @]
    [] OTHER -> [x EXCEPT !.struck = @ \/ sig # "0", !.g.stranger = sig # "KILL"]

\* Proc::signal: nothing once the group was proved gone.
Signal(x, sig, fail) == IF x.r.group_gone THEN x ELSE SignalGroup(x, sig, fail)

\* Mutant: a collected leader stands for its group.
EscalateLeader(x0, late, fail) ==
  IF x0.r.reaped THEN [x0 EXCEPT !.r.stop = "gone"]
  ELSE IF late /\ x0.r.stop = "term" THEN [Signal(x0, "KILL", fail) EXCEPT !.r.stop = "killed"]
  ELSE x0

\* Mutant: only TERM is ever sent.
EscalateNever(x0, late, fail) ==
  LET x == IF x0.r.reaped THEN Signal(x0, "0", FALSE) ELSE x0 IN
  IF x.r.reaped /\ x.r.group_gone THEN [x EXCEPT !.r.stop = "gone"] ELSE x

\* escalate: TERM was sent at the stop; KILL follows once, after the grace period.
Escalate(x0, late, fail) ==
  LET x == IF x0.r.reaped THEN Signal(x0, "0", FALSE) ELSE x0 IN
  IF x.r.reaped /\ x.r.group_gone THEN [x EXCEPT !.r.stop = "gone"]
  ELSE IF late /\ x.r.stop = "term"
  THEN [Signal(x, "KILL", fail) EXCEPT !.r.stop = "killed",
                                       !.g.killed = IF @ = "no" /\ ~x.r.reaped THEN "lead" ELSE @]
  ELSE x

-----------------------------------------------------------------------------
(* The owner *)

\* HostRunner::stop of a process: TERM to the group, the rest is the tick's.
Stopped(t, fail) ==
  [Signal(Reap(grp[t], rec[t]), "TERM", fail) EXCEPT !.r.stop = "term"]

StopTaskProc(t, fail) ==
  /\ daemon = "up" /\ t \in Execs /\ own[t] = "task" /\ rec[t].stop = "no"
  /\ Fail(IF fail THEN {t} ELSE {})
  /\ LET s == Stopped(t, fail) IN
       /\ rec' = [rec EXCEPT ![t] = s.r]
       /\ grp' = [grp EXCEPT ![t] = s.g]
       /\ lostTrack' = lostTrack \cup (IF s.struck THEN {<<"struck", t>>} ELSE {})
  /\ UNCHANGED <<own, dir, box, mail, daemon, lives>>

\* HostRunner::stop of a container: a thread does the calls and sends the outcome.
StopTaskBox(t) ==
  /\ daemon = "up" /\ t \in Boxes /\ own[t] = "task" /\ rec[t].stop = "no"
  /\ rec' = [rec EXCEPT ![t].stop = "term"]
  /\ mail' = mail \cup {<<"stopping", t>>}
  /\ UNCHANGED <<own, dir, grp, box, daemon, lives, faults, lostTrack>>

\* Docker::stop_and_remove on its thread: only the outcome of the remove counts.
StopAndRemove(t, err) ==
  /\ <<"stopping", t>> \in mail
  /\ Fail(IF err THEN {t} ELSE {})
  /\ \E left \in IF err THEN {box[t], "none"} ELSE {"none"} :
       /\ box' = [box EXCEPT ![t] = left]
       /\ lostTrack' = lostTrack \cup (IF left # "none" THEN {<<"docker", t>>} ELSE {})
  /\ mail' = (mail \ {<<"stopping", t>>}) \cup {<<"stopped", t>>}
  /\ UNCHANGED <<own, rec, dir, grp, daemon, lives>>

\* HostRunner::status of a process: a reaped child is a failed task; the group is probed.
HostStatus(t) ==
  /\ daemon = "up" /\ t \in Execs /\ own[t] = "task"
  /\ LET x == Reap(grp[t], rec[t])
         s == IF x.r.reaped THEN Signal(x, "0", FALSE) ELSE x
     IN  /\ s.r # rec[t]
         /\ rec' = [rec EXCEPT ![t] = s.r]
         /\ grp' = [grp EXCEPT ![t] = s.g]
  /\ UNCHANGED <<own, dir, box, mail, daemon, lives, faults, lostTrack>>

\* What a tick makes of one task, up to its finish.
Ticked(t, late, fail) ==
  LET drained == [rec[t] EXCEPT !.open = @ /\ <<"eof", t>> \notin mail,
                                !.docker_done = @ \/ (<<"stopped", t>> \in mail /\ rec[t].stop # "no")]
      x == IF t \in Execs THEN Reap(grp[t], drained) ELSE [g |-> grp[t], r |-> drained, struck |-> FALSE]
  IN  IF x.r.stop \in {"no", "gone"} THEN x
      ELSE IF t \in Execs THEN Escalate(x, late, fail)
      ELSE IF x.r.docker_done THEN [x EXCEPT !.r.stop = "gone"] ELSE x

\* HostRunner::tick: events are drained, every task moves on, the ended ones are
\* finished and the quarantine is tried again; some cleanups fail (stuck), of these
\* some only at the removal (bare).
HostTick(late, sick, stuck, bare) ==
  LET tasks == {t \in HostIds : own[t] = "task"}
      held == {t \in HostIds : own[t] = "quarantine"}
  IN
  /\ daemon # "down"
  /\ late \subseteq tasks
  /\ sick \subseteq {t \in late \cap Execs : rec[t].stop = "term"}
  /\ \E x \in {[t \in tasks |-> Ticked(t, t \in late, t \in sick)]} :
     LET done == {t \in tasks : x[t].r.stop = "gone" /\ (~x[t].r.open \/ t \in late)}
         clean == held \cup (done \cap Execs)
     IN
     /\ stuck \subseteq {t \in clean : dir[t] # "none"} /\ bare \subseteq stuck
     /\ Fail(sick \cup stuck)
     /\ own' = [t \in HostIds |-> IF t \in stuck THEN "quarantine"
                                  ELSE IF t \in clean \cup done THEN "nobody" ELSE own[t]]
     /\ rec' = [t \in HostIds |-> IF t \in done THEN NoRec ELSE IF t \in tasks THEN x[t].r ELSE rec[t]]
     /\ grp' = [t \in HostIds |-> IF t \in tasks THEN x[t].g ELSE grp[t]]
     /\ dir' = [t \in HostIds |-> Left(t, clean \ stuck, bare)]
     /\ lostTrack' = lostTrack \cup {<<"kill", t>> : t \in sick}
                     \cup {<<"struck", t>> : t \in {u \in tasks : x[u].struck}}
  /\ mail' = {m \in mail : m[1] = "stopping"}
  /\ UNCHANGED <<box, daemon, lives>>

\* HostRunner::shutdown: every task is stopped, then ticks until the budget is out.
HostClose ==
  LET procs == {t \in Execs : own[t] = "task" /\ rec[t].stop = "no"}
      boxes == {t \in Boxes : own[t] = "task" /\ rec[t].stop = "no"}
  IN
  /\ daemon = "up"
  /\ daemon' = "closing"
  /\ rec' = [t \in HostIds |-> IF t \in procs THEN Stopped(t, FALSE).r
                               ELSE IF t \in boxes THEN [rec[t] EXCEPT !.stop = "term"] ELSE rec[t]]
  /\ grp' = [t \in HostIds |-> IF t \in procs THEN Stopped(t, FALSE).g ELSE grp[t]]
  /\ mail' = mail \cup {<<"stopping", t>> : t \in boxes}
  /\ lostTrack' = lostTrack \cup {<<"struck", t>> : t \in {u \in procs : Stopped(u, FALSE).struck}}
  /\ UNCHANGED <<own, dir, box, lives, faults>>

\* The end of a life: the zombies go to init, the threads die with the process.
Ended(keep, bare) ==
  /\ daemon' = "down"
  /\ own' = [t \in HostIds |-> IF own[t] = "new" THEN "new" ELSE "nobody"]
  /\ rec' = [t \in HostIds |-> NoRec]
  /\ grp' = [t \in HostIds |-> [grp[t] EXCEPT !.lead = IF @ = "zombie" THEN "reaped" ELSE @]]
  /\ mail' = {}
  /\ dir' = [t \in HostIds |-> Left(t, HostIds \ keep, bare)]
  /\ UNCHANGED <<box, lives>>

\* Drop of the runner after the shutdown: what still lives keeps its directory.
HostExit ==
  /\ daemon = "closing"
  /\ \E stuck \in SUBSET {t \in HostIds : own[t] \in {"message", "quarantine"} /\ dir[t] # "none"} :
       /\ Fail(stuck)
       /\ \E bare \in SUBSET stuck :
            Ended({t \in HostIds : own[t] \in {"task", "worker", "nobody"}} \cup stuck, bare)
  /\ UNCHANGED lostTrack

HostCrash ==
  /\ daemon # "down" /\ lives < MaxLives
  /\ Ended(HostIds, {})
  /\ UNCHANGED <<faults, lostTrack>>

\* sweep_stale: a marked directory goes, unless something is mounted under it or its
\* removal fails, which is only said; the base that cannot be read is an error.
Swept(t, stays, sick) ==
  IF dir[t] = "bare" /\ t \notin stays /\ sick # "sweep" THEN "none" ELSE dir[t]

\* list_hop and remove: the hop- containers go, if the daemon answers and each call works.
ListedAway(sick, left) ==
  [t \in HostIds |-> IF sick # "no" \/ t \in left THEN box[t] ELSE "none"]

\* HostRunner::init of the next life: directories are swept, containers removed.  A
\* Docker daemon that does not answer is taken for one that is not there; after any
\* other error there is no next life yet.
HostInit ==
  /\ daemon = "down" /\ lives < MaxLives
  /\ \E sick \in {"no", "sweep", "ping", "list"},
        stays \in SUBSET {t \in HostIds : dir[t] = "bare"},
        kept \in SUBSET {t \in Boxes : box[t] # "none"} :
       /\ Fail(({sick} \ {"no"}) \cup stays \cup kept)
       /\ sick = "sweep" => stays = {}
       /\ sick # "no" => kept = {}
       /\ dir' = [t \in HostIds |-> Swept(t, stays, sick)]
       /\ \E left \in SUBSET kept : box' = ListedAway(sick, left)
       /\ IF sick \in {"sweep", "list"} \/ kept # {}
          THEN UNCHANGED <<daemon, lives>>
          ELSE daemon' = "up" /\ lives' = lives + 1
       /\ lostTrack' = lostTrack \cup
            {<<"docker", t>> : t \in {u \in Boxes : sick = "ping" /\ box[u] # "none"}}
  /\ UNCHANGED <<own, rec, grp, mail>>

-----------------------------------------------------------------------------
(* The kernel and the Docker daemon *)

\* The leader of a group ends; it may leave children in its group.
LeaderDies(t, kids) ==
  /\ grp[t].lead = "alive"
  /\ kids => grp[t].killed # "all"
  /\ grp' = [grp EXCEPT ![t].lead = IF daemon = "down" THEN "reaped" ELSE "zombie",
                        ![t].kids = kids]
  /\ UNCHANGED <<own, rec, dir, box, mail, daemon, lives, faults, lostTrack>>

KidsDie(t) ==
  /\ grp[t].kids
  /\ grp' = [grp EXCEPT ![t].kids = FALSE]
  /\ UNCHANGED <<own, rec, dir, box, mail, daemon, lives, faults, lostTrack>>

\* The kernel gives the number of a group that is gone to a stranger, who leaves again.
Reuse(t) ==
  /\ grp[t].lead = "reaped" /\ ~grp[t].kids
  /\ own[t] = "task"
  /\ grp' = [grp EXCEPT ![t].stranger = ~@]
  /\ UNCHANGED <<own, rec, dir, box, mail, daemon, lives, faults, lostTrack>>

\* A pipe closes when every process that holds it is gone; a log stream when it ends.
HostEof(t) ==
  /\ own[t] = "task" /\ rec[t].open /\ <<"eof", t>> \notin mail
  /\ t \in Execs => grp[t].lead # "alive" /\ ~grp[t].kids
  /\ mail' = mail \cup {<<"eof", t>>}
  /\ UNCHANGED <<own, rec, dir, grp, box, daemon, lives, faults, lostTrack>>

BoxExits(t) ==
  /\ box[t] = "running"
  /\ box' = [box EXCEPT ![t] = "created"]
  /\ UNCHANGED <<own, rec, dir, grp, mail, daemon, lives, faults, lostTrack>>

-----------------------------------------------------------------------------

HostStart ==
  /\ own = [t \in HostIds |-> "new"]
  /\ rec = [t \in HostIds |-> NoRec]
  /\ dir = [t \in HostIds |-> "none"]
  /\ grp = [t \in HostIds |-> NoGrp]
  /\ box = [t \in HostIds |-> "none"]
  /\ mail = {} /\ daemon = "up" /\ lives = 1 /\ faults = 0 /\ lostTrack = {}

HostNext ==
  \/ \E late \in SUBSET {t \in HostIds : own[t] = "task"}, stuck \in SUBSET {t \in HostIds : dir[t] # "none"} :
       \E sick \in SUBSET {t \in late : rec[t].stop = "term"}, bare \in SUBSET stuck :
         HostTick(late, sick, stuck, bare)
  \/ HostClose \/ HostExit \/ HostCrash \/ HostInit
  \/ \E t \in HostIds :
       \/ HostSubmit(t) \/ HostStatus(t) \/ StopTaskBox(t) \/ HostEof(t) \/ BoxExits(t)
       \/ KidsDie(t) \/ Reuse(t)
       \/ \E kind \in {"bare", "mounted"} : MakeDir(t, kind)
       \/ \E ok, fail \in BOOLEAN : HostPrepare(t, ok, fail) \/ LaunchProc(t, ok, fail)
       \/ \E fail \in BOOLEAN : Discard(t, fail) \/ StopTaskProc(t, fail) \/ StopAndRemove(t, fail)
                                \/ LeaderDies(t, fail)
       \/ \E c, s, r \in BOOLEAN : LaunchDocker(t, c, s, r)

\* A process that got a KILL dies, the threads of a stop come to their end, and
\* the loop of the daemon ticks on past every deadline.
HostFair ==
  /\ WF_hostVars(HostTick({t \in HostIds : own[t] = "task"}, {}, {}, {}))
  /\ \A t \in Execs :
       /\ WF_hostVars(grp[t].killed # "no" /\ LeaderDies(t, FALSE))
       /\ WF_hostVars(grp[t].killed = "all" /\ KidsDie(t))
  /\ \A t \in Boxes : WF_hostVars(StopAndRemove(t, FALSE) \/ StopAndRemove(t, TRUE))

HostSpec == HostStart /\ [][HostNext]_hostVars /\ HostFair

-----------------------------------------------------------------------------
(* Properties *)

\* A running daemon never takes the directory of a task away while a process of
\* its group is left, whatever order exits, reaps, probes and kills come in.
NotFromUnderTheLiving ==
  \A t \in Execs : (Alive(t) /\ dir[t] # "none" /\ dir'[t] = "none") => daemon = "down"

\* Once a probe has proved a group gone, no signal of the runner reaches the
\* stranger to whom the kernel gave its number.
ProvedGoneIsLeftAlone ==
  \A t \in Execs : (rec[t].group_gone /\ <<"struck", t>> \in lostTrack') => <<"struck", t>> \in lostTrack

\* A container the Docker daemon still has belongs to a task of the runner, or a
\* call to Docker has failed: no order of launch, stop, crash and restart loses one.
BoxKnownOrFailed ==
  daemon # "down" =>
    \A t \in Boxes : box[t] # "none" => own[t] = "task" \/ <<"docker", t>> \in lostTrack

\* A stop comes to its end: the task is finished, unless the one KILL could not be
\* sent or a stranger holds the number of the group.
StopEnds ==
  []<>(\A t \in HostIds :
         (own[t] = "task" /\ rec[t].stop # "no") => (<<"kill", t>> \in lostTrack \/ grp[t].stranger))

\* What the header of the runner says: the directory under a living process never
\* goes away (runner/src/host/runner.rs:15-16).
LivingKeepsItsDir ==
  \A t \in Execs : Alive(t) => dir[t] # "none"

\* What holds of tasks, groups and containers at any time.
HostInv ==
  /\ HostTypeOK
  /\ BoxKnownOrFailed

\* What no step of the runner may do to what still lives, or to a stranger.
HostKeeps ==
  [][/\ NotFromUnderTheLiving
     /\ ProvedGoneIsLeftAlone]_hostVars
=============================================================================
