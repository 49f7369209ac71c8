------------------------------ MODULE Hoplock ------------------------------
(***************************************************************************)
(* The lease object and the road to it: the clients of the host and of     *)
(* HopOS, the workers and the one store thread of hoplockserver, its file  *)
(* store and its volume store, and the S3 bucket with its ghosts.          *)
(*                                                                         *)
(* A body is the record that a client encodes, so an ETag, which is the    *)
(* hash of the body, is that body.  One behaviour uses one kind of store.  *)
(* A client gives up on a call at any time; the request then goes its way  *)
(* without it.  What a node does with its lease is module Lease.           *)
(***************************************************************************)
EXTENDS Integers, Sequences, FiniteSets, SequencesExt

CONSTANTS
  Client, HopOS,   \* the nodes, and those that run HopOS
  TTL, SEC,        \* the term of a lease and a second, in units of time
  MaxTime, MaxCalls, MaxStray, MaxFaults   \* bounds

VARIABLES
  kind,    \* the store of this behaviour: "file", "volume" or "s3"
  bare,    \* whether this bucket knows only ETags without quotes
  now,
  disk,    \* the object: as it reads, and as a power cut would leave it
  net,     \* requests on their way to a worker
  queue,   \* requests at the store thread
  store,   \* what the store thread is doing
  answer,  \* the answer that waits for each client
  cl,      \* the clients
  expires, \* until when the elector of each client believes in its lease
  calls,   \* the operations begun
  faults,  \* power cuts, and writes that the volume broke off
  cuts     \* the power cuts alone

hopVars == <<kind, bare, now, disk, net, queue, store, answer, cl, expires, calls, faults, cuts>>

None == [by |-> "none", until |-> 0]
Torn == [by |-> "torn", until |-> 0]
Body == [by : Client, until : 0..(MaxTime + TTL)]
Object == {None} \cup Body
Nobody == "nobody"

ASSUME HopAssumption ==
  /\ HopOS \subseteq Client /\ {"none", "torn", Nobody} \cap Client = {}
  /\ TTL \in Nat /\ SEC \in Nat \ {0}
  /\ MaxTime \in Nat /\ MaxCalls \in Nat /\ MaxStray \in Nat /\ MaxFaults \in Nat

\* A request: its condition is the ETag it names, None for If-None-Match: *.
Requests == [from : Client \cup {Nobody}, op : {"get", "put", "delete", "head"},
             over : Object, quoted : BOOLEAN, body : Object]

Answers == [status : {0, 200, 204, 401, 404, 412, 500, 504}, body : Object]

NoAnswer == [status |-> 0, body |-> None]
Status(n) == [status |-> n, body |-> None]

\* The wall clock that a node reads: HopOS knows whole seconds.
Clock(c) == IF c \in HopOS THEN now - (now % SEC) ELSE now

-----------------------------------------------------------------------------
(* The conditions *)

\* (slip: a create goes over what is there)
CheckPutBlind(current, r) == r.over = None \/ current = r.over

CheckPut(current, r) ==
  CASE r.over = None -> current = None
    [] OTHER -> current = r.over /\ (bare => ~r.quoted)

\* (slip: whatever is there is deleted)
CheckDeleteAny(current, r) == current # None

CheckDelete(current, r) == current = r.over /\ (bare => ~r.quoted)

\* Whoever reads the volume takes a torn record for none.
Current == IF disk.cur = Torn THEN None ELSE disk.cur

\* A ghost of the bucket does not show in a GET.
Shown == IF disk.hidden THEN None ELSE Current

-----------------------------------------------------------------------------
(* The server *)

IdleStore == [phase |-> "idle", was |-> None, ask |-> [from |-> Nobody, op |-> "get", over |-> None,
                                         quoted |-> FALSE, body |-> None]]

Reply(c, a) == answer' = IF c = Nobody THEN answer ELSE [answer EXCEPT ![c] = a]

\* begin and with_body: the key is looked at before anything else.
Begin(r) ==
  IF r.from \in Client /\ ~cl[r.from].auth THEN Status(401) ELSE NoAnswer

Accept(r) ==
  /\ r \in net
  /\ net' = net \ {r}
  /\ IF Begin(r) # NoAnswer
     THEN Reply(r.from, Begin(r)) /\ UNCHANGED queue
     ELSE queue' = Append(queue, r) /\ UNCHANGED answer
  /\ UNCHANGED <<kind, bare, now, disk, store, cl, calls, faults, cuts, expires>>

\* Where a put or a delete goes after its check, by the kind of the store.
FirstPhase(r) ==
  CASE kind = "file" /\ r.op = "put" -> "tmp"
    [] kind = "file" /\ r.op = "delete" -> "sync"
    [] kind = "volume" /\ r.op = "put" -> "torn"
    [] OTHER -> "done"

\* get, put_if and delete up to the check: done at once, or the first write.
StoreTake ==
  /\ store.phase = "idle" /\ queue # <<>>
  /\ queue' = Tail(queue)
  /\ LET r == Head(queue)
         refused ==
           CASE r.op = "get" -> [status |-> IF Shown = None THEN 404 ELSE 200, body |-> Shown]
             [] r.op = "head" -> [status |-> IF Current = None THEN 404 ELSE 200, body |-> Current]
             [] r.op = "put" /\ ~CheckPut(Current, r) -> Status(412)
             [] r.op = "delete" /\ disk.cur = None -> Status(404)
             [] r.op = "delete" /\ disk.cur # None /\ ~CheckDelete(Current, r) -> Status(412)
             [] OTHER -> NoAnswer
         phase == FirstPhase(r)
         ok == [status |-> IF r.op = "put" THEN 200 ELSE 204, body |-> r.body]
     IN
     IF refused # NoAnswer
     THEN Reply(r.from, refused) /\ UNCHANGED <<disk, store>>
     ELSE /\ disk' = CASE phase = "sync" -> [disk EXCEPT !.cur = None]
                       [] phase = "torn" -> [disk EXCEPT !.cur = Torn]
                       [] phase = "done" -> [cur |-> r.body, old |-> IF kind = "s3" THEN r.body ELSE disk.old,
                                             hidden |-> FALSE]
                       [] OTHER -> disk
          /\ IF phase = "done"
             THEN Reply(r.from, ok) /\ UNCHANGED store
             ELSE store' = [phase |-> phase, was |-> Current, ask |-> r] /\ UNCHANGED answer
  /\ UNCHANGED <<kind, bare, now, net, cl, calls, faults, cuts, expires>>

\* write_atomic: the temporary file is written and synced, then renamed.
Rename ==
  /\ store.phase = "tmp"
  /\ \/ /\ disk' = [disk EXCEPT !.cur = store.ask.body]
        /\ store' = [store EXCEPT !.phase = "sync"]
        /\ UNCHANGED answer
     \/ /\ Reply(store.ask.from, Status(500))
        /\ store' = IdleStore
        /\ UNCHANGED disk
  /\ UNCHANGED <<kind, bare, now, net, queue, cl, calls, faults, cuts, expires>>

\* (slip: a put is reported done whether the directory was synced or not)
SyncDirIgnored ==
  /\ store.phase = "sync"
  /\ \E synced \in BOOLEAN :
       disk' = IF synced THEN [disk EXCEPT !.old = disk.cur] ELSE disk
  /\ Reply(store.ask.from, IF store.ask.op = "delete" THEN Status(204)
                           ELSE [status |-> 200, body |-> store.ask.body])
  /\ store' = IdleStore
  /\ UNCHANGED <<kind, bare, now, net, queue, cl, calls, faults, cuts, expires>>

\* sync_dir: without it a power cut brings the old file back.  A put reports
\* its failure, a delete does not.
SyncDir ==
  /\ store.phase = "sync"
  /\ \E synced \in BOOLEAN :
       /\ disk' = IF synced THEN [disk EXCEPT !.old = disk.cur] ELSE disk
       /\ Reply(store.ask.from,
                CASE store.ask.op = "delete" -> Status(204)
                  [] store.ask.op # "delete" /\ synced -> [status |-> 200, body |-> store.ask.body]
                  [] OTHER -> Status(500))
  /\ store' = IdleStore
  /\ UNCHANGED <<kind, bare, now, net, queue, cl, calls, faults, cuts, expires>>

\* (slip: a refusal of the volume is not answered)
ReplaceSilent ==
  /\ store.phase = "torn"
  /\ \/ /\ disk' = [disk EXCEPT !.cur = store.ask.body]
        /\ Reply(store.ask.from, [status |-> 200, body |-> store.ask.body])
     \/ UNCHANGED <<disk, answer>>
  /\ store' = IdleStore
  /\ UNCHANGED <<kind, bare, now, net, queue, cl, calls, faults, cuts, expires>>

\* replace: truncated, then the pieces; a refusal leaves what there is.
Replace ==
  /\ store.phase = "torn"
  /\ \/ /\ disk' = [disk EXCEPT !.cur = store.ask.body]
        /\ Reply(store.ask.from, [status |-> 200, body |-> store.ask.body])
        /\ UNCHANGED faults
     \/ /\ Reply(store.ask.from, Status(500))
        /\ faults < MaxFaults /\ faults' = faults + 1
        /\ UNCHANGED disk
  /\ store' = IdleStore
  /\ UNCHANGED <<kind, bare, now, net, queue, cl, calls, cuts, expires>>

\* The volume commits by itself every so often.
Commit ==
  /\ kind = "volume" /\ disk.old # disk.cur
  /\ disk' = [disk EXCEPT !.old = disk.cur]
  /\ UNCHANGED <<kind, bare, now, net, queue, store, answer, cl, calls, faults, cuts, expires>>

\* STORE_TIMEOUT: the worker answers, the request stays with the store.
StoreLate(i) ==
  /\ kind = "file" /\ i \in DOMAIN queue /\ queue[i].from # Nobody
  /\ Reply(queue[i].from, Status(504))
  /\ queue' = [queue EXCEPT ![i].from = Nobody]
  /\ UNCHANGED <<kind, bare, now, disk, net, store, cl, calls, faults, cuts, expires>>

\* A power cut: what was not synced or committed may be gone.
Crash ==
  /\ kind # "s3" /\ faults < MaxFaults
  /\ faults' = faults + 1 /\ cuts' = cuts + 1
  /\ \E kept \in {disk.cur, disk.old} :
       disk' = [cur |-> kept, old |-> kept, hidden |-> FALSE]
  /\ store' = IdleStore /\ queue' = <<>> /\ net' = {}
  /\ UNCHANGED <<kind, bare, now, answer, cl, calls, expires>>

\* The bucket denies an object that it still has.
GhostAppears ==
  /\ kind = "s3" /\ disk.cur # None /\ ~disk.hidden
  /\ disk' = [disk EXCEPT !.hidden = TRUE]
  /\ UNCHANGED <<kind, bare, now, net, queue, store, answer, cl, calls, faults, cuts, expires>>

-----------------------------------------------------------------------------
(* The clients *)

NoGhost == [etag |-> None, since |-> 0]

Clients == [auth : BOOLEAN, handle : Object,
            ghost : [etag : Object, since : 0..MaxTime],
            stage : {"idle", "read", "put", "bare", "head", "ghost", "ghostbare", "delete", "delbare"},
            over : Object, body : Object,
            left : -1..MaxTime]   \* when it last gave a lease back

\* One call after another; the condition goes out with the quotes of the ETag.
Call(c, op, over, quoted, body) ==
  net' = net \cup {[from |-> c, op |-> op, over |-> over, quoted |-> quoted, body |-> body]}

Begun(c) == cl[c].stage = "idle" /\ calls < MaxCalls /\ calls' = calls + 1

Quiet == UNCHANGED <<kind, bare, now, disk, queue, store, faults, cuts>>

\* A lease of c from now on.
Lease(c) == [by |-> c, until |-> Clock(c) + TTL]

\* claim: a read, and a write if the read allows it.  An elector that gave its
\* lease back counts TAKEOVER_AFTER ticks before it claims again, so by then its
\* clock has moved on and its new record is not the one it is deleting.
Claim(c) ==
  /\ Begun(c)
  /\ cl[c].handle = None /\ Clock(c) > cl[c].left
  /\ Call(c, "get", None, TRUE, None)
  /\ cl' = [cl EXCEPT ![c].stage = "read"]
  /\ Quiet /\ UNCHANGED <<answer, expires>>

\* renew_lease: one conditional write on the handle.
Renew(c) ==
  /\ Begun(c)
  /\ cl[c].handle # None
  /\ Call(c, "put", cl[c].handle, TRUE, Lease(c))
  /\ cl' = [cl EXCEPT ![c].stage = "put", ![c].over = cl[c].handle, ![c].body = Lease(c)]
  /\ Quiet /\ UNCHANGED <<answer, expires>>

\* Release: the handle is given up before the delete goes out.
Release(c) ==
  /\ Begun(c)
  /\ cl[c].handle # None
  /\ Call(c, "delete", cl[c].handle, TRUE, None)
  /\ cl' = [cl EXCEPT ![c].stage = "delete", ![c].over = cl[c].handle, ![c].handle = None,
                         ![c].left = Clock(c)]
  /\ expires' = [expires EXCEPT ![c] = 0]
  /\ Quiet /\ UNCHANGED answer

Ended(k) == [k EXCEPT !.stage = "idle", !.over = None, !.body = None]

\* The operation ends without a lease: Unreachable, and a handle stays.
Unreachable(c) == cl' = [cl EXCEPT ![c] = Ended(@)] /\ UNCHANGED net

\* The next call of the same operation.
Again(c, k, stage, op, over, quoted, body) ==
  /\ Call(c, op, over, quoted, body)
  /\ cl' = [cl EXCEPT ![c] = [k EXCEPT !.stage = stage, !.over = over, !.body = body]]

\* read and plan_claim: a create, a renewal of one's own, or a take-over.
ReadDone(c, a) ==
  /\ cl[c].stage = "read"
  /\ CASE a.status = 200 /\ (a.body.by = c \/ Clock(c) > a.body.until) ->
            Again(c, [cl[c] EXCEPT !.ghost = NoGhost], "put", "put", a.body, TRUE, Lease(c))
       [] a.status = 200 /\ a.body.by # c /\ Clock(c) <= a.body.until ->
            cl' = [cl EXCEPT ![c] = Ended([@ EXCEPT !.ghost = NoGhost])] /\ UNCHANGED net
       [] a.status = 404 -> Again(c, cl[c], "put", "put", None, TRUE, Lease(c))
       [] OTHER -> Unreachable(c)

\* LeaseHeld: a renew was displaced, a claim lost.
Held(c) == cl' = [cl EXCEPT ![c] = Ended([@ EXCEPT !.handle = None])] /\ UNCHANGED net

\* The answer to a conditional put: on a bucket a 412 is tried again without
\* quotes, and a refused create asks whether it met a ghost.
WriteDone(c, a) ==
  /\ cl[c].stage \in {"put", "bare", "ghost", "ghostbare"}
  /\ CASE a.status = 200 ->
            cl' = [cl EXCEPT ![c] = Ended([@ EXCEPT !.handle = a.body, !.ghost = NoGhost])] /\ UNCHANGED net
       [] a.status = 412 /\ kind = "s3" /\ cl[c].stage = "put" /\ cl[c].over # None ->
            Again(c, cl[c], "bare", "put", cl[c].over, FALSE, cl[c].body)
       [] a.status = 412 /\ kind = "s3" /\ cl[c].stage = "ghost" ->
            Again(c, cl[c], "ghostbare", "put", cl[c].over, FALSE, cl[c].body)
       [] a.status = 412 /\ kind = "s3" /\ cl[c].stage = "put" /\ cl[c].over = None ->
            Again(c, cl[c], "head", "head", None, TRUE, cl[c].body)
       [] a.status = 412 /\ (kind # "s3" \/ cl[c].stage \in {"bare", "ghostbare"}) -> Held(c)
       [] OTHER -> Unreachable(c)

\* ghost_handle: the same ETag for a whole term.
GhostHandle(c, etag) ==
  cl[c].ghost.etag = etag /\ Clock(c) - cl[c].ghost.since >= TTL

HeadDone(c, a) ==
  /\ cl[c].stage = "head"
  /\ CASE a.status = 200 /\ GhostHandle(c, a.body) -> Again(c, cl[c], "ghost", "put", a.body, TRUE, cl[c].body)
       [] a.status = 200 /\ cl[c].ghost.etag = a.body /\ ~GhostHandle(c, a.body) -> Held(c)
       [] a.status = 200 /\ cl[c].ghost.etag # a.body /\ ~GhostHandle(c, a.body) ->
            /\ cl' = [cl EXCEPT ![c] = Ended([@ EXCEPT !.handle = None,
                                              !.ghost = [etag |-> a.body, since |-> Clock(c)]])]
            /\ UNCHANGED net
       [] OTHER -> Held(c)

DeleteDone(c, a) ==
  /\ cl[c].stage \in {"delete", "delbare"}
  /\ IF a.status = 412 /\ kind = "s3" /\ cl[c].stage = "delete"
     THEN Again(c, cl[c], "delbare", "delete", cl[c].over, FALSE, None)
     ELSE cl' = [cl EXCEPT ![c] = Ended(@)] /\ UNCHANGED net

\* on_reply: the elector believes in a lease for a whole term from the moment
\* that it hears of it.
Granted(c, a) == a.status = 200 /\ cl[c].stage \in {"put", "bare", "ghost", "ghostbare"}

Expiry(c, a) == IF Granted(c, a) THEN [expires EXCEPT ![c] = now + TTL] ELSE expires

Answered(c) ==
  /\ answer[c] # NoAnswer
  /\ ReadDone(c, answer[c]) \/ WriteDone(c, answer[c]) \/ HeadDone(c, answer[c]) \/ DeleteDone(c, answer[c])
  /\ answer' = [answer EXCEPT ![c] = NoAnswer]
  /\ expires' = Expiry(c, answer[c])
  /\ Quiet /\ UNCHANGED calls

\* The client's own deadline: whatever is under way goes on
\* without it, at once, late or never.
GiveUp(c) ==
  /\ cl[c].stage # "idle" /\ answer[c] = NoAnswer
  /\ Cardinality({r \in net \cup ToSet(queue) : r.from = Nobody}) < MaxStray
  /\ cl' = [cl EXCEPT ![c] = Ended(@)]
  /\ net' = {[r EXCEPT !.from = IF @ = c THEN Nobody ELSE @] : r \in net}
  /\ queue' = [i \in DOMAIN queue |-> [queue[i] EXCEPT !.from = IF @ = c THEN Nobody ELSE @]]
  /\ store' = [store EXCEPT !.ask.from = IF @ = c THEN Nobody ELSE @]
  /\ UNCHANGED <<kind, bare, now, disk, answer, calls, faults, cuts, expires>>

Tick ==
  /\ now < MaxTime
  /\ now' = now + 1
  /\ UNCHANGED <<kind, bare, disk, net, queue, store, answer, cl, calls, faults, cuts, expires>>

-----------------------------------------------------------------------------
HopInit ==
  /\ kind \in {"file", "volume", "s3"}
  /\ bare \in IF kind = "s3" THEN BOOLEAN ELSE {FALSE}
  /\ now = 0
  /\ disk = [cur |-> None, old |-> None, hidden |-> FALSE]
  /\ net = {} /\ queue = <<>> /\ store = IdleStore
  /\ answer = [c \in Client |-> NoAnswer]
  /\ \E locked \in {Nobody} \cup HopOS :
       cl = [c \in Client |-> [auth |-> c # locked, handle |-> None, ghost |-> NoGhost, stage |-> "idle",
                              over |-> None, body |-> None, left |-> -1]]
  /\ expires = [c \in Client |-> 0]
  /\ calls = 0 /\ faults = 0 /\ cuts = 0

ServerStep ==
  \/ \E r \in net : Accept(r)
  \/ StoreTake
  \/ Rename
  \/ SyncDir
  \/ Replace

ClientStep(c) == Claim(c) \/ Renew(c) \/ Release(c) \/ Answered(c) \/ GiveUp(c)

HopNext ==
  \/ ServerStep
  \/ Commit
  \/ \E i \in 1..MaxCalls : StoreLate(i)
  \/ Crash
  \/ GhostAppears
  \/ \E c \in Client : ClientStep(c)
  \/ Tick

\* The server keeps running, and a client handles the answer it got.
HopFair == WF_hopVars(ServerStep) /\ \A c \in Client : WF_hopVars(Answered(c))

HopSpec == HopInit /\ [][HopNext]_hopVars /\ HopFair

-----------------------------------------------------------------------------
(* Properties *)

HopTypeOK ==
  /\ kind \in {"file", "volume", "s3"} /\ bare \in BOOLEAN /\ now \in 0..MaxTime
  /\ calls \in 0..MaxCalls /\ faults \in 0..MaxFaults /\ cuts \in 0..faults
  /\ disk \in [cur : Object \cup {Torn}, old : Object \cup {Torn}, hidden : BOOLEAN]
  /\ net \subseteq Requests /\ queue \in Seq(Requests)
  /\ store \in [phase : {"idle", "tmp", "sync", "torn"}, was : Object, ask : Requests]
  /\ answer \in [Client -> Answers]
  /\ cl \in [Client -> Clients]
  /\ expires \in [Client -> 0..(MaxTime + TTL)]

\* renew_lease of the elector: it holds a lease and its term, counted from the
\* answer, is not over.
Believes(c) == cl[c].handle # None /\ now < expires[c]

\* The record of c's lease has a second or more to run.
Covered(c) == now + SEC <= cl[c].handle.until

\* A GET never serves a record that was cut off: whatever a client read or
\* was told is a body that a client wrote whole.
ServesWholeRecords ==
  \A c \in Client : answer[c].body # Torn /\ cl[c].over # Torn

\* Two nodes believe in the lease at once only when one of them does so past the
\* record it wrote, whatever is lost, late, retried or taken over.  It counts a
\* term from the answer and the record counts it from the request, so that is for
\* no longer than the answer took, and the second that HopOS rounds.  Only the
\* volume allows two besides, once it has lost a record.
OneBeliever ==
  \A c, d \in Client :
    Believes(c) /\ Believes(d) /\ c # d
    => ~Covered(c) \/ ~Covered(d) \/ (kind = "volume" /\ faults > 0)

\* Once a put is answered with 200, the file store has it on the disk for
\* good: a power cut does not bring back what it replaced.
AnsweredIsDurable ==
  \A c \in Client :
    kind = "file" /\ answer[c] = NoAnswer /\ answer'[c].status = 200 /\ cl[c].stage = "put"
    => disk'.old = disk'.cur /\ disk'.cur = answer'[c].body

\* The object as it is between the requests.
Obj == IF store.phase \in {"sync", "torn"} THEN store.was ELSE Current

\* An owner's lease ends early only by its own hand: the object goes to
\* another node when it has expired, give or take the second that HopOS rounds.
TakenOnlyWhenExpired ==
  {Obj, Obj'} \subseteq Body /\ Obj'.by # Obj.by /\ faults' = faults
  => Obj.until < now + SEC

\* The writes that are under way, wherever they are.
Writes == {r \in net \cup ToSet(queue) \cup {store.ask} : r.op \in {"put", "delete"}}
Asked == {[over |-> r.over, body |-> r.body] : r \in Writes}

\* The store is the compare-and-swap register that the lease protocol needs:
\* the check and the write are one, however many steps lie between them.
Cas == INSTANCE CasStore WITH
  None <- None, Body <- Body,
  obj <- Obj, asked <- Asked, faults <- faults

ImplementsCas == Cas!CasSpec

\* What holds of server, disk and clients at any time, crashes in the midst of a
\* write and answers that come too late included.
HopInv ==
  /\ HopTypeOK
  /\ ServesWholeRecords
  /\ OneBeliever

\* What no step may do: answer before the write is durable, or give away a lease
\* that has not expired.
HopKeeps ==
  [][/\ AnsweredIsDurable
     /\ TakenOnlyWhenExpired]_hopVars
=============================================================================
