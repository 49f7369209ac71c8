------------------------------ MODULE HopProofs ------------------------------
(***************************************************************************)
(* Proofs about module Hoplock, for any clients, terms and bounds: the     *)
(* store is a compare-and-swap register, it serves whole records only, and *)
(* at most one node believes in its lease.                                 *)
(***************************************************************************)
EXTENDS Hoplock, QueueLemmas

USE HopAssumption

-----------------------------------------------------------------------------
(* Types *)

\* None and a torn record are not bodies, and differ.
LEMMA Objects == None \in Object /\ Body \subseteq Object /\ Torn \notin Object /\ None # Torn
  BY DEF Object, None, Torn, Body

\* The wall clock of a node is a time of the model.
LEMMA ClockType ==
  ASSUME now \in 0..MaxTime, NEW c
  PROVE  Clock(c) \in 0..MaxTime
<1>1. now % SEC \in 0..now
  OBVIOUS
<1> QED
  BY <1>1 DEF Clock

\* A lease is a body.
LEMMA LeaseType ==
  ASSUME now \in 0..MaxTime, NEW c \in Client
  PROVE  Lease(c) \in Body /\ Lease(c) \in Object
<1>1. Clock(c) \in 0..MaxTime
  BY ClockType
<1>2. Clock(c) + TTL \in 0..(MaxTime + TTL)
  BY <1>1
<1> QED
  BY <1>2 DEF Lease, Body, Object

\* What reads of the disk find.
LEMMA ReadType ==
  ASSUME HopTypeOK
  PROVE  Current \in Object /\ Shown \in Object
  BY DEF HopTypeOK, Current, Shown, Object

\* A call is a request.
LEMMA CallType ==
  ASSUME net \subseteq Requests, NEW c \in Client, NEW op \in {"get", "put", "delete", "head"},
         NEW over \in Object, NEW quoted \in BOOLEAN, NEW body \in Object,
         Call(c, op, over, quoted, body)
  PROVE  net' \subseteq Requests
  BY DEF Call, Requests, Object

\* A reply is an answer.
LEMMA ReplyType ==
  ASSUME answer \in [Client -> Answers], NEW c \in Client \cup {Nobody}, NEW a \in Answers,
         Reply(c, a)
  PROVE  answer' \in [Client -> Answers]
  BY DEF Reply

\* The answers without a body.
LEMMA StatusType ==
  NoAnswer \in Answers
  /\ \A n \in {0, 200, 204, 401, 404, 412, 500, 504} :
       /\ Status(n) \in Answers
       /\ \A b \in Object : [status |-> n, body |-> b] \in Answers
  BY DEF NoAnswer, Status, Answers, Object

\* The fields of a client.
LEMMA ClientFields ==
  ASSUME NEW k \in Clients
  PROVE  /\ k.auth \in BOOLEAN /\ k.handle \in Object /\ k.over \in Object /\ k.body \in Object
         /\ k.ghost \in [etag : Object, since : 0..MaxTime]
         /\ k.stage \in {"idle", "read", "put", "bare", "head", "ghost", "ghostbare", "delete", "delbare"}
         /\ k.left \in -1..MaxTime
         /\ Ended(k) \in Clients
  BY Objects DEF Clients, Object, Ended

\* A client with some of its fields changed is a client.
LEMMA ClientChange ==
  ASSUME NEW k \in Clients, NEW b \in Object, NEW o \in Object, NEW h \in Object,
         NEW g \in [etag : Object, since : 0..MaxTime],
         NEW st \in {"idle", "read", "put", "bare", "head", "ghost", "ghostbare", "delete", "delbare"},
         NEW t \in 0..MaxTime
  PROVE  /\ [k EXCEPT !.stage = st] \in Clients
         /\ [k EXCEPT !.stage = st, !.over = o, !.body = b] \in Clients
         /\ [k EXCEPT !.stage = st, !.over = o, !.handle = h, !.left = t] \in Clients
         /\ [k EXCEPT !.handle = h] \in Clients
         /\ [k EXCEPT !.ghost = g] \in Clients
         /\ [k EXCEPT !.handle = h, !.ghost = g] \in Clients
<1>1. [k EXCEPT !.stage = st] \in Clients
  BY DEF Clients
<1>2. [k EXCEPT !.stage = st, !.over = o, !.body = b] \in Clients
  BY DEF Clients, Object
<1>3. [k EXCEPT !.stage = st, !.over = o, !.handle = h, !.left = t] \in Clients
  <2>1. t \in -1..MaxTime
    OBVIOUS
  <2>2. ASSUME NEW j \in Clients PROVE [j EXCEPT !.left = t] \in Clients
    BY <2>1 DEF Clients, Object
  <2>3. [k EXCEPT !.stage = st, !.over = o, !.handle = h] \in Clients
    BY DEF Clients, Object
  <2>4. [k EXCEPT !.stage = st, !.over = o, !.handle = h, !.left = t]
        = [[k EXCEPT !.stage = st, !.over = o, !.handle = h] EXCEPT !.left = t]
    BY DEF Clients
  <2> QED
    BY <2>2, <2>3, <2>4, Zenon
<1>4. [k EXCEPT !.handle = h] \in Clients
  BY DEF Clients, Object
<1>5. [k EXCEPT !.ghost = g] \in Clients
  BY DEF Clients, Object
<1>6. [k EXCEPT !.handle = h, !.ghost = g] \in Clients
  BY DEF Clients, Object
<1> QED
  BY <1>1, <1>2, <1>3, <1>4, <1>5, <1>6

\* No ghost is remembered.
LEMMA GhostType == NoGhost \in [etag : Object, since : 0..MaxTime]
  BY Objects DEF NoGhost

\* The fields of a request.
LEMMA RequestFields ==
  ASSUME NEW r \in Requests
  PROVE  /\ r.from \in Client \cup {Nobody} /\ r.op \in {"get", "put", "delete", "head"}
         /\ r.over \in Object /\ r.quoted \in BOOLEAN /\ r.body \in Object
  BY DEF Requests

\* The store thread at rest.
LEMMA IdleType ==
  /\ IdleStore \in [phase : {"idle", "tmp", "sync", "torn"}, was : Object, ask : Requests]
  /\ IdleStore.phase = "idle"
  /\ IdleStore.ask.op = "get"
<1> DEFINE r == [from |-> Nobody, op |-> "get", over |-> None, quoted |-> FALSE, body |-> None]
<1>1. r \in Requests /\ r.op = "get"
  BY Objects DEF Requests
<1> HIDE DEF r
<1> QED
  BY <1>1, Objects DEF IdleStore, r

\* A worker hands a request on, or refuses it.
LEMMA AcceptType ==
  ASSUME HopTypeOK, NEW r \in net, Accept(r)
  PROVE  HopTypeOK'
<1>1. r \in Requests /\ r.from \in Client \cup {Nobody}
  BY RequestFields DEF HopTypeOK
<1>2. Begin(r) \in Answers
  BY StatusType DEF Begin
<1>5. UNCHANGED <<kind, bare, now, disk, store, cl, calls, faults, cuts, expires>> /\ net' \subseteq Requests
  BY DEF Accept, HopTypeOK
<1>3. CASE Begin(r) # NoAnswer
  <2>1. answer' \in [Client -> Answers] /\ UNCHANGED queue
    BY <1>1, <1>2, <1>3, ReplyType DEF Accept, HopTypeOK
  <2> QED
    BY <1>5, <2>1 DEF HopTypeOK
<1>4. CASE Begin(r) = NoAnswer
  <2>0. queue \in Seq(Requests)
    BY DEF HopTypeOK
  <2>2. queue' = Append(queue, r) /\ UNCHANGED answer
    BY <1>4 DEF Accept
  <2>1. queue' \in Seq(Requests) /\ UNCHANGED answer
    BY <1>1, <2>0, <2>2, Appended
  <2> QED
    BY <1>5, <2>1 DEF HopTypeOK
<1> QED
  BY <1>3, <1>4

\* What the store thread makes of a request, with what it answers.
LEMMA TakeAnswers ==
  ASSUME HopTypeOK, StoreTake
  PROVE  LET r == Head(queue)
         IN  \/ /\ UNCHANGED <<disk, store>>
                /\ \E a \in Answers : /\ Reply(r.from, a)
                                      /\ a.status = 200 => /\ r.op \in {"get", "head"}
                                                           /\ a.body \in {Current, Shown} /\ a.body # None
             \/ /\ kind # "file" /\ UNCHANGED store /\ r.op \in {"put", "delete"} /\ r.over = Current
                /\ disk' = [cur |-> r.body, old |-> IF kind = "s3" THEN r.body ELSE disk.old,
                            hidden |-> FALSE]
                /\ \E a \in Answers : /\ Reply(r.from, a)
                                      /\ a.status = 200 => r.op = "put" /\ a.body = r.body
             \/ /\ UNCHANGED answer /\ r.over = Current
                /\ \/ /\ kind = "file" /\ r.op = "delete"
                      /\ store' = [phase |-> "sync", was |-> Current, ask |-> r]
                      /\ disk' = [disk EXCEPT !.cur = None]
                   \/ /\ kind = "volume" /\ r.op = "put"
                      /\ store' = [phase |-> "torn", was |-> Current, ask |-> r]
                      /\ disk' = [disk EXCEPT !.cur = Torn]
                   \/ /\ kind = "file" /\ r.op = "put"
                      /\ store' = [phase |-> "tmp", was |-> Current, ask |-> r]
                      /\ disk' = disk
<1> DEFINE r == Head(queue)
           refused ==
             CASE r.op = "get" -> [status |-> IF Shown = None THEN 404 ELSE 200, body |-> Shown]
               [] r.op = "head" -> [status |-> IF Current = None THEN 404 ELSE 200, body |-> Current]
               [] r.op = "put" /\ ~CheckPut(Current, r) -> Status(412)
               [] r.op = "delete" /\ disk.cur = None -> Status(404)
               [] r.op = "delete" /\ disk.cur # None /\ ~CheckDelete(Current, r) -> Status(412)
               [] OTHER -> NoAnswer
           ok == [status |-> IF r.op = "put" THEN 200 ELSE 204, body |-> r.body]
<1>0. queue # <<>>
  BY DEF StoreTake
<1>1. r \in Requests
  BY <1>0, Tailed DEF HopTypeOK
<1>2. r.op \in {"get", "put", "delete", "head"} /\ r.body \in Object
  BY <1>1, RequestFields
<1>3. CASE refused # NoAnswer
  <2>1. Reply(r.from, refused) /\ UNCHANGED <<disk, store>>
    BY <1>3 DEF StoreTake
  <2>2. refused \in Answers
        /\ (refused.status = 200 => r.op \in {"get", "head"} /\ refused.body \in {Current, Shown} /\ refused.body # None)
    <3>1. CASE r.op = "get"
      <4>1. (IF Shown = None THEN 404 ELSE 200) \in {0, 200, 204, 401, 404, 412, 500, 504}
        OBVIOUS
      <4>2. refused = [status |-> IF Shown = None THEN 404 ELSE 200, body |-> Shown]
        BY <3>1
      <4>3. refused \in Answers
        BY <4>1, <4>2, ReadType, StatusType
      <4>4. refused.status = 200 => refused.body = Shown /\ Shown # None
        BY <4>2
      <4> HIDE DEF refused
      <4> QED
        BY <3>1, <4>3, <4>4
    <3>2. CASE r.op = "head"
      <4>1. (IF Current = None THEN 404 ELSE 200) \in {0, 200, 204, 401, 404, 412, 500, 504}
        OBVIOUS
      <4>2. refused = [status |-> IF Current = None THEN 404 ELSE 200, body |-> Current]
        BY <3>2
      <4>3. refused \in Answers
        BY <4>1, <4>2, ReadType, StatusType
      <4>4. refused.status = 200 => refused.body = Current /\ Current # None
        BY <4>2
      <4> HIDE DEF refused
      <4> QED
        BY <3>2, <4>3, <4>4
    <3>3. CASE r.op \in {"put", "delete"}
      <4>1. refused \in {Status(412), Status(404), NoAnswer}
        BY <3>3
      <4>2. \A n \in {412, 404} : Status(n) \in Answers /\ Status(n).status = n
        BY StatusType DEF Status
      <4>3. NoAnswer \in Answers /\ NoAnswer.status = 0
        BY StatusType DEF NoAnswer
      <4> HIDE DEF refused
      <4> QED
        BY <4>1, <4>2, <4>3
    <3> QED
      BY <1>2, <3>1, <3>2, <3>3
  <2> HIDE DEF refused
  <2> QED
    BY <2>1, <2>2
<1>4. CASE refused = NoAnswer
  <2>1. r.op \in {"put", "delete"} /\ r.over = Current
    <3>1. r.op # "get" /\ r.op # "head"
      BY <1>4 DEF NoAnswer
    <3>2. ASSUME r.op = "put" PROVE r.over = Current
      <4>1. CheckPut(Current, r)
        BY <1>4, <3>2 DEF NoAnswer, Status
      <4> QED
        BY <4>1 DEF CheckPut
    <3>3. ASSUME r.op = "delete" PROVE r.over = Current
      <4>1. CheckDelete(Current, r)
        BY <1>4, <3>3 DEF NoAnswer, Status
      <4> QED
        BY <4>1 DEF CheckDelete
    <3> QED
      BY <1>2, <3>1, <3>2, <3>3
  <2>2. ok \in Answers /\ (ok.status = 200 => r.op = "put" /\ ok.body = r.body)
    BY <1>2, StatusType
  <2>3. /\ disk' = CASE FirstPhase(r) = "sync" -> [disk EXCEPT !.cur = None]
                     [] FirstPhase(r) = "torn" -> [disk EXCEPT !.cur = Torn]
                     [] FirstPhase(r) = "done" -> [cur |-> r.body, old |-> IF kind = "s3" THEN r.body ELSE disk.old,
                                                   hidden |-> FALSE]
                     [] OTHER -> disk
        /\ IF FirstPhase(r) = "done"
           THEN Reply(r.from, ok) /\ UNCHANGED store
           ELSE store' = [phase |-> FirstPhase(r), was |-> Current, ask |-> r] /\ UNCHANGED answer
    BY <1>4 DEF StoreTake
  <2> HIDE DEF r, refused, ok
  <2>4. \/ FirstPhase(r) = "done" /\ kind # "file"
        \/ FirstPhase(r) = "tmp" /\ r.op = "put" /\ kind = "file"
        \/ FirstPhase(r) = "torn" /\ r.op = "put" /\ kind = "volume"
        \/ FirstPhase(r) = "sync" /\ r.op = "delete" /\ kind = "file"
    BY <2>1 DEF FirstPhase
  <2>5. CASE FirstPhase(r) = "done" /\ kind # "file"
    BY <2>1, <2>2, <2>3, <2>5 DEF r
  <2>6. CASE FirstPhase(r) = "tmp" /\ r.op = "put" /\ kind = "file"
    BY <2>1, <2>3, <2>6 DEF r
  <2>7. CASE FirstPhase(r) = "torn" /\ r.op = "put" /\ kind = "volume"
    BY <2>1, <2>3, <2>7 DEF r
  <2>8. CASE FirstPhase(r) = "sync" /\ r.op = "delete" /\ kind = "file"
    BY <2>1, <2>3, <2>8 DEF r
  <2> QED
    BY <2>4, <2>5, <2>6, <2>7, <2>8
<1> QED
  BY <1>3, <1>4

\* What it does to the disk.
LEMMA TakeCases ==
  ASSUME HopTypeOK, StoreTake
  PROVE  LET r == Head(queue)
         IN  /\ r \in Requests /\ queue # <<>> /\ store.phase = "idle" /\ queue' = Tail(queue)
             /\ UNCHANGED <<kind, bare, now, net, cl, calls, faults, cuts, expires>>
             /\ answer' \in [Client -> Answers]
             /\ \/ UNCHANGED <<disk, store>>
                \/ /\ r.op \in {"put", "delete"} /\ r.over = Current
                   /\ \/ /\ UNCHANGED store
                         /\ disk' = [cur |-> r.body, old |-> IF kind = "s3" THEN r.body ELSE disk.old,
                                     hidden |-> FALSE]
                      \/ /\ r.op = "delete" /\ store' = [phase |-> "sync", was |-> Current, ask |-> r]
                         /\ disk' = [disk EXCEPT !.cur = None]
                      \/ /\ r.op = "put" /\ store' = [phase |-> "torn", was |-> Current, ask |-> r]
                         /\ disk' = [disk EXCEPT !.cur = Torn]
                      \/ /\ r.op = "put" /\ store' = [phase |-> "tmp", was |-> Current, ask |-> r]
                         /\ disk' = disk
<1> DEFINE r == Head(queue)
<1>1. /\ queue # <<>> /\ store.phase = "idle" /\ queue' = Tail(queue)
      /\ UNCHANGED <<kind, bare, now, net, cl, calls, faults, cuts, expires>>
  BY DEF StoreTake
<1>2. r \in Requests /\ r.from \in Client \cup {Nobody}
  BY <1>1, Tailed, RequestFields DEF HopTypeOK
<1>3. answer' \in [Client -> Answers]
  <2>1. UNCHANGED answer \/ \E a \in Answers : Reply(r.from, a)
    BY TakeAnswers
  <2> HIDE DEF r
  <2> QED
    BY <1>2, <2>1, ReplyType DEF HopTypeOK
<1> QED
  BY <1>1, <1>2, <1>3, TakeAnswers

\* The store thread keeps its types.
LEMMA StoreType ==
  ASSUME HopTypeOK, StoreTake \/ Rename \/ SyncDir \/ Replace
  PROVE  HopTypeOK'
<1> USE DEF HopTypeOK
<1>t. /\ store.ask \in Requests /\ store.ask.body \in Object
      /\ store.ask.from \in Client \cup {Nobody}
  BY RequestFields
<1>o. [status |-> 200, body |-> store.ask.body] \in Answers /\ Status(204) \in Answers
      /\ Status(500) \in Answers
  BY <1>t, StatusType
<1>1. CASE StoreTake
  <2>1. Current \in Object /\ None \in Object
    BY ReadType, Objects
  <2>q. queue # <<>> /\ queue' = Tail(queue) /\ Head(queue) \in Requests
    BY <1>1, TakeCases
  <2>2. queue' \in Seq(Requests)
    BY <2>q, Tailed
  <2>3. disk' \in [cur : Object \cup {Torn}, old : Object \cup {Torn}, hidden : BOOLEAN]
    <3>1. Head(queue).body \in Object
      BY <2>q, RequestFields
    <3>2. \/ disk' = disk
          \/ disk' = [cur |-> Head(queue).body, hidden |-> FALSE,
                      old |-> IF kind = "s3" THEN Head(queue).body ELSE disk.old]
          \/ \E b \in {None, Torn} : disk' = [disk EXCEPT !.cur = b]
      BY <1>1, TakeCases
    <3>3. disk.old \in Object \cup {Torn} /\ disk.hidden \in BOOLEAN
      OBVIOUS
    <3>4. ASSUME NEW b \in {None, Torn}, disk' = [disk EXCEPT !.cur = b]
          PROVE  disk' \in [cur : Object \cup {Torn}, old : Object \cup {Torn}, hidden : BOOLEAN]
      BY <2>1, <3>4
    <3>5. (IF kind = "s3" THEN Head(queue).body ELSE disk.old) \in Object \cup {Torn}
      BY <3>1, <3>3
    <3>6. ASSUME disk' = [cur |-> Head(queue).body, hidden |-> FALSE,
                          old |-> IF kind = "s3" THEN Head(queue).body ELSE disk.old]
          PROVE  disk' \in [cur : Object \cup {Torn}, old : Object \cup {Torn}, hidden : BOOLEAN]
      BY <3>1, <3>5, <3>6
    <3> QED
      BY <3>2, <3>4, <3>6
  <2>4. store' \in [phase : {"idle", "tmp", "sync", "torn"}, was : Object, ask : Requests]
    BY <1>1, <2>1, TakeCases
  <2> QED
    BY <1>1, <2>2, <2>3, <2>4, TakeCases
<1>2. CASE Rename
  <2>1. answer' \in [Client -> Answers]
    BY <1>2, <1>t, <1>o, ReplyType DEF Rename
  <2>2. disk' \in [cur : Object \cup {Torn}, old : Object \cup {Torn}, hidden : BOOLEAN]
    BY <1>2, <1>t DEF Rename
  <2>3. store' \in [phase : {"idle", "tmp", "sync", "torn"}, was : Object, ask : Requests]
    BY <1>2, IdleType DEF Rename
  <2> QED
    BY <1>2, <2>1, <2>2, <2>3 DEF Rename
<1>3. CASE SyncDir
  <2>1. answer' \in [Client -> Answers]
    <3>1. PICK synced \in BOOLEAN :
             Reply(store.ask.from, CASE store.ask.op = "delete" -> Status(204)
                                     [] store.ask.op # "delete" /\ synced -> [status |-> 200, body |-> store.ask.body]
                                     [] OTHER -> Status(500))
      BY <1>3 DEF SyncDir
    <3>2. (CASE store.ask.op = "delete" -> Status(204)
             [] store.ask.op # "delete" /\ synced -> [status |-> 200, body |-> store.ask.body]
             [] OTHER -> Status(500)) \in Answers
      BY <1>o
    <3> QED
      BY <1>t, <3>1, <3>2, ReplyType
  <2>2. disk' \in [cur : Object \cup {Torn}, old : Object \cup {Torn}, hidden : BOOLEAN]
    BY <1>3 DEF SyncDir
  <2>3. store' \in [phase : {"idle", "tmp", "sync", "torn"}, was : Object, ask : Requests]
    BY <1>3, IdleType DEF SyncDir
  <2>4. UNCHANGED <<kind, bare, now, net, queue, cl, calls, faults, cuts, expires>>
    BY <1>3 DEF SyncDir
  <2> QED
    BY <2>1, <2>2, <2>3, <2>4
<1>4. CASE Replace
  <2>1. answer' \in [Client -> Answers]
    <3>1. \/ Reply(store.ask.from, [status |-> 200, body |-> store.ask.body])
          \/ Reply(store.ask.from, Status(500))
      BY <1>4 DEF Replace
    <3> QED
      BY <1>t, <1>o, <3>1, ReplyType
  <2>2. disk' \in [cur : Object \cup {Torn}, old : Object \cup {Torn}, hidden : BOOLEAN]
    BY <1>4, <1>t DEF Replace
  <2>3. store' \in [phase : {"idle", "tmp", "sync", "torn"}, was : Object, ask : Requests]
    BY <1>4, IdleType DEF Replace
  <2>4. faults' \in 0..MaxFaults /\ cuts' \in 0..faults'
    BY <1>4 DEF Replace
  <2> QED
    BY <1>4, <2>1, <2>2, <2>3, <2>4 DEF Replace
<1> QED
  BY <1>1, <1>2, <1>3, <1>4

\* What happens to the disk and the queue without the store thread.
LEMMA DiskType ==
  ASSUME HopTypeOK,
         Commit \/ Crash \/ GhostAppears \/ Tick \/ \E i \in 1..MaxCalls : StoreLate(i)
  PROVE  HopTypeOK'
<1> USE DEF HopTypeOK
<1>1. CASE Commit
  BY <1>1 DEF Commit
<1>2. CASE Crash
  <2>1. disk' \in [cur : Object \cup {Torn}, old : Object \cup {Torn}, hidden : BOOLEAN]
    BY <1>2 DEF Crash
  <2>2. faults' \in 0..MaxFaults /\ cuts' \in 0..faults'
    BY <1>2 DEF Crash
  <2> QED
    BY <1>2, <2>1, <2>2, IdleType DEF Crash
<1>3. CASE GhostAppears
  BY <1>3 DEF GhostAppears
<1>4. CASE Tick
  <2>1. now' \in 0..MaxTime
    BY <1>4 DEF Tick
  <2> QED
    BY <1>4, <2>1 DEF Tick
<1>5. ASSUME NEW i \in 1..MaxCalls, StoreLate(i) PROVE HopTypeOK'
  <2>1. i \in 1..Len(queue) /\ queue[i] \in Requests
    BY <1>5, Sequence DEF StoreLate
  <2>2. answer' \in [Client -> Answers]
    BY SMTT(30), <1>5, <2>1, StatusType, ReplyType, RequestFields DEF StoreLate
  <2>3. [queue[i] EXCEPT !.from = Nobody] \in Requests
    BY <2>1 DEF Requests
  <2>4. queue' = [queue EXCEPT ![i] = [queue[i] EXCEPT !.from = Nobody]]
    BY <1>5 DEF StoreLate
  <2>5. queue' \in Seq(Requests)
    BY <2>1, <2>3, <2>4, ExceptSeq
  <2> QED
    BY <1>5, <2>2, <2>5 DEF StoreLate
<1> QED
  BY <1>1, <1>2, <1>3, <1>4, <1>5

\* The end of an operation, with the ghost and the handle that are left.
LEMMA EndType ==
  ASSUME HopTypeOK, NEW c \in Client, NEW k \in Clients, cl' = [cl EXCEPT ![c] = Ended(k)],
         UNCHANGED net
  PROVE  cl' \in [Client -> Clients] /\ net' \subseteq Requests
<1>1. Ended(k) \in Clients
  BY ClientFields
<1> QED
  BY <1>1 DEF HopTypeOK

\* The next call of an operation.
LEMMA AgainType ==
  ASSUME HopTypeOK, NEW c \in Client, NEW k \in Clients,
         NEW stage \in {"idle", "read", "put", "bare", "head", "ghost", "ghostbare", "delete", "delbare"},
         NEW op \in {"get", "put", "delete", "head"}, NEW over \in Object,
         NEW quoted \in BOOLEAN, NEW body \in Object,
         Again(c, k, stage, op, over, quoted, body)
  PROVE  cl' \in [Client -> Clients] /\ net' \subseteq Requests
<1>1. [k EXCEPT !.stage = stage, !.over = over, !.body = body] \in Clients
  BY ZenonT(30), ClientChange, Objects, GhostType
<1> QED
  BY <1>1, CallType DEF HopTypeOK, Again

\* A client that begins an operation.
LEMMA BeginType ==
  ASSUME HopTypeOK, NEW c \in Client, Claim(c) \/ Renew(c) \/ Release(c)
  PROVE  HopTypeOK'
<1>0. cl[c] \in Clients /\ cl[c].handle \in Object /\ Lease(c) \in Object /\ None \in Object
  BY ClientFields, LeaseType, Objects DEF HopTypeOK
<1>1. calls' \in 0..MaxCalls
  <2>1. Begun(c)
    BY DEF Claim, Renew, Release
  <2>2. calls \in 0..MaxCalls
    BY DEF HopTypeOK
  <2> QED
    BY <2>1, <2>2 DEF Begun
<1>2. UNCHANGED <<kind, bare, now, disk, queue, store, faults, cuts, answer>>
  BY DEF Claim, Renew, Release, Quiet
<1>3. net' \subseteq Requests
  <2>0. net \subseteq Requests
    BY DEF HopTypeOK
  <2>1. CASE Claim(c)
    <3>1. Call(c, "get", None, TRUE, None)
      BY <2>1 DEF Claim
    <3> QED
      BY <1>0, <2>0, <3>1, CallType
  <2>2. CASE Renew(c)
    <3>1. Call(c, "put", cl[c].handle, TRUE, Lease(c))
      BY <2>2 DEF Renew
    <3> QED
      BY <1>0, <2>0, <3>1, CallType
  <2>3. CASE Release(c)
    <3>1. Call(c, "delete", cl[c].handle, TRUE, None)
      BY <2>3 DEF Release
    <3> QED
      BY <1>0, <2>0, <3>1, CallType
  <2> QED
    BY <2>1, <2>2, <2>3
<1>4. cl' \in [Client -> Clients]
  <2>1. CASE Claim(c)
    <3>1. cl' = [cl EXCEPT ![c] = [cl[c] EXCEPT !.stage = "read"]]
      BY <2>1 DEF Claim
    <3> QED
      BY <1>0, <3>1, ClientChange, GhostType DEF HopTypeOK
  <2>2. CASE Renew(c)
    <3>1. cl' = [cl EXCEPT ![c] = [cl[c] EXCEPT !.stage = "put", !.over = cl[c].handle, !.body = Lease(c)]]
      BY <2>2 DEF Renew, HopTypeOK
    <3> QED
      BY <1>0, <3>1, ClientChange, GhostType DEF HopTypeOK
  <2>3. CASE Release(c)
    <3>1. cl' = [cl EXCEPT ![c] = [cl[c] EXCEPT !.stage = "delete", !.over = cl[c].handle, !.handle = None,
                                                 !.left = Clock(c)]]
      BY <2>3 DEF Release, HopTypeOK
    <3>2. Clock(c) \in 0..MaxTime
      BY ClockType DEF HopTypeOK
    <3> DEFINE j == [cl[c] EXCEPT !.stage = "delete", !.over = cl[c].handle, !.handle = None, !.left = Clock(c)]
    <3>3. j \in Clients
      BY <1>0, <3>2, ClientChange, GhostType
    <3> HIDE DEF j
    <3> QED
      BY <3>1, <3>3 DEF HopTypeOK, j
  <2> QED
    BY <2>1, <2>2, <2>3
<1>5. expires' \in [Client -> 0..(MaxTime + TTL)]
  <2>1. expires \in [Client -> 0..(MaxTime + TTL)] /\ 0 \in 0..(MaxTime + TTL)
    BY DEF HopTypeOK
  <2>2. UNCHANGED expires \/ expires' = [expires EXCEPT ![c] = 0]
    BY DEF Claim, Renew, Release
  <2> QED
    BY <2>1, <2>2
<1> QED
  BY <1>1, <1>2, <1>3, <1>4, <1>5 DEF HopTypeOK

\* A client that handles an answer.
LEMMA AnsweredType ==
  ASSUME HopTypeOK, NEW c \in Client, Answered(c)
  PROVE  HopTypeOK'
<1> DEFINE a == answer[c]
           k == cl[c]
<1>0. /\ k \in Clients /\ k.over \in Object /\ k.body \in Object
      /\ Lease(c) \in Object /\ None \in Object /\ a.body \in Object
  BY ClientFields, LeaseType, Objects DEF HopTypeOK, Answers
<1>1. [k EXCEPT !.ghost = NoGhost] \in Clients /\ [k EXCEPT !.handle = None] \in Clients
      /\ [k EXCEPT !.handle = a.body, !.ghost = NoGhost] \in Clients
      /\ [k EXCEPT !.handle = None, !.ghost = [etag |-> a.body, since |-> Clock(c)]] \in Clients
  <2>1. [etag |-> a.body, since |-> Clock(c)] \in [etag : Object, since : 0..MaxTime]
    BY <1>0, ClockType DEF HopTypeOK
  <2> HIDE DEF a, k
  <2> QED
    BY ZenonT(30), <1>0, <2>1, ClientChange, GhostType
<1>e. ASSUME NEW j \in Clients, cl' = [cl EXCEPT ![c] = Ended(j)] /\ UNCHANGED net
      PROVE  cl' \in [Client -> Clients] /\ net' \subseteq Requests
  BY <1>e, EndType
<1>2. ASSUME ReadDone(c, a) PROVE cl' \in [Client -> Clients] /\ net' \subseteq Requests
  <2>1. \/ Again(c, [k EXCEPT !.ghost = NoGhost], "put", "put", a.body, TRUE, Lease(c))
        \/ cl' = [cl EXCEPT ![c] = Ended([k EXCEPT !.ghost = NoGhost])] /\ UNCHANGED net
        \/ Again(c, k, "put", "put", None, TRUE, Lease(c))
        \/ cl' = [cl EXCEPT ![c] = Ended(k)] /\ UNCHANGED net
    BY <1>2 DEF ReadDone, Unreachable
  <2> HIDE DEF a, k
  <2> QED
    BY <1>0, <1>1, <1>e, <2>1, AgainType
<1>3. ASSUME WriteDone(c, a) PROVE cl' \in [Client -> Clients] /\ net' \subseteq Requests
  <2>1. \/ cl' = [cl EXCEPT ![c] = Ended([k EXCEPT !.handle = a.body, !.ghost = NoGhost])] /\ UNCHANGED net
        \/ Again(c, k, "bare", "put", k.over, FALSE, k.body)
        \/ Again(c, k, "ghostbare", "put", k.over, FALSE, k.body)
        \/ Again(c, k, "head", "head", None, TRUE, k.body)
        \/ cl' = [cl EXCEPT ![c] = Ended([k EXCEPT !.handle = None])] /\ UNCHANGED net
        \/ cl' = [cl EXCEPT ![c] = Ended(k)] /\ UNCHANGED net
    <3>1. CASE a.status = 200
      BY <1>3, <3>1 DEF WriteDone, Again, Call
    <3>2. CASE a.status # 200
      <4>1. \/ Again(c, k, "bare", "put", k.over, FALSE, k.body)
            \/ Again(c, k, "ghostbare", "put", k.over, FALSE, k.body)
            \/ Again(c, k, "head", "head", None, TRUE, k.body)
            \/ Held(c) \/ Unreachable(c)
        BY <1>3, <3>2 DEF WriteDone, Again, Call, Held, Unreachable
      <4> QED
        BY <4>1 DEF Unreachable, Held
    <3> QED
      BY <3>1, <3>2
  <2> HIDE DEF a, k
  <2> QED
    BY <1>0, <1>1, <1>e, <2>1, AgainType
<1>4. ASSUME HeadDone(c, a) PROVE cl' \in [Client -> Clients] /\ net' \subseteq Requests
  <2>1. \/ Again(c, k, "ghost", "put", a.body, TRUE, k.body)
        \/ cl' = [cl EXCEPT ![c] = Ended([k EXCEPT !.handle = None])] /\ UNCHANGED net
        \/ cl' = [cl EXCEPT ![c] = Ended([k EXCEPT !.handle = None,
                                          !.ghost = [etag |-> a.body, since |-> Clock(c)]])] /\ UNCHANGED net
    BY <1>4 DEF HeadDone, Held
  <2> HIDE DEF a, k
  <2> QED
    BY <1>0, <1>1, <1>e, <2>1, AgainType
<1>5. ASSUME DeleteDone(c, a) PROVE cl' \in [Client -> Clients] /\ net' \subseteq Requests
  <2>1. \/ Again(c, k, "delbare", "delete", k.over, FALSE, None)
        \/ cl' = [cl EXCEPT ![c] = Ended(k)] /\ UNCHANGED net
    BY <1>5 DEF DeleteDone
  <2> HIDE DEF a, k
  <2> QED
    BY <1>0, <1>e, <2>1, AgainType
<1>6. /\ UNCHANGED <<kind, bare, now, disk, queue, store, faults, cuts, calls>>
      /\ ReadDone(c, a) \/ WriteDone(c, a) \/ HeadDone(c, a) \/ DeleteDone(c, a)
      /\ answer' \in [Client -> Answers]
  BY StatusType DEF Answered, Quiet, HopTypeOK
<1>7. expires' \in [Client -> 0..(MaxTime + TTL)]
  <2>1. expires \in [Client -> 0..(MaxTime + TTL)] /\ now + TTL \in 0..(MaxTime + TTL)
    BY DEF HopTypeOK
  <2>2. UNCHANGED expires \/ expires' = [expires EXCEPT ![c] = now + TTL]
    BY DEF Answered, Expiry
  <2> QED
    BY <2>1, <2>2
<1> HIDE DEF a
<1> QED
  BY <1>2, <1>3, <1>4, <1>5, <1>6, <1>7 DEF HopTypeOK

\* A client that gives up leaves its requests to nobody.
LEMMA GiveUpType ==
  ASSUME HopTypeOK, NEW c \in Client, GiveUp(c)
  PROVE  HopTypeOK'
<1>0. \A r \in Requests : [r EXCEPT !.from = IF @ = c THEN Nobody ELSE @] \in Requests
  BY DEF Requests
<1>1. net' \subseteq Requests
  BY <1>0 DEF GiveUp, HopTypeOK
<1>2. queue' \in Seq(Requests)
  <2>1. queue' = [i \in 1..Len(queue) |-> [queue[i] EXCEPT !.from = IF @ = c THEN Nobody ELSE @]]
    BY Sequence DEF GiveUp, HopTypeOK
  <2>2. queue' \in [1..Len(queue) -> Requests] /\ Len(queue) \in Nat
    BY <1>0, <2>1, Sequence DEF HopTypeOK
  <2> QED
    BY <2>2
<1>3. store' = [store EXCEPT !.ask = [store.ask EXCEPT !.from = IF @ = c THEN Nobody ELSE @]]
  BY DEF GiveUp, HopTypeOK
<1>4. store' \in [phase : {"idle", "tmp", "sync", "torn"}, was : Object, ask : Requests]
  BY <1>0, <1>3 DEF HopTypeOK
<1>5. cl' \in [Client -> Clients]
  BY ClientFields DEF GiveUp, HopTypeOK
<1> QED
  BY <1>1, <1>2, <1>4, <1>5 DEF GiveUp, HopTypeOK

\* Type correctness is preserved by every step.
LEMMA HopTypeStep == HopTypeOK /\ [HopNext]_hopVars => HopTypeOK'
<1> SUFFICES ASSUME HopTypeOK, [HopNext]_hopVars
             PROVE  HopTypeOK'
  OBVIOUS
<1>1. CASE UNCHANGED hopVars
  BY <1>1 DEF hopVars, HopTypeOK
<1> QED
  BY <1>1, AcceptType, StoreType, DiskType, BeginType, AnsweredType, GiveUpType
     DEF HopNext, ServerStep, ClientStep

\* And holds at first.
LEMMA HopInitType == HopInit => HopTypeOK
<1> SUFFICES ASSUME HopInit
             PROVE  HopTypeOK
  OBVIOUS
<1>1. store \in [phase : {"idle", "tmp", "sync", "torn"}, was : Object, ask : Requests]
  BY IdleType DEF HopInit
<1>2. answer \in [Client -> Answers]
  BY StatusType DEF HopInit
<1>3. cl \in [Client -> Clients]
  BY Objects, GhostType DEF HopInit, Clients
<1>4. kind \in {"file", "volume", "s3"} /\ bare \in BOOLEAN
  BY DEF HopInit
<1> QED
  BY <1>1, <1>2, <1>3, <1>4, Objects DEF HopInit, HopTypeOK

-----------------------------------------------------------------------------
(* The check and the write are one *)

\* Between the check and the write the object is what the check saw, and a write
\* that is not yet synced is the whole body; a delete asks for no body.
Phases ==
  /\ \A r \in net \cup ToSet(queue) : r.op = "delete" => r.body = None
  /\ store.phase # "idle" => store.ask.over = store.was /\ store.ask.op \in {"put", "delete"}
  /\ store.phase = "tmp" => Current = store.was
  /\ store.phase = "sync" => disk.cur = store.ask.body

\* What a request asks for stays the same when nobody waits for it any more.
LEMMA Strayed ==
  ASSUME NEW c, NEW r \in Requests,
         NEW q, q = [r EXCEPT !.from = IF @ = c THEN Nobody ELSE @]
  PROVE  q.op = r.op /\ q.over = r.over /\ q.body = r.body /\ q.quoted = r.quoted
  BY DEF Requests

\* A client's call that deletes asks for no body.
LEMMA ClientPhases ==
  ASSUME HopTypeOK, Phases, NEW c \in Client,
         Claim(c) \/ Renew(c) \/ Release(c) \/ Answered(c)
  PROVE  Phases'
<1>1. UNCHANGED <<disk, queue, store>>
  BY DEF Claim, Renew, Release, Answered, Quiet
<1>2. \A r \in net' : r \in net \/ r.op # "delete" \/ r.body = None
  <2>1. ASSUME NEW op, NEW over, NEW quoted, NEW body, op # "delete" \/ body = None,
               Call(c, op, over, quoted, body)
        PROVE  \A r \in net' : r \in net \/ r.op # "delete" \/ r.body = None
    BY <2>1 DEF Call
  <2>2. CASE Claim(c)
    BY <2>1, <2>2 DEF Claim
  <2>3. CASE Renew(c)
    BY <2>1, <2>3 DEF Renew
  <2>4. CASE Release(c)
    BY <2>1, <2>4 DEF Release
  <2>5. CASE Answered(c)
    <3>1. ASSUME ReadDone(c, answer[c]) PROVE \A r \in net' : r \in net \/ r.op # "delete" \/ r.body = None
      BY <3>1 DEF ReadDone, Again, Call, Unreachable
    <3>2. ASSUME WriteDone(c, answer[c]) PROVE \A r \in net' : r \in net \/ r.op # "delete" \/ r.body = None
      BY <3>2 DEF WriteDone, Again, Call, Held, Unreachable
    <3>3. ASSUME HeadDone(c, answer[c]) PROVE \A r \in net' : r \in net \/ r.op # "delete" \/ r.body = None
      BY <3>3 DEF HeadDone, Again, Call, Held
    <3>4. ASSUME DeleteDone(c, answer[c]) PROVE \A r \in net' : r \in net \/ r.op # "delete" \/ r.body = None
      BY <3>4 DEF DeleteDone, Again, Call
    <3> QED
      BY <2>5, <3>1, <3>2, <3>3, <3>4 DEF Answered
  <2> QED
    BY <2>2, <2>3, <2>4, <2>5
<1> QED
  BY <1>1, <1>2 DEF Phases, Current

\* The phases of the store follow each other.
LEMMA PhasesStep == HopTypeOK /\ Phases /\ [HopNext]_hopVars => Phases'
<1> SUFFICES ASSUME HopTypeOK, Phases, [HopNext]_hopVars
             PROVE  Phases'
  OBVIOUS
<1>t. queue \in Seq(Requests) /\ net \subseteq Requests /\ store.ask \in Requests
      /\ ToSet(queue) \subseteq Requests
  BY Elements DEF HopTypeOK
<1>i. IdleStore.phase = "idle"
  BY IdleType
<1>1. ASSUME NEW r \in net, Accept(r) PROVE Phases'
  <2>1. net' \subseteq net /\ UNCHANGED <<disk, store>>
    BY <1>1 DEF Accept
  <2>2. ToSet(queue') \subseteq ToSet(queue) \cup {r}
    <3>1. queue' = queue \/ queue' = Append(queue, r)
      BY <1>1 DEF Accept
    <3> QED
      BY <1>t, <3>1, Elements
  <2> QED
    BY <2>1, <2>2 DEF Phases, Current
<1>2. CASE StoreTake
  <2>1. /\ Head(queue) \in Requests /\ queue # <<>> /\ store.phase = "idle" /\ queue' = Tail(queue)
        /\ UNCHANGED net
    BY <1>2, TakeCases
  <2>2. Head(queue) \in ToSet(queue) /\ ToSet(queue') \subseteq ToSet(queue)
    BY <1>t, <2>1, Elements
  <2>3. \A r \in net' \cup ToSet(queue') : r.op = "delete" => r.body = None
    BY <2>1, <2>2 DEF Phases
  <2>4. Current # Torn
    BY ReadType, Objects
  <2>d. disk \in [cur : Object \cup {Torn}, old : Object \cup {Torn}, hidden : BOOLEAN]
    BY DEF HopTypeOK
  <2>5. /\ store'.phase # "idle" => store'.ask.over = store'.was /\ store'.ask.op \in {"put", "delete"}
        /\ store'.phase = "tmp" => disk' = disk /\ store'.was = Current
        /\ store'.phase = "sync" => disk'.cur = store'.ask.body
    <3>1. CASE UNCHANGED store
      BY <2>1, <3>1
    <3>2. CASE store' = [phase |-> "sync", was |-> Current, ask |-> Head(queue)]
      <4>1. Head(queue).op = "delete" /\ Head(queue).over = Current /\ disk'.cur = None
        BY <1>2, <2>1, <3>2, <2>d, TakeCases
      <4> QED
        BY <2>2, <3>2, <4>1 DEF Phases
    <3>3. CASE store' = [phase |-> "torn", was |-> Current, ask |-> Head(queue)]
      BY <1>2, <2>1, <3>3, TakeCases
    <3>4. CASE store' = [phase |-> "tmp", was |-> Current, ask |-> Head(queue)]
      BY <1>2, <2>1, <3>4, TakeCases
    <3> QED
      BY <1>2, <3>1, <3>2, <3>3, <3>4, TakeCases
  <2> QED
    BY <2>3, <2>5 DEF Phases, Current
<1>3. CASE Rename
  <2>1. UNCHANGED <<net, queue>>
    BY <1>3 DEF Rename
  <2>2. \/ store'.phase = "idle"
        \/ /\ store'.phase = "sync" /\ store'.ask = store.ask /\ store'.was = store.was
           /\ disk'.cur = store.ask.body
    BY <1>3, <1>i DEF Rename, HopTypeOK
  <2> QED
    BY <1>3, <2>1, <2>2 DEF Phases, Rename
<1>4. CASE SyncDir
  BY <1>4, <1>i DEF SyncDir, Phases
<1>5. CASE Replace
  BY <1>5, <1>i DEF Replace, Phases
<1>6. CASE Commit
  <2>1. disk'.cur = disk.cur
    BY <1>6 DEF Commit, HopTypeOK
  <2> QED
    BY <1>6, <2>1 DEF Commit, Phases, Current
<1>7. ASSUME NEW i \in 1..MaxCalls, StoreLate(i) PROVE Phases'
  <2>1. i \in 1..Len(queue) /\ queue[i] \in Requests
    BY <1>7, <1>t, Sequence DEF StoreLate
  <2>2. queue' = [queue EXCEPT ![i] = [queue[i] EXCEPT !.from = Nobody]]
    BY <1>7 DEF StoreLate
  <2>3. queue' \in Seq(Requests) /\ Len(queue') = Len(queue)
    <3>1. [queue[i] EXCEPT !.from = Nobody] \in Requests
      BY <2>1 DEF Requests
    <3> QED
      BY <1>t, <2>1, <2>2, <3>1, ExceptSeq
  <2>4. \A j \in 1..Len(queue) : queue'[j].op = queue[j].op /\ queue'[j].body = queue[j].body
    BY <1>t, <2>1, <2>2, Sequence DEF Requests
  <2>5. \A r \in ToSet(queue') : r.op = "delete" => r.body = None
    BY <1>t, <2>3, <2>4, Elements DEF Phases
  <2> QED
    BY <1>7, <2>5 DEF StoreLate, Phases, Current
<1>8. CASE Crash
  <2>1. ToSet(queue') = {}
    BY <1>8 DEF Crash, ToSet
  <2> QED
    BY <1>8, <1>i, <2>1 DEF Crash, Phases
<1>9. CASE GhostAppears
  <2>1. disk'.cur = disk.cur
    BY <1>9 DEF GhostAppears, HopTypeOK
  <2> QED
    BY <1>9, <2>1 DEF GhostAppears, Phases, Current
<1>10. ASSUME NEW c \in Client, GiveUp(c) PROVE Phases'
  <2>1. \A r \in net' : \E q \in net : r.op = q.op /\ r.body = q.body
    <3> SUFFICES ASSUME NEW q \in net, NEW r, r = [q EXCEPT !.from = IF @ = c THEN Nobody ELSE @]
                 PROVE  r.op = q.op /\ r.body = q.body
      BY <1>10 DEF GiveUp
    <3> QED
      BY <1>t, Strayed
  <2>2. \A r \in ToSet(queue') : \E q \in ToSet(queue) : r.op = q.op /\ r.body = q.body
    <3>1. queue' = [i \in 1..Len(queue) |-> [queue[i] EXCEPT !.from = IF @ = c THEN Nobody ELSE @]]
      BY <1>10, <1>t, Sequence DEF GiveUp
    <3>2. ToSet(queue') = {queue'[i] : i \in 1..Len(queue)}
      BY <3>1 DEF ToSet
    <3>3. \A i \in 1..Len(queue) : queue'[i].op = queue[i].op /\ queue'[i].body = queue[i].body
      <4> SUFFICES ASSUME NEW i \in 1..Len(queue)
                   PROVE  queue'[i].op = queue[i].op /\ queue'[i].body = queue[i].body
        OBVIOUS
      <4>1. queue[i] \in Requests /\ queue'[i] = [queue[i] EXCEPT !.from = IF @ = c THEN Nobody ELSE @]
        BY <1>t, <3>1, Sequence
      <4> QED
        BY <4>1, Strayed
    <3> QED
      BY <1>t, <3>2, <3>3, Elements
  <2>3. store' = [store EXCEPT !.ask = [store.ask EXCEPT !.from = IF @ = c THEN Nobody ELSE @]]
    BY <1>10 DEF GiveUp, HopTypeOK
  <2>4. /\ store'.phase = store.phase /\ store'.was = store.was /\ store'.ask.op = store.ask.op
        /\ store'.ask.over = store.ask.over /\ store'.ask.body = store.ask.body
    <3> DEFINE q == [store.ask EXCEPT !.from = IF @ = c THEN Nobody ELSE @]
    <3>1. q.op = store.ask.op /\ q.over = store.ask.over /\ q.body = store.ask.body
      BY <1>t, Strayed
    <3>2. store' = [store EXCEPT !.ask = q]
      BY <2>3
    <3> HIDE DEF q
    <3> QED
      BY <3>1, <3>2 DEF HopTypeOK
  <2>5. UNCHANGED disk
    BY <1>10 DEF GiveUp
  <2> QED
    BY <2>1, <2>2, <2>4, <2>5 DEF Phases, Current
<1>11. CASE Tick
  BY <1>11 DEF Tick, Phases, Current
<1>12. CASE UNCHANGED hopVars
  BY <1>12 DEF hopVars, Phases, Current
<1> QED
  BY <1>1, <1>2, <1>3, <1>4, <1>5, <1>6, <1>7, <1>8, <1>9, <1>10, <1>11, <1>12, ClientPhases
     DEF HopNext, ServerStep, ClientStep

\* Whatever is asked for has the types of the register.
LEMMA AskedType == HopTypeOK => Asked \subseteq Cas!Request /\ Obj \in {None} \cup Body
<1> SUFFICES ASSUME HopTypeOK
             PROVE  Asked \subseteq Cas!Request /\ Obj \in {None} \cup Body
  OBVIOUS
<1>1. net \subseteq Requests /\ ToSet(queue) \subseteq Requests /\ store.ask \in Requests
  BY Elements DEF HopTypeOK
<1>2. \A r \in Requests : [over |-> r.over, body |-> r.body] \in Cas!Request
  BY DEF Requests, Object, Cas!Request
<1>3. store.was \in Object /\ Current \in Object
  BY ReadType DEF HopTypeOK
<1> QED
  BY <1>1, <1>2, <1>3 DEF Asked, Writes, Obj, Object

\* A step that leaves the object alone is a question or nothing.
LEMMA AskStep ==
  ASSUME HopTypeOK', UNCHANGED <<Obj, faults>>
  PROVE  Cas!CasNext
<1>1. Asked' \subseteq Cas!Request
  <2>1. HopTypeOK' => (Asked \subseteq Cas!Request)'
    BY AskedType, PTL
  <2> QED
    BY <2>1 DEF Cas!Request
<1> QED
  BY <1>1 DEF Cas!CasNext, Cas!Ask

\* A step that changes the object to what a write asked over the object as it was.
LEMMA ApplyStep ==
  ASSUME HopTypeOK', NEW r \in Writes, r.over = Obj, Obj' = r.body, UNCHANGED faults
  PROVE  Cas!CasNext
<1>1. Asked' \subseteq Cas!Request
  <2>1. HopTypeOK' => (Asked \subseteq Cas!Request)'
    BY AskedType, PTL
  <2> QED
    BY <2>1 DEF Cas!Request
<1> DEFINE q == [over |-> r.over, body |-> r.body]
<1>2. q \in Asked /\ q.over = Obj /\ Obj' = q.body
  BY DEF Asked
<1> QED
  BY <1>1, <1>2 DEF Cas!CasNext, Cas!Apply

\* A step in which the store fails.
LEMMA FaultStep ==
  ASSUME HopTypeOK', faults' = faults + 1
  PROVE  Cas!CasNext
<1>1. Asked' \subseteq Cas!Request /\ Obj' \in {None} \cup Body
  <2>1. HopTypeOK' => (Asked \subseteq Cas!Request /\ Obj \in {None} \cup Body)'
    BY AskedType, PTL
  <2> QED
    BY <2>1 DEF Cas!Request
<1> QED
  BY <1>1 DEF Cas!CasNext, Cas!Fault

\* Every step of the store is a step of the register.
LEMMA CasStep ==
  ASSUME HopTypeOK, HopTypeOK', Phases, HopNext
  PROVE  Cas!CasNext
<1>t. queue \in Seq(Requests) /\ ToSet(queue) \subseteq Requests /\ store.ask \in Requests
      /\ disk \in [cur : Object \cup {Torn}, old : Object \cup {Torn}, hidden : BOOLEAN]
  BY Elements DEF HopTypeOK
<1>i. IdleStore.phase = "idle"
  BY IdleType
<1>1. ASSUME NEW r \in net, Accept(r) PROVE Cas!CasNext
  BY <1>1, AskStep DEF Accept, Obj, Current
<1>2. CASE StoreTake
  <2> DEFINE r == Head(queue)
  <2>1. /\ r \in Requests /\ queue # <<>> /\ store.phase = "idle" /\ UNCHANGED faults
    BY <1>2, TakeCases
  <2>2. r \in ToSet(queue) /\ r.body \in Object
    BY <1>t, <2>1, Elements, RequestFields
  <2>3. Obj = Current
    BY <2>1 DEF Obj
  <2>4. CASE UNCHANGED <<disk, store>>
    BY <2>1, <2>4, AskStep DEF Obj, Current
  <2>5. CASE r.op \in {"put", "delete"} /\ r.over = Current /\ UNCHANGED store /\ disk'.cur = r.body
    <3>1. Obj' = r.body
      BY <2>1, <2>2, <2>5, Objects DEF Obj, Current
    <3>2. r \in Writes
      BY <2>2, <2>5 DEF Writes
    <3> QED
      BY <2>1, <2>3, <2>5, <3>1, <3>2, ApplyStep
  <2>6. CASE \E phase \in {"sync", "torn"} : store' = [phase |-> phase, was |-> Current, ask |-> r]
    <3>1. Obj' = Current
      BY <2>6 DEF Obj
    <3> QED
      BY <2>1, <2>3, <3>1, AskStep
  <2>7. CASE store' = [phase |-> "tmp", was |-> Current, ask |-> r] /\ disk' = disk
    <3>1. Obj' = Current
      BY <2>7 DEF Obj, Current
    <3> QED
      BY <2>1, <2>3, <3>1, AskStep
  <2> QED
    BY <1>2, <2>4, <2>5, <2>6, <2>7, TakeCases
<1>3. CASE Rename
  <2>1. Obj = Current /\ Current = store.was
    BY <1>3 DEF Rename, Obj, Phases
  <2>2. Obj' = Obj
    <3>1. CASE store' = [store EXCEPT !.phase = "sync"]
      <4>1. store'.phase = "sync" /\ store'.was = store.was
        BY <3>1 DEF HopTypeOK
      <4> QED
        BY <2>1, <4>1 DEF Obj
    <3>2. CASE store' = IdleStore /\ UNCHANGED disk
      BY <1>i, <2>1, <3>2 DEF Obj, Current
    <3> QED
      BY <1>3, <3>1, <3>2 DEF Rename
  <2> QED
    BY <1>3, <2>2, AskStep DEF Rename
<1>4. CASE SyncDir
  <2>1. disk'.cur = disk.cur /\ store' = IdleStore /\ store.phase = "sync" /\ UNCHANGED faults
    BY <1>4, <1>t DEF SyncDir
  <2>2. /\ Obj = store.ask.over /\ disk.cur = store.ask.body /\ store.ask.body \in Object
        /\ store.ask \in Writes
    BY <1>t, <2>1, RequestFields DEF Obj, Phases, Writes
  <2>3. Obj' = store.ask.body
    BY <1>i, <2>1, <2>2, Objects DEF Obj, Current
  <2> QED
    BY <2>1, <2>2, <2>3, ApplyStep
<1>5. CASE Replace
  <2>1. store' = IdleStore /\ store.phase = "torn"
    BY <1>5 DEF Replace
  <2>2. Obj = store.ask.over /\ store.ask.body \in Object /\ store.ask \in Writes
    BY <1>t, <2>1, RequestFields DEF Obj, Phases, Writes
  <2>3. CASE disk' = [disk EXCEPT !.cur = store.ask.body] /\ UNCHANGED faults
    <3>1. disk'.cur = store.ask.body
      BY <1>t, <2>3
    <3>2. Obj' = store.ask.body
      BY <1>i, <2>1, <2>2, <3>1, Objects DEF Obj, Current
    <3> QED
      BY <2>2, <2>3, <3>2, ApplyStep
  <2>4. CASE faults' = faults + 1
    BY <2>4, FaultStep
  <2> QED
    BY <1>5, <2>3, <2>4 DEF Replace
<1>6. CASE Commit
  <2>1. disk'.cur = disk.cur /\ UNCHANGED <<store, faults>>
    BY <1>6, <1>t DEF Commit
  <2> QED
    BY <2>1, AskStep DEF Obj, Current
<1>7. ASSUME NEW i \in 1..MaxCalls, StoreLate(i) PROVE Cas!CasNext
  BY <1>7, AskStep DEF StoreLate, Obj, Current
<1>8. CASE Crash
  BY <1>8, FaultStep DEF Crash
<1>9. CASE GhostAppears
  <2>1. disk'.cur = disk.cur /\ UNCHANGED <<store, faults>>
    BY <1>9, <1>t DEF GhostAppears
  <2> QED
    BY <2>1, AskStep DEF Obj, Current
<1>10. ASSUME NEW c \in Client, GiveUp(c) PROVE Cas!CasNext
  <2>1. store'.phase = store.phase /\ store'.was = store.was /\ UNCHANGED <<disk, faults>>
    BY <1>10 DEF GiveUp, HopTypeOK
  <2> QED
    BY <2>1, AskStep DEF Obj, Current
<1>11. ASSUME NEW c \in Client, Claim(c) \/ Renew(c) \/ Release(c) \/ Answered(c) PROVE Cas!CasNext
  <2>1. UNCHANGED <<disk, store, faults>>
    BY <1>11 DEF Claim, Renew, Release, Answered, Quiet
  <2> QED
    BY <2>1, AskStep DEF Obj, Current
<1>12. CASE Tick
  BY <1>12, AskStep DEF Tick, Obj, Current
<1> QED
  BY <1>1, <1>2, <1>3, <1>4, <1>5, <1>6, <1>7, <1>8, <1>9, <1>10, <1>11, <1>12
     DEF HopNext, ServerStep, ClientStep

\* The store starts empty, with nothing asked.
LEMMA HopInitCas == HopInit => Phases /\ Cas!CasInit
<1> SUFFICES ASSUME HopInit
             PROVE  Phases /\ Cas!CasInit
  OBVIOUS
<1>1. net = {} /\ ToSet(queue) = {} /\ store = IdleStore /\ disk.cur = None /\ faults = 0
  BY DEF HopInit, ToSet
<1>2. store.phase = "idle" /\ store.ask.op = "get"
  BY <1>1, IdleType
<1>3. Phases
  BY <1>1, <1>2 DEF Phases
<1>4. Obj = None
  BY <1>1, <1>2 DEF Obj, Current
<1>5. Asked = {}
  BY <1>1, <1>2 DEF Asked, Writes
<1> QED
  BY <1>1, <1>3, <1>4, <1>5 DEF Cas!CasInit

\* The server, the disk, the bucket and the clients keep their types.
THEOREM HopTypeCorrect == HopSpec => []HopTypeOK
  BY HopInitType, HopTypeStep, PTL DEF HopSpec

\* What a client sees is whole, by its type.
LEMMA Whole == HopTypeOK => ServesWholeRecords
<1> SUFFICES ASSUME HopTypeOK, NEW c \in Client
             PROVE  answer[c].body # Torn /\ cl[c].over # Torn
  BY DEF ServesWholeRecords
<1>1. answer[c].body \in Object /\ cl[c].over \in Object
  BY ClientFields DEF HopTypeOK, Answers
<1> QED
  BY <1>1, Objects

\* A client never sees a record that was cut off, though the disk may hold one.
THEOREM WholeRecords == HopSpec => []ServesWholeRecords
  BY Whole, HopTypeCorrect, PTL

\* File store, volume store and bucket implement the compare-and-swap register:
\* the object changes only by a request that named it as it was.
THEOREM StoreIsCas == HopSpec => ImplementsCas
<1>1. HopTypeOK /\ HopTypeOK' /\ Phases /\ [HopNext]_hopVars => [Cas!CasNext]_(Cas!casVars)
  <2> SUFFICES ASSUME HopTypeOK, HopTypeOK', Phases, [HopNext]_hopVars
               PROVE  [Cas!CasNext]_(Cas!casVars)
    OBVIOUS
  <2>1. CASE HopNext
    BY <2>1, CasStep
  <2>2. CASE UNCHANGED hopVars
    BY <2>2 DEF hopVars, Cas!casVars, Obj, Current, Asked, Writes
  <2> QED
    BY <2>1, <2>2
<1> QED
  BY <1>1, HopInitType, HopTypeStep, HopInitCas, PhasesStep, PTL
     DEF HopSpec, ImplementsCas, Cas!CasSpec

-----------------------------------------------------------------------------
(* One node believes *)

PutStage == {"put", "bare", "ghost", "ghostbare"}
DelStage == {"delete", "delbare"}

\* The requests that are under way, wherever they are.
Pending == net \cup ToSet(queue) \cup {store.ask}

\* A record runs out within a term, by the clock of the node it names.
Timely(b) == b \in Body => b.until <= Clock(b.by) + TTL

\* What may be written over: nothing, one's own older record, an expired one.
Fits(o, b) == o # None => (o.by = b.by /\ o.until <= b.until) \/ o.until < now + SEC

\* What a request asks for, whoever still waits for it: a write over what fits,
\* or the end of a record that its node gave up.
Sound(r) ==
  /\ Timely(r.over) /\ Timely(r.body)
  /\ r.op = "put" => r.body \in Body /\ Fits(r.over, r.body)
  /\ r.op = "delete" => r.body = None /\ r.over \in Body /\ r.over.until <= cl[r.over.by].left + TTL

\* A client that waits for a request is where it asked it.
Match(r) ==
  r.from \in Client =>
    /\ answer[r.from] = NoAnswer
    /\ r.op = "get" => cl[r.from].stage = "read"
    /\ r.op = "head" => cl[r.from].stage = "head"
    /\ r.op = "put" => cl[r.from].stage \in PutStage /\ cl[r.from].body = r.body
    /\ r.op = "delete" => cl[r.from].stage \in DelStage

\* A client waits for one request.
Sole ==
  /\ \A r, q \in net : r.from \in Client /\ r.from = q.from => r = q
  /\ \A i, j \in DOMAIN queue : queue[i].from \in Client /\ queue[i].from = queue[j].from => i = j
  /\ \A r \in net, i \in DOMAIN queue : r.from \in Client => r.from # queue[i].from
  /\ \A r \in net : store.ask.from \in Client => r.from # store.ask.from
  /\ \A i \in DOMAIN queue : store.ask.from \in Client => queue[i].from # store.ask.from

\* What each kind of store does, and what is on its disk.
Kinds ==
  /\ store.phase = "idle" => store.ask.from = Nobody
  /\ store.phase \in {"tmp", "sync"} => kind = "file"
  /\ store.phase = "torn" => kind = "volume"
  /\ store.phase \in {"tmp", "torn"} => store.ask.op = "put"
  /\ Timely(disk.cur) /\ Timely(disk.old)

\* A record of c that runs longer than whatever c had when it last gave up.
Own(c, left, b) == b \in Body /\ b.by = c /\ Timely(b) /\ b.until > left + TTL

\* What a client holds, asks and is told: the client c as k, with the answer a.
Fine(c, k, a) ==
  /\ k.left <= Clock(c)
  /\ k.handle # None => Own(c, k.left, k.handle)
  /\ k.stage = "idle" => a = NoAnswer
  /\ k.stage \in PutStage \cup {"head"} => Own(c, k.left, k.body)
  /\ k.stage \in PutStage => Timely(k.over) /\ Fits(k.over, k.body)
  /\ k.stage \in DelStage => k.over \in Body /\ k.over.by = c /\ Timely(k.over) /\ k.over.until <= k.left + TTL
  /\ k.stage = "read" => Clock(c) > k.left
  /\ k.ghost.etag # None => k.ghost.etag.until < k.ghost.since + TTL + SEC
  /\ a.status = 200 => a.body \in Body /\ Timely(a.body)
  /\ a.status = 200 /\ k.stage \in PutStage => a.body = k.body

ClientOK(c) == Fine(c, cl[c], answer[c])

\* A lease that a client has, or is about to be told of.
Token(c, h) ==
  \/ h = cl[c].handle
  \/ answer[c].status = 200 /\ cl[c].stage \in PutStage /\ h = answer[c].body

\* The record b carries the lease h of c.
Carries(c, h, b) == b \in Body /\ b.by = c /\ b.until >= h.until

\* A lease that still runs is in the object, and survives a power cut.
Stands(c, h) ==
  /\ Carries(c, h, Obj)
  /\ kind = "file" => Carries(c, h, disk.old)
  /\ store.phase = "sync" => Carries(c, h, disk.cur)

\* The leases that still run, unless the volume has lost a record.
Runs(c, h) == Token(c, h) /\ now + SEC <= h.until /\ ~(kind = "volume" /\ faults > 0)

Kept == \A c \in Client : \A h \in Body : Runs(c, h) => Stands(c, h)

Asking == \A r \in Pending : Sound(r) /\ Match(r)
ClientsOK == \A c \in Client : ClientOK(c)

\* The inductive invariant.
HopIInv == HopTypeOK /\ Phases /\ Asking /\ Sole /\ Kinds /\ ClientsOK /\ Kept

\* The clock of a node lags by less than a second.
LEMMA ClockLag ==
  ASSUME now \in 0..MaxTime, NEW c
  PROVE  Clock(c) <= now /\ now < Clock(c) + SEC
<1>1. now % SEC \in 0..(SEC - 1)
  OBVIOUS
<1> QED
  BY <1>1 DEF Clock

\* And does not go back.
LEMMA ClockOn ==
  ASSUME now \in 0..MaxTime, now' = now \/ now' = now + 1, NEW c
  PROVE  Clock(c) <= Clock(c)' /\ Clock(c) \in Int /\ Clock(c)' \in Int
<1>1. now - (now % SEC) <= (now + 1) - ((now + 1) % SEC)
  OBVIOUS
<1>2. now % SEC \in Int /\ (now + 1) % SEC \in Int
  OBVIOUS
<1> QED
  BY <1>1, <1>2 DEF Clock

\* A record.
LEMMA BodyFields ==
  ASSUME NEW b \in Body
  PROVE  b.by \in Client /\ b.until \in Nat /\ b # None /\ b # Torn /\ b \in Object
<1>1. b.by \in Client /\ b.until \in 0..(MaxTime + TTL)
  BY DEF Body
<1>2. b.by # "none" /\ b.by # "torn"
  BY <1>1
<1> QED
  BY <1>1, <1>2 DEF None, Torn, Object

\* Time does not spoil what a request asks for.
LEMMA SoundOn ==
  ASSUME now \in 0..MaxTime, now' = now \/ now' = now + 1,
         cl \in [Client -> Clients], cl' \in [Client -> Clients],
         \A c \in Client : cl[c].left <= cl'[c].left
  PROVE  /\ \A b : Timely(b) => Timely(b)'
         /\ \A o \in Object : \A b : Fits(o, b) => Fits(o, b)'
         /\ \A r \in Requests : Sound(r) => Sound(r)'
<1>1. ASSUME NEW b, Timely(b) PROVE Timely(b)'
  <2>1. Clock(b.by) <= Clock(b.by)' /\ Clock(b.by) \in Int /\ Clock(b.by)' \in Int
    BY ClockOn
  <2>2. CASE b \in Body
    <3>1. b.until \in Nat /\ b.until <= Clock(b.by) + TTL
      BY <1>1, <2>2, BodyFields DEF Timely
    <3>2. b.until <= Clock(b.by)' + TTL
      BY <2>1, <3>1
    <3> QED
      BY <3>2 DEF Timely
  <2>3. CASE b \notin Body
    BY <2>3 DEF Timely
  <2> QED
    BY <2>2, <2>3
<1>2. ASSUME NEW o \in Object, NEW b, Fits(o, b) PROVE Fits(o, b)'
  <2>1. CASE o = None
    BY <2>1 DEF Fits
  <2>2. CASE o \in Body
    <3>1. o.until \in Nat
      BY <2>2, BodyFields
    <3> QED
      BY <1>2, <3>1 DEF Fits
  <2> QED
    BY <2>1, <2>2 DEF Object
<1>3. ASSUME NEW r \in Requests, Sound(r) PROVE Sound(r)'
  <2>1. r.over \in Object
    BY RequestFields
  <2>2. Timely(r.over)' /\ Timely(r.body)'
    BY <1>1, <1>3 DEF Sound
  <2>3. r.op = "put" => r.body \in Body /\ Fits(r.over, r.body)'
    BY <1>2, <1>3, <2>1 DEF Sound
  <2>4. ASSUME r.op = "delete" PROVE r.body = None /\ r.over \in Body /\ r.over.until <= cl'[r.over.by].left + TTL
    <3>1. r.body = None /\ r.over \in Body /\ r.over.until <= cl[r.over.by].left + TTL
      BY <1>3, <2>4 DEF Sound
    <3>2. r.over.by \in Client /\ r.over.until \in Nat
      BY <3>1, BodyFields
    <3>3. cl[r.over.by].left \in -1..MaxTime /\ cl'[r.over.by].left \in -1..MaxTime
      BY <3>2, ClientFields
    <3>4. cl[r.over.by].left <= cl'[r.over.by].left
      BY <3>2
    <3> QED
      BY <3>1, <3>2, <3>3, <3>4
  <2> QED
    BY <2>2, <2>3, <2>4 DEF Sound
<1> QED
  BY <1>1, <1>2, <1>3

\* A client that is told something.
LEMMA Told ==
  ASSUME HopTypeOK, ClientsOK, UNCHANGED <<now, cl>>, NEW r \in Requests, Match(r),
         NEW a \in Answers, Reply(r.from, a),
         a.status = 200 => /\ a.body \in Body /\ Timely(a.body)
                           /\ r.op \in {"get", "head"} \/ (r.op = "put" /\ a.body = r.body)
  PROVE  /\ ClientsOK'
         /\ \A c \in Client : c = r.from \/ answer'[c] = answer[c]
         /\ \A c \in Client : \A h : Token(c, h)' =>
              \/ Token(c, h)
              \/ c = r.from /\ a.status = 200 /\ r.op = "put" /\ h = r.body
<1>1. /\ r.op \in {"get", "put", "delete", "head"} /\ r.from \in Client \cup {Nobody}
  BY RequestFields
<1>2. ASSUME NEW c \in Client, c # r.from PROVE answer'[c] = answer[c]
  BY <1>2 DEF Reply, HopTypeOK
<1>3. ASSUME r.from \in Client PROVE answer'[r.from] = a
  BY <1>3 DEF Reply, HopTypeOK
<1>4. ASSUME NEW c \in Client PROVE ClientOK(c)'
  <2>1. ClientOK(c)
    BY DEF ClientsOK
  <2>2. CASE c # r.from
    BY <1>2, <2>1, <2>2 DEF ClientOK, Fine, Own, Timely, Fits, Clock
  <2>3. CASE c = r.from
    <3>1. cl[c].stage # "idle" /\ answer'[c] = a /\ (cl[c].stage \in PutStage => r.op = "put" /\ r.body = cl[c].body)
      BY <1>1, <1>3, <2>3 DEF Match, PutStage, DelStage
    <3>2. /\ a.status = 200 => a.body \in Body /\ Timely(a.body)
          /\ a.status = 200 /\ cl[c].stage \in PutStage => a.body = cl[c].body
      BY <3>1
    <3> QED
      BY <2>1, <3>1, <3>2 DEF ClientOK, Fine, Own, Timely, Fits, Clock
  <2> QED
    BY <2>2, <2>3
<1>5. ASSUME NEW c \in Client, NEW h, Token(c, h)', ~Token(c, h)
      PROVE  c = r.from /\ a.status = 200 /\ r.op = "put" /\ h = r.body
  <2>1. answer'[c].status = 200 /\ cl[c].stage \in PutStage /\ h = answer'[c].body /\ answer'[c] # answer[c]
    BY <1>5 DEF Token
  <2>2. c = r.from /\ answer'[c] = a
    BY <1>2, <1>3, <2>1
  <2>3. r.op = "put" /\ r.body = cl[c].body
    BY <1>1, <2>1, <2>2 DEF Match, PutStage, DelStage
  <2> QED
    BY <2>1, <2>2, <2>3
<1> QED
  BY <1>2, <1>4, <1>5 DEF ClientsOK

\* Requests that stay, or that nobody waits for any more.
LEMMA AskingFewer ==
  ASSUME HopTypeOK, Asking, now' = now \/ now' = now + 1, cl' \in [Client -> Clients],
         \A c \in Client : cl[c].left <= cl'[c].left,
         \A r \in Pending' :
           \/ /\ r \in Pending
              /\ r.from \in Client => answer'[r.from] = answer[r.from] /\ cl'[r.from] = cl[r.from]
           \/ r \in Requests /\ r.from = Nobody /\ Sound(r)
  PROVE  Asking'
<1>1. Pending \subseteq Requests
  BY Elements DEF HopTypeOK, Pending
<1>2. \A r \in Requests : Sound(r) => Sound(r)'
  BY SoundOn DEF HopTypeOK
<1>3. \A r \in Pending' : Sound(r)'
  BY <1>1, <1>2 DEF Asking
<1>4. ASSUME NEW r \in Pending' PROVE Match(r)'
  <2>1. CASE r.from \in Client
    <3>1. r \in Pending /\ answer'[r.from] = answer[r.from] /\ cl'[r.from] = cl[r.from]
      BY <2>1
    <3>2. Match(r)
      BY <3>1 DEF Asking
    <3> QED
      BY <3>1, <3>2 DEF Match
  <2>2. CASE r.from \notin Client
    BY <2>2 DEF Match
  <2> QED
    BY <2>1, <2>2
<1> QED
  BY <1>3, <1>4 DEF Asking

\* Fewer requests that a client waits for.
LEMMA SoleFewer ==
  ASSUME Sole, \A r \in net' : r \in net \/ r.from = Nobody,
         \A i \in DOMAIN queue' : i \in DOMAIN queue /\ queue'[i].from \in {queue[i].from, Nobody},
         store'.ask.from \in {store.ask.from, Nobody}
  PROVE  Sole'
<1>1. \A r, q \in net' : r.from \in Client /\ r.from = q.from => r = q
  BY DEF Sole
<1>2. \A i, j \in DOMAIN queue' : queue'[i].from \in Client /\ queue'[i].from = queue'[j].from => i = j
  <2> SUFFICES ASSUME NEW i \in DOMAIN queue', NEW j \in DOMAIN queue',
                      queue'[i].from \in Client, queue'[i].from = queue'[j].from
               PROVE  i = j
    OBVIOUS
  <2>1. i \in DOMAIN queue /\ j \in DOMAIN queue /\ queue'[i].from = queue[i].from /\ queue'[j].from = queue[j].from
    OBVIOUS
  <2> QED
    BY <2>1 DEF Sole
<1>3. \A r \in net', i \in DOMAIN queue' : r.from \in Client => r.from # queue'[i].from
  <2> SUFFICES ASSUME NEW r \in net', NEW i \in DOMAIN queue', r.from \in Client, r.from = queue'[i].from
               PROVE  FALSE
    OBVIOUS
  <2>1. r \in net /\ i \in DOMAIN queue /\ queue'[i].from = queue[i].from
    OBVIOUS
  <2> QED
    BY <2>1 DEF Sole
<1>4. \A r \in net' : store'.ask.from \in Client => r.from # store'.ask.from
  BY DEF Sole
<1>5. \A i \in DOMAIN queue' : store'.ask.from \in Client => queue'[i].from # store'.ask.from
  BY DEF Sole
<1> QED
  BY <1>1, <1>2, <1>3, <1>4, <1>5 DEF Sole

\* A request goes from the net to the queue.
LEMMA SoleAccept ==
  ASSUME HopTypeOK, Sole, NEW r \in net, net' = net \ {r}, queue' = Append(queue, r), UNCHANGED store
  PROVE  Sole'
<1> DEFINE n == Len(queue)
<1>1. queue \in Seq(Requests) /\ r \in Requests
  BY DEF HopTypeOK
<1>2. DOMAIN queue = 1..n /\ n \in Nat
  BY <1>1, Sequence
<1>3. DOMAIN queue' = 1..(n + 1)
  BY <1>1
<1>4. queue'[n + 1] = r /\ \A i \in 1..n : queue'[i] = queue[i]
  BY <1>1, Appended
<1>5. \A i \in 1..(n + 1) : i \in 1..n \/ i = n + 1
  BY <1>2
<1> HIDE DEF n
<1>6. \A i \in 1..(n + 1) : \/ i = n + 1 /\ queue'[i] = r
                            \/ i \in DOMAIN queue /\ queue'[i] = queue[i]
  BY <1>2, <1>4, <1>5
<1>7. \A q \in net' : q \in net /\ q # r
  OBVIOUS
<1>8. \A i, j \in DOMAIN queue' : queue'[i].from \in Client /\ queue'[i].from = queue'[j].from => i = j
  BY <1>3, <1>6 DEF Sole
<1>9. \A q \in net', i \in DOMAIN queue' : q.from \in Client => q.from # queue'[i].from
  BY <1>3, <1>6, <1>7 DEF Sole
<1>10. \A i \in DOMAIN queue' : store'.ask.from \in Client => queue'[i].from # store'.ask.from
  BY <1>3, <1>6 DEF Sole
<1> QED
  BY <1>7, <1>8, <1>9, <1>10 DEF Sole

\* A request goes from the queue to the store thread, or is done.
LEMMA SoleTake ==
  ASSUME HopTypeOK, Sole, queue # <<>>, queue' = Tail(queue), UNCHANGED net,
         store' = store \/ store'.ask = Head(queue)
  PROVE  Sole' /\ \A r \in net' \cup ToSet(queue') : Head(queue).from \in Client => r.from # Head(queue).from
<1> DEFINE n == Len(queue)
<1>1. queue \in Seq(Requests)
  BY DEF HopTypeOK
<1>2. DOMAIN queue = 1..n /\ n \in Nat \ {0} /\ Head(queue) = queue[1] /\ Tail(queue) \in Seq(Requests)
  BY <1>1, Sequence, Tailed
<1>3. DOMAIN queue' = 1..(n - 1) /\ \A i \in 1..(n - 1) : queue'[i] = queue[i + 1]
  BY <1>1, <1>2, Tailed, Sequence
<1>4. ToSet(queue') = {queue'[i] : i \in 1..(n - 1)}
  BY <1>3 DEF ToSet
<1>5. 1 \in 1..n /\ \A i \in 1..(n - 1) : i + 1 \in 1..n /\ i + 1 # 1
  BY <1>2
<1>d. \A i, j \in 1..(n - 1) : i + 1 = j + 1 => i = j
  BY <1>2
<1> HIDE DEF n
<1>6. \A i, j \in DOMAIN queue' : queue'[i].from \in Client /\ queue'[i].from = queue'[j].from => i = j
  <2> SUFFICES ASSUME NEW i \in 1..(n - 1), NEW j \in 1..(n - 1),
                      queue'[i].from \in Client, queue'[i].from = queue'[j].from
               PROVE  i = j
    BY <1>3
  <2>1. i + 1 \in DOMAIN queue /\ j + 1 \in DOMAIN queue /\ queue'[i] = queue[i + 1] /\ queue'[j] = queue[j + 1]
    BY <1>2, <1>3, <1>5
  <2>2. i + 1 = j + 1
    BY <2>1 DEF Sole
  <2> QED
    BY <1>d, <2>2
<1>7. \A r \in net', i \in DOMAIN queue' : r.from \in Client => r.from # queue'[i].from
  BY <1>2, <1>3, <1>5 DEF Sole
<1>8. \A i \in DOMAIN queue' : Head(queue).from \in Client => queue'[i].from # Head(queue).from
  BY <1>2, <1>3, <1>5 DEF Sole
<1>9. \A r \in net' : Head(queue).from \in Client => r.from # Head(queue).from
  BY <1>2, <1>5 DEF Sole
<1>10. \A i \in DOMAIN queue' : store'.ask.from \in Client => queue'[i].from # store'.ask.from
  <2>1. CASE store' = store
    BY <1>2, <1>3, <1>5, <2>1 DEF Sole
  <2>2. CASE store'.ask = Head(queue)
    BY <1>8, <2>2
  <2> QED
    BY <2>1, <2>2
<1>11. \A r \in net' : store'.ask.from \in Client => r.from # store'.ask.from
  BY <1>9 DEF Sole
<1>12. Sole'
  BY <1>6, <1>7, <1>10, <1>11 DEF Sole
<1>13. \A r \in ToSet(queue') : Head(queue).from \in Client => r.from # Head(queue).from
  BY <1>3, <1>4, <1>8
<1> QED
  BY <1>9, <1>12, <1>13

\* A client that waits for nothing asks something.
LEMMA SoleCall ==
  ASSUME Sole, NEW q, net' = net \cup {q}, UNCHANGED <<queue, store>>,
         \A i \in DOMAIN queue : queue[i].from # q.from,
         \A r \in net : r.from # q.from, store.ask.from # q.from
  PROVE  Sole'
  BY DEF Sole

\* A write that fits carries on a lease that still runs.
LEMMA CarriesOn ==
  ASSUME now \in 0..MaxTime, NEW c \in Client, NEW h \in Body, now + SEC <= h.until, NEW o, NEW b \in Body,
         Carries(c, h, o), Fits(o, b)
  PROVE  Carries(c, h, b)
<1>1. /\ o \in Body /\ o.by = c /\ o.until >= h.until /\ o # None
      /\ h.until \in Nat /\ o.until \in Nat /\ b.until \in Nat
  BY BodyFields DEF Carries
<1>2. ~(o.until < now + SEC)
  BY <1>1
<1>3. o.by = b.by /\ o.until <= b.until
  BY <1>1, <1>2 DEF Fits
<1> QED
  BY <1>1, <1>3 DEF Carries

\* The lease that a client has, or is about to be told of, is its own.
LEMMA TokenOwn ==
  ASSUME ClientsOK, NEW c \in Client, NEW h \in Body, Token(c, h)
  PROVE  Own(c, cl[c].left, h)
<1>1. h # None
  BY BodyFields
<1>2. ClientOK(c)
  BY DEF ClientsOK
<1> QED
  BY <1>1, <1>2 DEF Token, ClientOK, Fine

\* A delete never finds a lease that still runs.
LEMMA NothingRuns ==
  ASSUME HopTypeOK, ClientsOK, Kept, NEW r \in Requests, Sound(r), r.op = "delete", r.over = Obj,
         NEW c \in Client, NEW h \in Body, Runs(c, h)
  PROVE  FALSE
<1>1. Own(c, cl[c].left, h) /\ Carries(c, h, Obj)
  BY TokenOwn DEF Runs, Kept, Stands
<1>2. r.over \in Body /\ r.over.by = c /\ r.over.until >= h.until /\ h.until > cl[c].left + TTL
      /\ r.over.until <= cl[c].left + TTL
  BY <1>1 DEF Own, Carries, Sound
<1>3. h.until \in Nat /\ r.over.until \in Nat /\ cl[c].left \in -1..MaxTime
  BY <1>2, BodyFields, ClientFields DEF HopTypeOK
<1> QED
  BY <1>2, <1>3

\* What is not told or changed stays as it was.
LEMMA Same ==
  ASSUME UNCHANGED <<now, cl, answer>>
  PROVE  /\ ClientsOK => ClientsOK'
         /\ \A c, h : Token(c, h)' = Token(c, h)
<1>1. ASSUME NEW c, ClientOK(c) PROVE ClientOK(c)'
  BY <1>1 DEF ClientOK, Fine, Own, Timely, Fits, Clock
<1>2. \A c, h : Token(c, h)' = Token(c, h)
  BY DEF Token
<1> QED
  BY <1>1, <1>2 DEF ClientsOK

\* The leases that run ran before, or are new.
LEMMA RunsBefore ==
  ASSUME HopTypeOK, UNCHANGED kind, now' = now \/ now' = now + 1, faults' = faults \/ faults' = faults + 1,
         NEW c, NEW h \in Body, Runs(c, h)', Token(c, h)
  PROVE  Runs(c, h)
<1>1. h.until \in Nat /\ now \in Nat /\ faults \in Nat
  BY BodyFields DEF HopTypeOK
<1>2. now' + SEC <= h.until /\ ~(kind = "volume" /\ faults' > 0)
  BY DEF Runs
<1>3. now + SEC <= h.until
  BY <1>1, <1>2
<1>4. ~(kind = "volume" /\ faults > 0)
  BY <1>1, <1>2
<1> QED
  BY <1>3, <1>4 DEF Runs

\* A step that leaves the store and its disk alone and tells nobody of a lease.
LEMMA KeptOn ==
  ASSUME HopTypeOK, Kept, UNCHANGED <<kind, disk, faults>>, now' = now \/ now' = now + 1,
         store'.phase = store.phase, store'.was = store.was,
         \A c \in Client : \A h \in Body : Token(c, h)' => Token(c, h)
  PROVE  Kept'
<1> SUFFICES ASSUME NEW c \in Client, NEW h \in Body, Runs(c, h)'
             PROVE  Stands(c, h)'
  BY DEF Kept
<1>1. Token(c, h)
  BY DEF Runs
<1>2. Runs(c, h)
  BY <1>1, RunsBefore
<1>3. Stands(c, h)
  BY <1>2 DEF Kept
<1> QED
  BY <1>3 DEF Stands, Carries, Obj, Current

\* What is under way, by type.
LEMMA PendingType ==
  ASSUME HopTypeOK
  PROVE  Pending \subseteq Requests /\ queue \in Seq(Requests) /\ net \subseteq Requests /\ store.ask \in Requests
         /\ DOMAIN queue = 1..Len(queue)
  BY Elements, Sequence DEF HopTypeOK, Pending

\* A worker refuses a request or hands it on.
LEMMA AcceptKeeps ==
  ASSUME HopIInv, NEW r \in net, Accept(r)
  PROVE  Asking' /\ Sole' /\ Kinds' /\ ClientsOK' /\ Kept'
<1> USE DEF HopIInv
<1>1. /\ net' = net \ {r} /\ UNCHANGED <<kind, now, disk, store, cl, faults>>
  BY DEF Accept
<1>2. r \in Requests /\ r \in Pending /\ Match(r)
  BY PendingType DEF Pending, Asking
<1>t. cl \in [Client -> Clients] /\ \A c \in Client : cl[c].left <= cl[c].left
  <2>1. ASSUME NEW c \in Client PROVE cl[c].left <= cl[c].left
    <3>1. cl[c].left \in -1..MaxTime
      BY ClientFields DEF HopTypeOK
    <3> QED
      BY <3>1
  <2> QED
    BY <2>1 DEF HopTypeOK
<1>3. Kinds'
  BY <1>1 DEF Kinds, Timely, Clock
<1>4. CASE Begin(r) # NoAnswer
  <2>1. Reply(r.from, Begin(r)) /\ UNCHANGED queue
    BY <1>4 DEF Accept
  <2>2. Begin(r) = Status(401)
    BY <1>4 DEF Begin
  <2>3. Begin(r) \in Answers /\ Begin(r).status # 200
    BY <2>2, StatusType DEF Status
  <2>4. /\ ClientsOK'
        /\ \A c \in Client : c = r.from \/ answer'[c] = answer[c]
        /\ \A c \in Client : \A h : Token(c, h)' => Token(c, h)
    BY <1>1, <1>2, <2>1, <2>3, Told
  <2>5. Kept'
    BY <1>1, <2>4, KeptOn
  <2>6. Sole'
    BY <1>1, <2>1, SoleFewer
  <2>7. ASSUME NEW q \in Pending'
        PROVE  q \in Pending /\ (q.from \in Client => answer'[q.from] = answer[q.from])
    <3>1. q \in net \ {r} \/ q \in ToSet(queue) \/ q = store.ask
      BY <1>1, <2>1 DEF Pending
    <3>2. q.from \in Client => q.from # r.from
      <4>1. CASE q \in net \ {r}
        BY <4>1 DEF Sole
      <4>2. CASE q \in ToSet(queue)
        BY <4>2 DEF Sole, ToSet
      <4>3. CASE q = store.ask
        BY <4>3 DEF Sole
      <4> QED
        BY <3>1, <4>1, <4>2, <4>3
    <3> QED
      BY <2>4, <3>1, <3>2 DEF Pending
  <2>8. Asking'
    BY <1>1, <1>t, <2>7, AskingFewer
  <2> QED
    BY <1>3, <2>4, <2>5, <2>6, <2>8
<1>5. CASE Begin(r) = NoAnswer
  <2>1. queue' = Append(queue, r) /\ UNCHANGED answer
    BY <1>5 DEF Accept
  <2>2. ClientsOK' /\ \A c, h : Token(c, h)' = Token(c, h)
    BY <1>1, <2>1, Same
  <2>3. Kept'
    BY <1>1, <2>2, KeptOn
  <2>4. Sole'
    BY <1>1, <2>1, SoleAccept
  <2>5. Pending' \subseteq Pending
    <3>1. ToSet(queue') = ToSet(queue) \cup {r}
      BY <1>2, <2>1, PendingType, Elements
    <3> QED
      BY <1>1, <3>1 DEF Pending
  <2>6. Asking'
    BY <1>1, <1>t, <2>1, <2>5, AskingFewer
  <2> QED
    BY <1>3, <2>2, <2>3, <2>4, <2>6
<1> QED
  BY <1>4, <1>5

\* Nobody gave a lease back.
LEMMA LeftSame ==
  ASSUME HopTypeOK, UNCHANGED cl
  PROVE  cl' \in [Client -> Clients] /\ \A c \in Client : cl[c].left <= cl'[c].left
<1>1. ASSUME NEW c \in Client PROVE cl[c].left <= cl[c].left
  <2>1. cl[c].left \in -1..MaxTime
    BY ClientFields DEF HopTypeOK
  <2> QED
    BY <2>1
<1> QED
  BY <1>1 DEF HopTypeOK

\* The store thread takes a request and answers it, or begins to write.
LEMMA TakeKeeps ==
  ASSUME HopIInv, StoreTake
  PROVE  Asking' /\ Sole' /\ Kinds' /\ ClientsOK' /\ Kept'
<1> USE DEF HopIInv
<1> DEFINE r == Head(queue)
<1>1. /\ r \in Requests /\ queue # <<>> /\ store.phase = "idle" /\ queue' = Tail(queue)
      /\ UNCHANGED <<kind, now, net, cl, faults>>
  BY TakeCases
<1>2. r \in ToSet(queue) /\ ToSet(queue') \subseteq ToSet(queue)
  BY <1>1, PendingType, Elements
<1>3. Sound(r) /\ Match(r) /\ r \in Pending
  BY <1>2 DEF Pending, Asking
<1>4. store.ask.from = Nobody /\ Obj = Current
  BY <1>1 DEF Kinds, Obj
<1>d. disk \in [cur : Object \cup {Torn}, old : Object \cup {Torn}, hidden : BOOLEAN]
  BY DEF HopTypeOK
<1>b. r.body \in Object /\ r.op \in {"get", "put", "delete", "head"}
  BY <1>1, RequestFields
<1>5. store' = store \/ store'.ask = r
  BY TakeCases
<1>6. Sole' /\ \A q \in net' \cup ToSet(queue') : r.from \in Client => q.from # r.from
  BY <1>1, <1>5, SoleTake
<1>7. ASSUME \A c \in Client : c = r.from \/ answer'[c] = answer[c],
             store' = store \/ (store'.ask = r /\ UNCHANGED answer)
      PROVE  Asking'
  <2>1. ASSUME NEW q \in Pending'
        PROVE  q \in Pending /\ (q.from \in Client => answer'[q.from] = answer[q.from])
    <3>1. q \in net' \/ q \in ToSet(queue') \/ q = store'.ask
      BY DEF Pending
    <3>2. CASE q \in net' \cup ToSet(queue')
      BY <1>1, <1>2, <1>6, <1>7, <3>2 DEF Pending
    <3>3. CASE q = store'.ask
      BY <1>3, <1>4, <1>7, <3>3 DEF Pending
    <3> QED
      BY <3>1, <3>2, <3>3
  <2> QED
    BY <1>1, <2>1, LeftSame, AskingFewer
<1>8. CASE /\ UNCHANGED <<disk, store>>
           /\ \E a \in Answers : /\ Reply(r.from, a)
                                 /\ a.status = 200 => /\ r.op \in {"get", "head"}
                                                      /\ a.body \in {Current, Shown} /\ a.body # None
  <2>1. PICK a \in Answers : /\ Reply(r.from, a)
                             /\ a.status = 200 => /\ r.op \in {"get", "head"}
                                                  /\ a.body \in {Current, Shown} /\ a.body # None
    BY <1>8
  <2>2. a.status = 200 => a.body \in Body /\ Timely(a.body)
    <3>1. a.body \in {Current, Shown} /\ a.body # None => a.body = disk.cur /\ a.body \in Body
      BY ReadType DEF Current, Shown, Object
    <3> QED
      BY <2>1, <3>1 DEF Kinds
  <2>3. /\ ClientsOK'
        /\ \A c \in Client : c = r.from \/ answer'[c] = answer[c]
        /\ \A c \in Client : \A h : Token(c, h)' => Token(c, h)
    <3> HIDE DEF r
    <3>1. /\ ClientsOK'
          /\ \A c \in Client : c = r.from \/ answer'[c] = answer[c]
          /\ \A c \in Client : \A h : Token(c, h)' =>
               \/ Token(c, h)
               \/ c = r.from /\ a.status = 200 /\ r.op = "put" /\ h = r.body
      BY <1>1, <1>3, <2>1, <2>2, Told
    <3> QED
      BY <2>1, <3>1
  <2>4. Kept'
    BY <1>1, <1>8, <2>3, KeptOn
  <2>5. Kinds'
    BY <1>1, <1>8 DEF Kinds, Timely, Clock
  <2> QED
    BY <1>6, <1>7, <1>8, <2>3, <2>4, <2>5
<1>9. CASE /\ kind # "file" /\ UNCHANGED store /\ r.op \in {"put", "delete"} /\ r.over = Current
           /\ disk' = [cur |-> r.body, old |-> IF kind = "s3" THEN r.body ELSE disk.old,
                       hidden |-> FALSE]
           /\ \E a \in Answers : /\ Reply(r.from, a)
                                 /\ a.status = 200 => r.op = "put" /\ a.body = r.body
  <2>1. PICK a \in Answers : /\ Reply(r.from, a)
                             /\ a.status = 200 => r.op = "put" /\ a.body = r.body
    BY <1>9
  <2>2. a.status = 200 => a.body \in Body /\ Timely(a.body)
    BY <1>3, <2>1 DEF Sound
  <2>3. /\ ClientsOK'
        /\ \A c \in Client : c = r.from \/ answer'[c] = answer[c]
        /\ \A c \in Client : \A h : Token(c, h)' =>
             \/ Token(c, h)
             \/ c = r.from /\ a.status = 200 /\ r.op = "put" /\ h = r.body
    <3> HIDE DEF r
    <3> QED
      BY <1>1, <1>3, <2>1, <2>2, Told
  <2>4. disk'.cur = r.body /\ disk'.old \in {r.body, disk.old}
    BY <1>9
  <2>5. Obj' = r.body
    BY <1>1, <1>9, <1>b, <2>4, Objects DEF Obj, Current
  <2>6. Kinds'
    <3>1. Timely(r.body) /\ Timely(disk.old)
      BY <1>3 DEF Kinds, Sound
    <3>2. (Timely(disk.cur) /\ Timely(disk.old))'
      BY <1>1, <2>4, <3>1 DEF Timely, Clock
    <3> QED
      BY <1>1, <1>9, <3>2 DEF Kinds
  <2>7. ASSUME NEW c \in Client, NEW h \in Body, Runs(c, h)' PROVE Stands(c, h)'
    <3>1. Carries(c, h, r.body)
      <4>1. CASE Token(c, h)
        <5>1. Runs(c, h)
          BY <1>1, <2>7, <4>1, RunsBefore
        <5>2. r.op = "put"
          BY <1>1, <1>3, <1>4, <1>9, <5>1, NothingRuns
        <5>3. r.body \in Body /\ Fits(Obj, r.body)
          BY <1>3, <1>4, <1>9, <5>2 DEF Sound
        <5>4. now + SEC <= h.until /\ Carries(c, h, Obj) /\ now \in 0..MaxTime
          BY <5>1 DEF Runs, Kept, Stands, HopTypeOK
        <5> HIDE DEF r
        <5> QED
          BY <5>3, <5>4, CarriesOn
      <4>2. CASE c = r.from /\ r.op = "put" /\ h = r.body
        <5>1. cl[c].stage \in PutStage /\ cl[c].body = r.body /\ ClientOK(c)
          BY <1>3, <4>2 DEF Match, ClientsOK
        <5>2. h \in Body /\ h.by = c /\ h.until \in Nat
          BY <4>2, <5>1, BodyFields DEF ClientOK, Fine, Own
        <5> QED
          BY <4>2, <5>2 DEF Carries
      <4> QED
        BY <2>3, <2>7, <4>1, <4>2 DEF Runs
    <3>2. kind' # "file" /\ store'.phase # "sync"
      BY <1>1, <1>9
    <3> QED
      BY <2>5, <3>1, <3>2 DEF Stands, Carries
  <2> QED
    BY <1>6, <1>7, <1>9, <2>3, <2>6, <2>7 DEF Kept
<1>10. CASE /\ UNCHANGED answer /\ r.over = Current
            /\ \/ /\ kind = "file" /\ r.op = "delete"
                  /\ store' = [phase |-> "sync", was |-> Current, ask |-> r]
                  /\ disk' = [disk EXCEPT !.cur = None]
               \/ /\ kind = "volume" /\ r.op = "put"
                  /\ store' = [phase |-> "torn", was |-> Current, ask |-> r]
                  /\ disk' = [disk EXCEPT !.cur = Torn]
               \/ /\ kind = "file" /\ r.op = "put"
                  /\ store' = [phase |-> "tmp", was |-> Current, ask |-> r]
                  /\ disk' = disk
  <2>1. ClientsOK' /\ \A c, h : Token(c, h)' = Token(c, h)
    BY <1>1, <1>10, Same
  <2>2. /\ disk'.old = disk.old /\ disk'.cur \in {disk.cur, None, Torn} /\ Obj' = Obj
        /\ store'.ask = r /\ store'.phase \in {"sync", "torn", "tmp"}
        /\ store'.phase = "sync" => kind = "file" /\ r.op = "delete"
        /\ store'.phase = "tmp" => kind = "file" /\ r.op = "put"
        /\ store'.phase = "torn" => kind = "volume" /\ r.op = "put"
    <3>1. CASE /\ kind = "file" /\ r.op = "delete"
               /\ store' = [phase |-> "sync", was |-> Current, ask |-> r]
               /\ disk' = [disk EXCEPT !.cur = None]
      BY <1>4, <1>d, <3>1 DEF Obj
    <3>2. CASE /\ kind = "volume" /\ r.op = "put"
               /\ store' = [phase |-> "torn", was |-> Current, ask |-> r]
               /\ disk' = [disk EXCEPT !.cur = Torn]
      BY <1>4, <1>d, <3>2 DEF Obj
    <3>3. CASE /\ kind = "file" /\ r.op = "put"
               /\ store' = [phase |-> "tmp", was |-> Current, ask |-> r]
               /\ disk' = disk
      BY <1>4, <1>d, <3>3 DEF Obj, Current
    <3> QED
      BY <1>10, <3>1, <3>2, <3>3
  <2>3. Kinds'
    <3>1. None \notin Body /\ Torn \notin Body
      BY BodyFields
    <3>2. (Timely(disk.cur) /\ Timely(disk.old))'
      BY <1>1, <2>2, <3>1 DEF Kinds, Timely, Clock
    <3> QED
      BY <1>1, <2>2, <3>2 DEF Kinds
  <2>4. ASSUME NEW c \in Client, NEW h \in Body, Runs(c, h)' PROVE Stands(c, h)'
    <3>1. Runs(c, h)
      BY <1>1, <2>1, <2>4, RunsBefore DEF Runs
    <3>2. Stands(c, h)
      BY <3>1 DEF Kept
    <3>3. store'.phase # "sync"
      BY <1>1, <1>3, <1>4, <1>10, <2>2, <3>1, NothingRuns
    <3> QED
      BY <1>1, <2>2, <3>2, <3>3 DEF Stands, Carries
  <2> QED
    BY <1>6, <1>7, <1>10, <2>1, <2>2, <2>3, <2>4 DEF Kept
<1> QED
  BY <1>8, <1>9, <1>10, TakeAnswers

\* Nobody waits for the store thread at rest.
LEMMA IdleAsk ==
  /\ IdleStore.phase = "idle" /\ IdleStore.ask.from = Nobody /\ IdleStore.ask \in Requests
  /\ Sound(IdleStore.ask)
<1> DEFINE r == [from |-> Nobody, op |-> "get", over |-> None, quoted |-> FALSE, body |-> None]
<1>1. r \in Requests /\ r.op = "get" /\ r.from = Nobody /\ r.over = None /\ r.body = None
  BY Objects DEF Requests
<1>2. None \notin Body
  BY BodyFields
<1>3. Sound(r)
  BY <1>1, <1>2 DEF Sound, Timely
<1>4. IdleStore.ask = r
  BY DEF IdleStore
<1> HIDE DEF r
<1> QED
  BY <1>1, <1>3, <1>4, IdleType

\* The store thread has done what it was asked, or failed.
LEMMA Finished ==
  ASSUME HopIInv, UNCHANGED <<now, cl, net, queue>>, store' = IdleStore,
         NEW a \in Answers, Reply(store.ask.from, a),
         a.status = 200 => store.ask.op = "put" /\ a.body = store.ask.body
  PROVE  /\ Asking' /\ Sole' /\ ClientsOK'
         /\ \A c \in Client : \A h : Token(c, h)' =>
              \/ Token(c, h)
              \/ c = store.ask.from /\ a.status = 200 /\ store.ask.op = "put" /\ h = store.ask.body
<1> USE DEF HopIInv
<1> DEFINE r == store.ask
<1>1. r \in Requests /\ r \in Pending
  BY PendingType DEF Pending
<1>2. Sound(r) /\ Match(r)
  BY <1>1 DEF Asking
<1>3. a.status = 200 => a.body \in Body /\ Timely(a.body)
  BY <1>2 DEF Sound
<1>4. /\ ClientsOK'
      /\ \A c \in Client : c = r.from \/ answer'[c] = answer[c]
      /\ \A c \in Client : \A h : Token(c, h)' =>
           \/ Token(c, h)
           \/ c = r.from /\ a.status = 200 /\ r.op = "put" /\ h = r.body
  <2>1. HopTypeOK /\ ClientsOK /\ Reply(r.from, a) /\ (a.status = 200 => r.op = "put" /\ a.body = r.body)
    OBVIOUS
  <2> HIDE DEF r
  <2> QED
    BY <1>1, <1>2, <1>3, <2>1, Told
<1>5. Sole'
  BY IdleAsk, SoleFewer
<1>6. ASSUME NEW q \in Pending'
      PROVE  \/ q \in Pending /\ (q.from \in Client => answer'[q.from] = answer[q.from])
             \/ q \in Requests /\ q.from = Nobody /\ Sound(q)
  <2>1. q \in net \/ q \in ToSet(queue) \/ q = IdleStore.ask
    BY DEF Pending
  <2>2. CASE q \in net
    BY <1>4, <2>2 DEF Sole, Pending
  <2>3. CASE q \in ToSet(queue)
    BY <1>4, <2>3 DEF Sole, Pending, ToSet
  <2>4. CASE q = IdleStore.ask
    BY <2>4, IdleAsk
  <2> QED
    BY <2>1, <2>2, <2>3, <2>4
<1>7. Asking'
  BY <1>6, LeftSame, AskingFewer
<1> QED
  BY <1>4, <1>5, <1>7

\* write_atomic, up to the rename.
LEMMA RenameKeeps ==
  ASSUME HopIInv, Rename
  PROVE  Asking' /\ Sole' /\ Kinds' /\ ClientsOK' /\ Kept'
<1> USE DEF HopIInv
<1>1. /\ store.phase = "tmp" /\ UNCHANGED <<kind, now, net, queue, cl, faults>>
  BY DEF Rename
<1>2. /\ kind = "file" /\ store.ask.op = "put" /\ store.ask.over = Obj /\ store.was = Obj
  BY <1>1 DEF Kinds, Phases, Obj
<1>3. store.ask \in Pending /\ store.ask \in Requests /\ Sound(store.ask)
  BY PendingType DEF Asking, Pending
<1>4. store.ask.body \in Body /\ Fits(Obj, store.ask.body) /\ Timely(store.ask.body)
  BY <1>2, <1>3 DEF Sound
<1>5. CASE /\ disk' = [disk EXCEPT !.cur = store.ask.body]
           /\ store' = [store EXCEPT !.phase = "sync"]
           /\ UNCHANGED answer
  <2>1. /\ disk'.cur = store.ask.body /\ disk'.old = disk.old
        /\ store'.phase = "sync" /\ store'.was = store.was /\ store'.ask = store.ask
    BY <1>5 DEF HopTypeOK
  <2>2. ClientsOK' /\ \A c, h : Token(c, h)' = Token(c, h)
    BY <1>1, <1>5, Same
  <2>3. Obj' = Obj
    BY <1>2, <2>1 DEF Obj
  <2>4. Sole'
    BY <1>1, <2>1, SoleFewer
  <2>5. Pending' = Pending
    BY <1>1, <2>1 DEF Pending
  <2>6. Asking'
    BY <1>1, <1>5, <2>5, LeftSame, AskingFewer
  <2>7. Kinds'
    BY <1>1, <1>2, <1>4, <2>1 DEF Kinds, Timely, Clock
  <2>8. ASSUME NEW c \in Client, NEW h \in Body, Runs(c, h)' PROVE Stands(c, h)'
    <3>1. Runs(c, h)
      BY <1>1, <2>2, <2>8, RunsBefore DEF Runs
    <3>2. Stands(c, h) /\ Carries(c, h, Obj) /\ now + SEC <= h.until /\ now \in 0..MaxTime
      BY <3>1 DEF Kept, Runs, Stands, HopTypeOK
    <3>3. Carries(c, h, store.ask.body)
      BY <1>4, <3>2, CarriesOn
    <3> QED
      BY <1>1, <2>1, <2>3, <3>2, <3>3 DEF Stands, Carries
  <2> QED
    BY <2>2, <2>4, <2>6, <2>7, <2>8 DEF Kept
<1>6. CASE Reply(store.ask.from, Status(500)) /\ store' = IdleStore /\ UNCHANGED disk
  <2>1. Status(500) \in Answers /\ Status(500).status # 200
    BY StatusType DEF Status
  <2>2. /\ Asking' /\ Sole' /\ ClientsOK'
        /\ \A c \in Client : \A h : Token(c, h)' => Token(c, h)
    BY <1>1, <1>6, <2>1, Finished
  <2>3. Obj' = Obj
    BY <1>1, <1>6, IdleAsk DEF Obj, Current
  <2>4. Kinds'
    BY <1>1, <1>6, IdleAsk DEF Kinds, Timely, Clock
  <2>5. ASSUME NEW c \in Client, NEW h \in Body, Runs(c, h)' PROVE Stands(c, h)'
    <3>1. Runs(c, h)
      BY <1>1, <2>2, <2>5, RunsBefore DEF Runs
    <3>2. Stands(c, h)
      BY <3>1 DEF Kept
    <3> QED
      BY <1>1, <1>6, <2>3, <3>2, IdleAsk DEF Stands, Carries
  <2> QED
    BY <2>2, <2>4, <2>5 DEF Kept
<1> QED
  BY <1>5, <1>6 DEF Rename

\* The directory is synced, or not.
LEMMA SyncKeeps ==
  ASSUME HopIInv, SyncDir
  PROVE  Asking' /\ Sole' /\ Kinds' /\ ClientsOK' /\ Kept'
<1> USE DEF HopIInv
<1>1. /\ store.phase = "sync" /\ store' = IdleStore /\ UNCHANGED <<kind, now, net, queue, cl, faults>>
  BY DEF SyncDir
<1>2. /\ kind = "file" /\ store.ask.over = Obj /\ disk.cur = store.ask.body
      /\ store.ask.op \in {"put", "delete"}
  BY <1>1 DEF Kinds, Phases, Obj
<1>3. store.ask \in Pending /\ store.ask \in Requests /\ Sound(store.ask) /\ Match(store.ask)
  BY PendingType DEF Asking, Pending
<1>b. store.ask.body \in Object
  BY <1>3, RequestFields
<1>4. PICK synced \in BOOLEAN :
        /\ disk' = IF synced THEN [disk EXCEPT !.old = disk.cur] ELSE disk
        /\ Reply(store.ask.from,
                 CASE store.ask.op = "delete" -> Status(204)
                   [] store.ask.op # "delete" /\ synced -> [status |-> 200, body |-> store.ask.body]
                   [] OTHER -> Status(500))
  BY DEF SyncDir
<1> DEFINE a == CASE store.ask.op = "delete" -> Status(204)
                  [] store.ask.op # "delete" /\ synced -> [status |-> 200, body |-> store.ask.body]
                  [] OTHER -> Status(500)
<1>5. /\ a \in Answers
      /\ a.status = 200 => store.ask.op = "put" /\ a.body = store.ask.body /\ synced
  <2>1. CASE store.ask.op = "delete"
    <3>1. a = Status(204) /\ Status(204) \in Answers /\ Status(204).status # 200
      BY <2>1, StatusType DEF Status
    <3> HIDE DEF a
    <3> QED
      BY <3>1
  <2>2. CASE store.ask.op # "delete" /\ synced
    <3>1. a = [status |-> 200, body |-> store.ask.body] /\ a \in Answers
      BY <1>b, <2>2, StatusType
    <3> HIDE DEF a
    <3> QED
      BY <1>2, <2>2, <3>1
  <2>3. CASE store.ask.op # "delete" /\ ~synced
    <3>1. a = Status(500) /\ Status(500) \in Answers /\ Status(500).status # 200
      BY <2>3, StatusType DEF Status
    <3> HIDE DEF a
    <3> QED
      BY <3>1
  <2> QED
    BY <2>1, <2>2, <2>3
<1>6. Reply(store.ask.from, a)
  BY <1>4
<1> HIDE DEF a
<1>7. /\ Asking' /\ Sole' /\ ClientsOK'
      /\ \A c \in Client : \A h : Token(c, h)' =>
           \/ Token(c, h)
           \/ c = store.ask.from /\ a.status = 200 /\ store.ask.op = "put" /\ h = store.ask.body
  BY <1>1, <1>5, <1>6, Finished
<1>8. /\ disk'.cur = disk.cur /\ disk'.old \in {disk.cur, disk.old} /\ (synced => disk'.old = disk.cur)
  BY <1>4 DEF HopTypeOK
<1>9. Obj' = disk.cur
  BY <1>1, <1>2, <1>8, <1>b, IdleAsk, Objects DEF Obj, Current
<1>10. Kinds'
  BY <1>1, <1>8, IdleAsk DEF Kinds, Timely, Clock
<1>11. ASSUME NEW c \in Client, NEW h \in Body, Runs(c, h)' PROVE Stands(c, h)'
  <2>1. CASE Token(c, h)
    <3>1. Runs(c, h)
      BY <1>1, <1>11, <2>1, RunsBefore
    <3>2. Carries(c, h, disk.cur) /\ Carries(c, h, disk.old)
      BY <1>1, <1>2, <3>1 DEF Kept, Stands
    <3> QED
      BY <1>1, <1>8, <1>9, <3>2, IdleAsk DEF Stands, Carries
  <2>2. CASE c = store.ask.from /\ a.status = 200 /\ store.ask.op = "put" /\ h = store.ask.body
    <3>1. cl[c].stage \in PutStage /\ cl[c].body = h /\ ClientOK(c)
      BY <1>3, <2>2 DEF Match, ClientsOK
    <3>2. h \in Body /\ h.by = c /\ h.until \in Nat
      BY <3>1, BodyFields DEF ClientOK, Fine, Own
    <3>3. Carries(c, h, disk.cur) /\ disk'.old = disk.cur
      BY <1>2, <1>5, <1>8, <2>2, <3>2 DEF Carries
    <3> QED
      BY <1>1, <1>8, <1>9, <3>3, IdleAsk DEF Stands, Carries
  <2> QED
    BY <1>7, <1>11, <2>1, <2>2 DEF Runs
<1> QED
  BY <1>7, <1>10, <1>11 DEF Kept

\* replace, done or refused.
LEMMA ReplaceKeeps ==
  ASSUME HopIInv, Replace
  PROVE  Asking' /\ Sole' /\ Kinds' /\ ClientsOK' /\ Kept'
<1> USE DEF HopIInv
<1>1. /\ store.phase = "torn" /\ store' = IdleStore /\ UNCHANGED <<kind, now, net, queue, cl>>
  BY DEF Replace
<1>2. /\ kind = "volume" /\ store.ask.op = "put" /\ store.ask.over = Obj
  BY <1>1 DEF Kinds, Phases, Obj
<1>3. store.ask \in Pending /\ store.ask \in Requests /\ Sound(store.ask) /\ Match(store.ask)
  BY PendingType DEF Asking, Pending
<1>4. store.ask.body \in Body /\ Fits(Obj, store.ask.body) /\ Timely(store.ask.body)
      /\ store.ask.body \in Object
  BY <1>2, <1>3, BodyFields DEF Sound
<1>5. CASE /\ disk' = [disk EXCEPT !.cur = store.ask.body]
           /\ Reply(store.ask.from, [status |-> 200, body |-> store.ask.body])
           /\ UNCHANGED faults
  <2> DEFINE a == [status |-> 200, body |-> store.ask.body]
  <2>1. a \in Answers /\ a.status = 200 /\ a.body = store.ask.body
    BY <1>4, StatusType
  <2>2. Reply(store.ask.from, a)
    BY <1>5
  <2> HIDE DEF a
  <2>3. /\ Asking' /\ Sole' /\ ClientsOK'
        /\ \A c \in Client : \A h : Token(c, h)' =>
             Token(c, h) \/ (c = store.ask.from /\ h = store.ask.body)
    BY <1>1, <1>2, <2>1, <2>2, Finished
  <2>4. disk'.cur = store.ask.body /\ disk'.old = disk.old
    BY <1>5 DEF HopTypeOK
  <2>5. Obj' = store.ask.body
    BY <1>1, <1>4, <2>4, IdleAsk, Objects DEF Obj, Current
  <2>6. Kinds'
    BY <1>1, <1>4, <2>4, IdleAsk DEF Kinds, Timely, Clock
  <2>7. ASSUME NEW c \in Client, NEW h \in Body, Runs(c, h)' PROVE Stands(c, h)'
    <3>1. Carries(c, h, store.ask.body)
      <4>1. CASE Token(c, h)
        <5>1. Runs(c, h)
          BY <1>1, <1>5, <2>7, <4>1, RunsBefore
        <5>2. now + SEC <= h.until /\ Carries(c, h, Obj) /\ now \in 0..MaxTime
          BY <5>1 DEF Kept, Runs, Stands, HopTypeOK
        <5> QED
          BY <1>4, <5>2, CarriesOn
      <4>2. CASE c = store.ask.from /\ h = store.ask.body
        <5>1. cl[c].stage \in PutStage /\ cl[c].body = h /\ ClientOK(c)
          BY <1>2, <1>3, <4>2 DEF Match, ClientsOK
        <5>2. h \in Body /\ h.by = c /\ h.until \in Nat
          BY <5>1, BodyFields DEF ClientOK, Fine, Own
        <5> QED
          BY <4>2, <5>2 DEF Carries
      <4> QED
        BY <2>3, <2>7, <4>1, <4>2 DEF Runs
    <3> QED
      BY <1>1, <1>2, <2>5, <3>1, IdleAsk DEF Stands, Carries
  <2> QED
    BY <2>3, <2>6, <2>7 DEF Kept
<1>6. CASE Reply(store.ask.from, Status(500)) /\ faults' = faults + 1 /\ UNCHANGED disk
  <2>1. Status(500) \in Answers /\ Status(500).status # 200
    BY StatusType DEF Status
  <2>2. Asking' /\ Sole' /\ ClientsOK'
    BY <1>1, <1>6, <2>1, Finished
  <2>3. Kinds'
    BY <1>1, <1>6, IdleAsk DEF Kinds, Timely, Clock
  <2>4. kind' = "volume" /\ faults' > 0
    BY <1>1, <1>2, <1>6 DEF HopTypeOK
  <2>5. Kept'
    BY <2>4 DEF Kept, Runs
  <2> QED
    BY <2>2, <2>3, <2>5
<1> QED
  BY <1>5, <1>6 DEF Replace

\* The worker does not wait for the store any longer.
LEMMA LateKeeps ==
  ASSUME HopIInv, NEW i, StoreLate(i)
  PROVE  Asking' /\ Sole' /\ Kinds' /\ ClientsOK' /\ Kept'
<1> USE DEF HopIInv
<1> DEFINE r == queue[i]
           q == [queue[i] EXCEPT !.from = Nobody]
<1>1. /\ i \in DOMAIN queue /\ Reply(r.from, Status(504)) /\ queue' = [queue EXCEPT ![i] = q]
      /\ UNCHANGED <<kind, now, disk, net, store, cl, faults>>
  BY DEF StoreLate
<1>2. r \in Requests /\ r \in Pending
  BY <1>1, PendingType, Sequence, Elements DEF Pending
<1>3. Sound(r) /\ Match(r)
  BY <1>2 DEF Asking
<1>4. q \in Requests /\ q.from = Nobody /\ q.op = r.op /\ q.over = r.over /\ q.body = r.body
  BY <1>2 DEF Requests
<1>5. Sound(q)
  BY <1>3, <1>4 DEF Sound
<1>6. Status(504) \in Answers /\ Status(504).status # 200
  BY StatusType DEF Status
<1> HIDE DEF q
<1>7. /\ ClientsOK'
      /\ \A c \in Client : c = r.from \/ answer'[c] = answer[c]
      /\ \A c \in Client : \A h : Token(c, h)' => Token(c, h)
  <2> HIDE DEF r
  <2> QED
    BY <1>1, <1>2, <1>3, <1>6, Told
<1>8. Kept'
  BY <1>1, <1>7, KeptOn
<1>9. Kinds'
  BY <1>1 DEF Kinds, Timely, Clock
<1>10. DOMAIN queue' = DOMAIN queue /\ queue'[i] = q /\ \A j \in DOMAIN queue : j # i => queue'[j] = queue[j]
  BY <1>1, PendingType
<1>11. Sole'
  BY <1>1, <1>4, <1>10, SoleFewer
<1>12. ASSUME NEW p \in Pending'
       PROVE  \/ p \in Pending /\ (p.from \in Client => answer'[p.from] = answer[p.from])
              \/ p \in Requests /\ p.from = Nobody /\ Sound(p)
  <2>1. p \in net \/ p = store.ask \/ p \in ToSet(queue')
    BY <1>1 DEF Pending
  <2>2. CASE p \in net
    BY <1>1, <1>7, <2>2 DEF Sole, Pending
  <2>3. CASE p = store.ask
    BY <1>1, <1>7, <2>3 DEF Sole, Pending
  <2>4. CASE p \in ToSet(queue')
    <3>1. PICK j \in DOMAIN queue : p = queue'[j]
      BY <1>10, <2>4 DEF ToSet
    <3>2. CASE j = i
      BY <1>4, <1>5, <1>10, <3>1, <3>2
    <3>3. CASE j # i
      <4>1. p = queue[j] /\ p \in Pending
        BY <1>10, <3>1, <3>3 DEF Pending, ToSet
      <4>2. p.from \in Client => p.from # r.from
        BY <1>1, <3>3, <4>1 DEF Sole
      <4> QED
        BY <1>7, <4>1, <4>2
    <3> QED
      BY <3>2, <3>3
  <2> QED
    BY <2>1, <2>2, <2>3, <2>4
<1>13. Asking'
  BY <1>1, <1>12, LeftSame, AskingFewer
<1> QED
  BY <1>7, <1>8, <1>9, <1>11, <1>13

\* A power cut.
LEMMA CrashKeeps ==
  ASSUME HopIInv, Crash
  PROVE  Asking' /\ Sole' /\ Kinds' /\ ClientsOK' /\ Kept'
<1> USE DEF HopIInv
<1>1. /\ kind # "s3" /\ faults' = faults + 1 /\ store' = IdleStore /\ queue' = <<>> /\ net' = {}
      /\ UNCHANGED <<kind, now, answer, cl>>
  BY DEF Crash
<1>2. PICK kept \in {disk.cur, disk.old} : disk' = [cur |-> kept, old |-> kept, hidden |-> FALSE]
  BY DEF Crash
<1>3. disk'.cur = kept /\ disk'.old = kept
  BY <1>2
<1>4. ClientsOK' /\ \A c, h : Token(c, h)' = Token(c, h)
  BY <1>1, Same
<1>5. Pending' = {IdleStore.ask} /\ DOMAIN queue' = {}
  BY <1>1 DEF Pending, ToSet
<1>6. Asking'
  BY <1>1, <1>5, IdleAsk, LeftSame, AskingFewer
<1>7. Sole'
  BY <1>1, <1>5, IdleAsk, SoleFewer
<1>8. Kinds'
  BY <1>1, <1>3, IdleAsk DEF Kinds, Timely, Clock
<1>9. ASSUME NEW c \in Client, NEW h \in Body, Runs(c, h)' PROVE Stands(c, h)'
  <2>1. Runs(c, h)
    BY <1>1, <1>4, <1>9, RunsBefore DEF Runs
  <2>2. Stands(c, h)
    BY <2>1 DEF Kept
  <2>3. faults \in Nat /\ kind \in {"file", "volume", "s3"} /\ store.phase \in {"idle", "tmp", "sync", "torn"}
    BY DEF HopTypeOK
  <2>4. kind = "file"
    <3>1. faults' > 0
      BY <1>1, <2>3
    <3> QED
      BY <1>1, <1>9, <2>3, <3>1 DEF Runs
  <2>5. Carries(c, h, disk.old)
    BY <2>2, <2>4 DEF Stands
  <2>6. Carries(c, h, disk.cur)
    <3>1. CASE store.phase = "sync"
      BY <2>2, <3>1 DEF Stands
    <3>2. CASE store.phase \in {"idle", "tmp"}
      <4>1. Carries(c, h, Current)
        BY <2>2, <3>2 DEF Stands, Obj
      <4>2. Current # None
        BY <4>1, BodyFields DEF Carries
      <4> QED
        BY <4>1, <4>2 DEF Current
    <3> QED
      BY <2>3, <2>4, <3>1, <3>2 DEF Kinds
  <2>7. Carries(c, h, kept) /\ kept # Torn
    BY <2>5, <2>6, BodyFields DEF Carries
  <2>8. Obj' = kept
    BY <1>1, <1>3, <2>7, IdleAsk DEF Obj, Current
  <2> QED
    BY <1>1, <1>3, <2>7, <2>8, IdleAsk DEF Stands, Carries
<1> QED
  BY <1>4, <1>6, <1>7, <1>8, <1>9 DEF Kept

\* The volume commits, the bucket denies, time passes, or nothing happens.
LEMMA RestKeeps ==
  ASSUME HopIInv, Commit \/ GhostAppears \/ Tick \/ UNCHANGED hopVars
  PROVE  Asking' /\ Sole' /\ Kinds' /\ ClientsOK' /\ Kept'
<1> USE DEF HopIInv
<1>1. UNCHANGED <<kind, net, queue, store, answer, cl, faults>> /\ (now' = now \/ now' = now + 1)
  BY DEF Commit, GhostAppears, Tick, hopVars
<1>2. /\ disk'.cur = disk.cur /\ disk'.old \in {disk.cur, disk.old}
      /\ disk'.old # disk.old => kind = "volume"
  BY DEF Commit, GhostAppears, Tick, hopVars, HopTypeOK
<1>3. Pending' = Pending /\ Obj' = Obj
  BY <1>1, <1>2 DEF Pending, Obj, Current
<1>4. Asking'
  BY <1>1, <1>3, LeftSame, AskingFewer
<1>5. Sole'
  BY <1>1, SoleFewer
<1>n. now \in 0..MaxTime /\ \A c \in Client : cl[c].left \in -1..MaxTime /\ cl[c].over \in Object
  BY ClientFields DEF HopTypeOK
<1>6. /\ \A b : Timely(b) => Timely(b)'
      /\ \A o \in Object : \A b : Fits(o, b) => Fits(o, b)'
  BY <1>1, <1>n, LeftSame, SoundOn DEF HopTypeOK
<1>7. Kinds'
  <2>1. (Timely(disk.cur) /\ Timely(disk.old))'
    <3>1. Timely(disk.cur) /\ Timely(disk.old)
      BY DEF Kinds
    <3> QED
      BY <1>2, <1>6, <3>1 DEF Timely, Clock
  <2> QED
    BY <1>1, <2>1 DEF Kinds
<1>8. ASSUME NEW c \in Client PROVE ClientOK(c)'
  <2>1. ClientOK(c)
    BY DEF ClientsOK
  <2>2. Clock(c) <= Clock(c)' /\ Clock(c) \in Int /\ Clock(c)' \in Int /\ cl[c].left \in Int
    BY <1>1, <1>n, ClockOn
  <2>3. cl[c].left <= Clock(c)' /\ (cl[c].stage = "read" => Clock(c)' > cl[c].left)
    BY <2>1, <2>2 DEF ClientOK, Fine
  <2>4. \A b : Own(c, cl[c].left, b) => Own(c, cl[c].left, b)'
    BY <1>1, <1>6 DEF Own
  <2> QED
    BY <1>1, <1>6, <1>n, <2>1, <2>3, <2>4 DEF ClientOK, Fine
<1>9. ASSUME NEW c \in Client, NEW h \in Body, Runs(c, h)' PROVE Stands(c, h)'
  <2>1. Token(c, h)' = Token(c, h)
    BY <1>1 DEF Token
  <2>2. Runs(c, h)
    BY <1>1, <1>9, <2>1, RunsBefore DEF Runs
  <2>3. Stands(c, h)
    BY <2>2 DEF Kept
  <2>4. kind = "file" => disk'.old = disk.old
    BY <1>2
  <2> QED
    BY <1>1, <1>2, <1>3, <2>3, <2>4 DEF Stands, Carries
<1> QED
  BY <1>4, <1>5, <1>7, <1>8, <1>9 DEF ClientsOK, Kept

\* The fields of a client whose operation ended.
LEMMA EndIs ==
  ASSUME NEW k \in Clients
  PROVE  Ended(k).stage = "idle" /\ Ended(k).handle = k.handle /\ Ended(k).left = k.left
         /\ Ended(k).ghost = k.ghost
  BY DEF Ended, Clients

\* What a client in the state k asks.
Asks(c, k, q) ==
  /\ q \in Requests /\ q.from = c
  /\ \/ q.op = "get" /\ k.stage = "read" /\ q.over = None /\ q.body = None
     \/ q.op = "head" /\ k.stage = "head" /\ q.over = None /\ q.body = k.body
     \/ q.op = "put" /\ k.stage \in PutStage /\ q.over = k.over /\ q.body = k.body
     \/ q.op = "delete" /\ k.stage \in DelStage /\ q.over = k.over /\ q.body = None

\* A client that waits for nothing moves on.
LEMMA ClientMoves ==
  ASSUME HopIInv, NEW c \in Client, NEW k \in Clients, cl' = [cl EXCEPT ![c] = k],
         UNCHANGED <<kind, now, disk, queue, store, faults>>,
         answer' = [answer EXCEPT ![c] = NoAnswer],
         cl[c].stage = "idle" \/ answer[c] # NoAnswer,
         cl[c].left <= k.left, Fine(c, k, NoAnswer),
         k.handle # None => Token(c, k.handle),
         net' = net \/ \E q : Asks(c, k, q) /\ net' = net \cup {q}
  PROVE  Asking' /\ Sole' /\ Kinds' /\ ClientsOK' /\ Kept'
<1> USE DEF HopIInv
<1>1. cl'[c] = k /\ answer'[c] = NoAnswer
      /\ \A d \in Client : d # c => cl'[d] = cl[d] /\ answer'[d] = answer[d]
  BY DEF HopTypeOK
<1>2. \A r \in Pending : r.from # c
  <2> SUFFICES ASSUME NEW r \in Pending, r.from = c
               PROVE  FALSE
    OBVIOUS
  <2>1. Match(r) /\ r.op \in {"get", "put", "delete", "head"}
    BY PendingType, RequestFields DEF Asking
  <2> QED
    BY <2>1 DEF Match, PutStage, DelStage
<1>3. cl' \in [Client -> Clients]
  BY DEF HopTypeOK
<1>4. \A d \in Client : cl[d].left <= cl'[d].left
  <2> SUFFICES ASSUME NEW d \in Client PROVE cl[d].left <= cl'[d].left
    OBVIOUS
  <2>1. cl[d].left \in -1..MaxTime
    BY ClientFields DEF HopTypeOK
  <2> QED
    BY <1>1, <2>1
<1>5. Kinds'
  BY DEF Kinds, Timely, Clock
<1>6. ClientsOK'
  <2> SUFFICES ASSUME NEW d \in Client PROVE ClientOK(d)'
    BY DEF ClientsOK
  <2>1. CASE d = c
    BY <1>1, <2>1 DEF ClientOK, Fine, Own, Timely, Fits, Clock
  <2>2. CASE d # c
    BY <1>1, <2>2 DEF ClientsOK, ClientOK, Fine, Own, Timely, Fits, Clock
  <2> QED
    BY <2>1, <2>2
<1>7. \A d \in Client : \A h \in Body : Token(d, h)' => Token(d, h)
  <2> SUFFICES ASSUME NEW d \in Client, NEW h \in Body, Token(d, h)' PROVE Token(d, h)
    OBVIOUS
  <2>1. CASE d = c
    <3>1. h = k.handle /\ h # None
      BY <1>1, <2>1, BodyFields DEF Token, NoAnswer
    <3> QED
      BY <2>1, <3>1
  <2>2. CASE d # c
    BY <1>1, <2>2 DEF Token
  <2> QED
    BY <2>1, <2>2
<1>8. Kept'
  BY <1>7, KeptOn
<1>9. CASE net' = net
  <2>1. Pending' = Pending
    BY <1>9 DEF Pending
  <2>2. \A r \in Pending' : r.from \in Client => answer'[r.from] = answer[r.from] /\ cl'[r.from] = cl[r.from]
    BY <1>1, <1>2, <2>1
  <2>3. Asking'
    BY <1>3, <1>4, <2>1, <2>2, AskingFewer
  <2>4. Sole'
    BY <1>9, SoleFewer
  <2> QED
    BY <1>5, <1>6, <1>8, <2>3, <2>4
<1>10. ASSUME NEW q, Asks(c, k, q), net' = net \cup {q} PROVE Asking' /\ Sole'
  <2>1. q \in Requests /\ q.from = c
    BY <1>10 DEF Asks
  <2>2. Sole'
    <3>1. \A i \in DOMAIN queue : queue[i] \in Pending
      BY DEF Pending, ToSet
    <3> QED
      BY <1>2, <1>10, <2>1, <3>1, SoleCall DEF Pending
  <2>3. Pending' = Pending \cup {q}
    BY <1>10 DEF Pending
  <2>4. ASSUME NEW r \in Pending PROVE Sound(r)' /\ Match(r)'
    <3>1. r \in Requests /\ Sound(r) /\ Match(r) /\ r.from # c
      BY <1>2, PendingType DEF Asking
    <3>2. Sound(r)'
      BY <1>3, <1>4, <3>1, SoundOn DEF HopTypeOK
    <3>3. Match(r)'
      BY <1>1, <3>1 DEF Match
    <3> QED
      BY <3>2, <3>3
  <2>5. None \notin Body
    BY BodyFields
  <2>6. Match(q)'
    BY <1>1, <1>10, <2>1 DEF Match, Asks
  <2>7. Sound(q)'
    <3>1. CASE q.op = "get"
      BY <1>10, <2>5, <3>1 DEF Sound, Asks, Timely
    <3>2. CASE q.op = "head"
      BY <1>10, <2>5, <3>2 DEF Sound, Asks, Timely, Fine, Own, Clock
    <3>3. CASE q.op = "put"
      BY <1>10, <2>5, <3>3 DEF Sound, Asks, Timely, Fine, Own, Clock, Fits
    <3>4. CASE q.op = "delete"
      BY <1>1, <1>10, <2>5, <3>4 DEF Sound, Asks, Timely, Fine, Own, Clock
    <3> QED
      BY <1>10, <3>1, <3>2, <3>3, <3>4 DEF Asks
  <2>8. \A r \in Pending' : Sound(r)' /\ Match(r)'
    BY <2>3, <2>4, <2>6, <2>7
  <2> QED
    BY <2>2, <2>8 DEF Asking
<1> QED
  BY <1>5, <1>6, <1>8, <1>9, <1>10

\* A client gives up, and its request goes its way.
LEMMA GiveUpKeeps ==
  ASSUME HopIInv, NEW c \in Client, GiveUp(c)
  PROVE  Asking' /\ Sole' /\ Kinds' /\ ClientsOK' /\ Kept'
<1> USE DEF HopIInv
<1> DEFINE S(r) == [r EXCEPT !.from = IF @ = c THEN Nobody ELSE @]
<1>1. /\ answer[c] = NoAnswer /\ cl' = [cl EXCEPT ![c] = Ended(cl[c])]
      /\ net' = {S(r) : r \in net} /\ queue' = [i \in DOMAIN queue |-> S(queue[i])]
      /\ UNCHANGED <<kind, now, disk, answer, faults>>
  BY DEF GiveUp
<1>2. store' = [store EXCEPT !.ask = S(store.ask)]
  BY DEF GiveUp, HopTypeOK
<1>3. ASSUME NEW r \in Requests
      PROVE  /\ S(r) \in Requests /\ (r.from = c => S(r).from = Nobody) /\ (r.from # c => S(r) = r)
             /\ Sound(r) => Sound(S(r))
  <2>1. S(r) \in Requests /\ (r.from = c => S(r).from = Nobody) /\ (r.from # c => S(r) = r)
    BY DEF Requests
  <2>2. S(r).op = r.op /\ S(r).over = r.over /\ S(r).body = r.body
    BY DEF Requests
  <2> HIDE DEF S
  <2> QED
    BY <2>1, <2>2 DEF Sound
<1> HIDE DEF S
<1>4. store'.phase = store.phase /\ store'.was = store.was /\ store'.ask = S(store.ask)
  BY <1>2 DEF HopTypeOK
<1>5. /\ DOMAIN queue' = DOMAIN queue /\ \A i \in DOMAIN queue : queue'[i] = S(queue[i])
      /\ \A i \in DOMAIN queue : queue[i] \in Requests /\ queue[i] \in Pending
  BY <1>1, PendingType, Sequence, Elements DEF Pending
<1>6. ASSUME NEW p \in Pending' PROVE \E r \in Pending : r \in Requests /\ p = S(r)
  <2>1. CASE p \in net'
    BY <1>1, <2>1, PendingType DEF Pending
  <2>2. CASE p \in ToSet(queue')
    BY <1>5, <2>2 DEF ToSet
  <2>3. CASE p = store'.ask
    BY <1>4, <2>3, PendingType DEF Pending
  <2> QED
    BY <2>1, <2>2, <2>3 DEF Pending
<1>7. /\ cl[c] \in Clients /\ Ended(cl[c]) \in Clients /\ cl'[c] = Ended(cl[c])
      /\ \A d \in Client : d # c => cl'[d] = cl[d]
  BY <1>1, ClientFields DEF HopTypeOK
<1>8. cl' \in [Client -> Clients] /\ \A d \in Client : cl[d].left <= cl'[d].left
  <2>1. \A d \in Client : cl[d].left \in -1..MaxTime
    BY ClientFields DEF HopTypeOK
  <2>2. \A d \in Client : cl'[d].left = cl[d].left
    BY <1>7, EndIs
  <2>3. cl' \in [Client -> Clients]
    BY <1>1, <1>7 DEF HopTypeOK
  <2> QED
    BY <2>1, <2>2, <2>3
<1>9. Asking'
  <2>1. ASSUME NEW p \in Pending'
        PROVE  \/ p \in Pending /\ (p.from \in Client => answer'[p.from] = answer[p.from] /\ cl'[p.from] = cl[p.from])
               \/ p \in Requests /\ p.from = Nobody /\ Sound(p)
    <3>1. PICK r \in Pending : r \in Requests /\ p = S(r)
      BY <1>6
    <3>2. CASE r.from = c
      BY <1>3, <3>1, <3>2 DEF Asking
    <3>3. CASE r.from # c
      BY <1>1, <1>3, <1>7, <3>1, <3>3
    <3> QED
      BY <3>2, <3>3
  <2> QED
    BY <1>1, <1>8, <2>1, AskingFewer
<1>10. Sole'
  <2>1. \A p \in net' : p \in net \/ p.from = Nobody
    BY <1>1, <1>3, PendingType
  <2>2. \A i \in DOMAIN queue' : i \in DOMAIN queue /\ queue'[i].from \in {queue[i].from, Nobody}
    BY <1>3, <1>5
  <2>3. store'.ask.from \in {store.ask.from, Nobody}
    BY <1>3, <1>4, PendingType
  <2> QED
    BY <2>1, <2>2, <2>3, SoleFewer
<1>11. Kinds'
  <2>1. store'.ask.op = store.ask.op
    BY <1>4, PendingType DEF S, Requests
  <2>2. store'.ask.from = store.ask.from \/ store'.ask.from = Nobody
    BY <1>3, <1>4, PendingType
  <2> QED
    BY <1>1, <1>4, <2>1, <2>2 DEF Kinds, Timely, Clock
<1>12. ClientsOK'
  <2> SUFFICES ASSUME NEW d \in Client PROVE ClientOK(d)'
    BY DEF ClientsOK
  <2>1. CASE d = c
    <3>1. ClientOK(c)
      BY DEF ClientsOK
    <3>2. /\ cl'[c].stage = "idle" /\ cl'[c].handle = cl[c].handle /\ cl'[c].left = cl[c].left
          /\ cl'[c].ghost = cl[c].ghost /\ answer'[c] = NoAnswer /\ NoAnswer.status # 200
      BY <1>1, <1>7, EndIs DEF NoAnswer
    <3> QED
      BY <1>1, <2>1, <3>1, <3>2 DEF ClientOK, Fine, Own, Timely, Clock, PutStage, DelStage
  <2>2. CASE d # c
    BY <1>1, <1>7, <2>2 DEF ClientsOK, ClientOK, Fine, Own, Timely, Fits, Clock
  <2> QED
    BY <2>1, <2>2
<1>13. \A d \in Client : \A h \in Body : Token(d, h)' => Token(d, h)
  <2> SUFFICES ASSUME NEW d \in Client, NEW h \in Body, Token(d, h)' PROVE Token(d, h)
    OBVIOUS
  <2>1. CASE d = c
    BY <1>1, <1>7, <2>1, EndIs DEF Token, NoAnswer
  <2>2. CASE d # c
    BY <1>1, <1>7, <2>2 DEF Token
  <2> QED
    BY <2>1, <2>2
<1>14. Kept'
  BY <1>1, <1>4, <1>13, KeptOn
<1> QED
  BY <1>9, <1>10, <1>11, <1>12, <1>14

\* A lease of c from now on is its own, and fits over its own.
LEMMA LeaseOwn ==
  ASSUME now \in 0..MaxTime, NEW c \in Client, NEW left \in -1..MaxTime
  PROVE  /\ Lease(c) \in Body /\ Lease(c).by = c /\ Timely(Lease(c))
         /\ left < Clock(c) => Own(c, left, Lease(c))
         /\ \A b : Own(c, left, b) => Own(c, left, Lease(c))
         /\ \A b \in Body : Timely(b) /\ (b.by = c \/ Clock(c) > b.until) => Fits(b, Lease(c))
<1>1. Lease(c) \in Body
  BY LeaseType
<1>2. Lease(c).by = c /\ Lease(c).until = Clock(c) + TTL
  BY DEF Lease
<1>3. Clock(c) \in 0..MaxTime /\ Clock(c) <= now
  BY ClockType, ClockLag
<1> HIDE DEF Lease
<1>4. Timely(Lease(c))
  BY <1>2, <1>3 DEF Timely
<1>5. left < Clock(c) => Own(c, left, Lease(c))
  BY <1>1, <1>2, <1>3, <1>4 DEF Own
<1>6. ASSUME NEW b, Own(c, left, b) PROVE Own(c, left, Lease(c))
  <2>1. b.until \in Nat /\ b.until <= Clock(c) + TTL /\ b.until > left + TTL
    BY <1>6, BodyFields DEF Own, Timely
  <2>2. Lease(c).until > left + TTL
    BY <1>2, <1>3, <2>1
  <2> QED
    BY <1>1, <1>2, <1>4, <2>2 DEF Own
<1>7. ASSUME NEW b \in Body, Timely(b), b.by = c \/ Clock(c) > b.until PROVE Fits(b, Lease(c))
  <2>1. b.until \in Nat
    BY BodyFields
  <2>2. CASE b.by = c
    BY <1>2, <1>7, <2>2 DEF Fits, Timely
  <2>3. CASE Clock(c) > b.until
    <3>1. b.until < now + SEC
      BY <1>3, <2>1, <2>3
    <3> QED
      BY <3>1 DEF Fits
  <2> QED
    BY <1>7, <2>2, <2>3
<1> QED
  BY <1>1, <1>2, <1>4, <1>5, <1>6, <1>7

\* A call puts a request on its way.
LEMMA Calls ==
  ASSUME NEW c \in Client, NEW k, NEW op \in {"get", "put", "delete", "head"}, NEW over \in Object,
         NEW quoted \in BOOLEAN, NEW body \in Object, Call(c, op, over, quoted, body),
         \/ op = "get" /\ k.stage = "read" /\ over = None /\ body = None
         \/ op = "head" /\ k.stage = "head" /\ over = None /\ body = k.body
         \/ op = "put" /\ k.stage \in PutStage /\ over = k.over /\ body = k.body
         \/ op = "delete" /\ k.stage \in DelStage /\ over = k.over /\ body = None
  PROVE  \E q : Asks(c, k, q) /\ net' = net \cup {q}
<1> DEFINE q == [from |-> c, op |-> op, over |-> over, quoted |-> quoted, body |-> body]
<1>1. q \in Requests /\ q.from = c /\ q.op = op /\ q.over = over /\ q.body = body
  BY DEF Requests
<1>2. net' = net \cup {q}
  BY DEF Call
<1> HIDE DEF q
<1>3. Asks(c, k, q)
  BY <1>1 DEF Asks
<1> QED
  BY <1>2, <1>3

\* A client begins to claim, to renew or to give back.
LEMMA BeginKeeps ==
  ASSUME HopIInv, NEW c \in Client, Claim(c) \/ Renew(c) \/ Release(c)
  PROVE  Asking' /\ Sole' /\ Kinds' /\ ClientsOK' /\ Kept'
<1> USE DEF HopIInv
<1>1. /\ cl[c].stage = "idle" /\ UNCHANGED <<kind, now, disk, queue, store, faults, answer>>
  BY DEF Claim, Renew, Release, Begun, Quiet
<1>2. Fine(c, cl[c], answer[c]) /\ cl[c] \in Clients /\ now \in 0..MaxTime
  BY DEF ClientsOK, ClientOK, HopTypeOK
<1>3. answer[c] = NoAnswer /\ answer' = [answer EXCEPT ![c] = NoAnswer] /\ NoAnswer.status # 200
  BY <1>1, <1>2 DEF Fine, HopTypeOK, NoAnswer
<1>4. /\ cl[c].left \in -1..MaxTime /\ cl[c].left <= cl[c].left /\ cl[c].handle \in Object
      /\ Clock(c) \in 0..MaxTime /\ cl[c].left <= Clock(c) /\ None \in Object
  <2>1. cl[c].left \in -1..MaxTime /\ cl[c].handle \in Object
    BY <1>2, ClientFields
  <2> QED
    BY <1>2, <2>1, ClockType, Objects DEF Fine
<1>5. CASE Claim(c)
  <2> DEFINE k == [cl[c] EXCEPT !.stage = "read"]
  <2>1. k \in Clients /\ cl' = [cl EXCEPT ![c] = k]
    <3>1. k \in Clients
      BY <1>2 DEF Clients
    <3>2. cl' = [cl EXCEPT ![c] = k]
      BY <1>5 DEF Claim
    <3> QED
      BY <3>1, <3>2
  <2>2. k.stage = "read" /\ k.handle = cl[c].handle /\ k.left = cl[c].left /\ k.ghost = cl[c].ghost
    BY <1>2 DEF Clients
  <2>3. Call(c, "get", None, TRUE, None) /\ Clock(c) > cl[c].left
    BY <1>5 DEF Claim
  <2> HIDE DEF k
  <2>4. \E q : Asks(c, k, q) /\ net' = net \cup {q}
    BY <1>4, <2>2, <2>3, Calls
  <2>5. Fine(c, k, NoAnswer)
    BY <1>2, <1>3, <2>2, <2>3 DEF Fine, PutStage, DelStage
  <2>6. k.handle # None => Token(c, k.handle)
    BY <2>2 DEF Token
  <2> QED
    BY <1>1, <1>3, <1>4, <2>1, <2>2, <2>4, <2>5, <2>6, ClientMoves
<1>6. CASE Renew(c)
  <2> DEFINE b == Lease(c)
             k == [cl[c] EXCEPT !.stage = "put", !.over = cl[c].handle, !.body = b]
  <2>b. b \in Object /\ b \in Body
    BY <1>2, LeaseType
  <2>h. cl[c].handle \in Body /\ Own(c, cl[c].left, cl[c].handle)
    BY <1>2, <1>6 DEF Renew, Fine, Own
  <2>o. Own(c, cl[c].left, b) /\ Fits(cl[c].handle, b) /\ Timely(cl[c].handle)
    BY <1>2, <1>4, <2>h, LeaseOwn DEF Own
  <2>1. cl' = [cl EXCEPT ![c] = k] /\ Call(c, "put", cl[c].handle, TRUE, b)
    BY <1>6 DEF Renew, HopTypeOK
  <2> HIDE DEF b
  <2>2. k \in Clients
    BY <1>2, <1>4, <2>b, ClientChange, GhostType
  <2>3. k.stage = "put" /\ k.over = cl[c].handle /\ k.body = b
        /\ k.handle = cl[c].handle /\ k.left = cl[c].left /\ k.ghost = cl[c].ghost
    BY <1>2 DEF Clients
  <2> HIDE DEF k
  <2>4. \E q : Asks(c, k, q) /\ net' = net \cup {q}
    <3>1. k.stage \in PutStage
      BY <2>3 DEF PutStage
    <3> QED
      BY <1>4, <2>1, <2>3, <2>b, <3>1, Calls
  <2>5. Fine(c, k, NoAnswer)
    BY <1>2, <1>3, <2>3, <2>o DEF Fine, DelStage
  <2>6. k.handle # None => Token(c, k.handle)
    BY <2>3 DEF Token
  <2> QED
    BY <1>1, <1>3, <1>4, <2>1, <2>2, <2>3, <2>4, <2>5, <2>6, ClientMoves
<1>7. CASE Release(c)
  <2> DEFINE t == Clock(c)
             k == [cl[c] EXCEPT !.stage = "delete", !.over = cl[c].handle, !.handle = None, !.left = t]
  <2>h. cl[c].handle \in Body /\ Own(c, cl[c].left, cl[c].handle)
    BY <1>2, <1>7 DEF Release, Fine, Own
  <2>1. cl' = [cl EXCEPT ![c] = k] /\ Call(c, "delete", cl[c].handle, TRUE, None)
    BY <1>7 DEF Release, HopTypeOK
  <2>t. t \in 0..MaxTime /\ t = Clock(c) /\ cl[c].left <= t
    BY <1>4
  <2> HIDE DEF t
  <2>2. k \in Clients
    BY <1>2, <1>4, <2>t, ClientChange, GhostType
  <2>3. k.stage = "delete" /\ k.over = cl[c].handle /\ k.handle = None /\ k.left = t /\ k.ghost = cl[c].ghost
    BY <1>2 DEF Clients
  <2> HIDE DEF k
  <2>4. \E q : Asks(c, k, q) /\ net' = net \cup {q}
    <3>1. k.stage \in DelStage
      BY <2>3 DEF DelStage
    <3> QED
      BY <1>4, <2>1, <2>3, <3>1, Calls
  <2>5. Fine(c, k, NoAnswer)
    <3>1. t <= Clock(c)
      BY <2>t
    <3>2. cl[c].handle.until <= t + TTL /\ cl[c].handle.by = c /\ Timely(cl[c].handle)
      BY <2>h, <2>t DEF Own, Timely
    <3> QED
      BY <1>2, <1>3, <2>3, <2>h, <3>1, <3>2 DEF Fine, PutStage
  <2> QED
    BY <1>1, <1>3, <2>t, <2>1, <2>2, <2>3, <2>4, <2>5, ClientMoves
<1> QED
  BY <1>5, <1>6, <1>7

\* A client takes its answer.
Heard(c) == answer[c] # NoAnswer /\ answer' = [answer EXCEPT ![c] = NoAnswer] /\ Quiet

\* A ghost that was seen runs out within a term and a second.
GhostOK(g) == g.etag # None => g.etag.until < g.since + TTL + SEC

\* The answer ends the operation.
LEMMA EndKeeps ==
  ASSUME HopIInv, NEW c \in Client, Heard(c), NEW j \in Clients,
         cl' = [cl EXCEPT ![c] = Ended(j)] /\ UNCHANGED net,
         j.left = cl[c].left, GhostOK(j.ghost),
         j.handle # None => Own(c, cl[c].left, j.handle) /\ Token(c, j.handle)
  PROVE  Asking' /\ Sole' /\ Kinds' /\ ClientsOK' /\ Kept'
<1> USE DEF HopIInv
<1> DEFINE k == Ended(j)
<1>1. k \in Clients /\ k.stage = "idle" /\ k.handle = j.handle /\ k.left = cl[c].left /\ k.ghost = j.ghost
  BY EndIs, ClientFields
<1>2. cl' = [cl EXCEPT ![c] = k]
  OBVIOUS
<1> HIDE DEF k
<1>3. Fine(c, cl[c], answer[c]) /\ cl[c].left \in -1..MaxTime
  BY ClientFields DEF ClientsOK, ClientOK, HopTypeOK
<1>4. Fine(c, k, NoAnswer)
  BY <1>1, <1>3 DEF Fine, GhostOK, NoAnswer, PutStage, DelStage
<1>5. cl[c].left <= k.left
  BY <1>1, <1>3
<1>6. /\ UNCHANGED <<kind, now, disk, queue, store, faults>>
      /\ answer' = [answer EXCEPT ![c] = NoAnswer] /\ answer[c] # NoAnswer
  BY DEF Heard, Quiet
<1> QED
  BY <1>1, <1>2, <1>4, <1>5, <1>6, ClientMoves

\* The answer leads to the next call of the operation.
LEMMA AgainKeeps ==
  ASSUME HopIInv, NEW c \in Client, Heard(c), NEW j \in Clients,
         NEW stage \in PutStage \cup DelStage \cup {"head"},
         NEW op \in {"put", "delete", "head"}, NEW over \in Object, NEW quoted \in BOOLEAN, NEW body \in Object,
         Again(c, j, stage, op, over, quoted, body),
         j.left = cl[c].left, j.handle = cl[c].handle, GhostOK(j.ghost),
         \/ op = "head" /\ stage = "head" /\ over = None /\ Own(c, cl[c].left, body)
         \/ op = "put" /\ stage \in PutStage /\ Own(c, cl[c].left, body) /\ Timely(over) /\ Fits(over, body)
         \/ /\ op = "delete" /\ stage \in DelStage /\ body = None
            /\ over \in Body /\ over.by = c /\ Timely(over) /\ over.until <= cl[c].left + TTL
  PROVE  Asking' /\ Sole' /\ Kinds' /\ ClientsOK' /\ Kept'
<1> USE DEF HopIInv
<1> DEFINE k == [j EXCEPT !.stage = stage, !.over = over, !.body = body]
<1>1. k \in Clients
  <2>1. stage \in {"idle", "read", "put", "bare", "head", "ghost", "ghostbare", "delete", "delbare"}
    BY DEF PutStage, DelStage
  <2> QED
    BY <2>1 DEF Clients, Object
<1>2. /\ k.stage = stage /\ k.over = over /\ k.body = body
      /\ k.handle = cl[c].handle /\ k.left = cl[c].left /\ k.ghost = j.ghost
  BY DEF Clients
<1>3. cl' = [cl EXCEPT ![c] = k] /\ Call(c, op, over, quoted, body)
  BY DEF Again
<1> HIDE DEF k
<1>4. Fine(c, cl[c], answer[c]) /\ cl[c].left \in -1..MaxTime
  BY ClientFields DEF ClientsOK, ClientOK, HopTypeOK
<1>5. stage # "idle" /\ stage # "read" /\ "head" \notin PutStage \cup DelStage /\ PutStage \cap DelStage = {}
  BY DEF PutStage, DelStage
<1>6. \E q : Asks(c, k, q) /\ net' = net \cup {q}
  BY <1>2, <1>3, Calls
<1>7. Fine(c, k, NoAnswer)
  <2>1. NoAnswer.status # 200
    BY DEF NoAnswer
  <2> QED
    BY <1>2, <1>4, <1>5, <2>1 DEF Fine, GhostOK
<1>8. cl[c].left <= k.left
  BY <1>2, <1>4
<1>9. /\ UNCHANGED <<kind, now, disk, queue, store, faults>>
      /\ answer' = [answer EXCEPT ![c] = NoAnswer] /\ answer[c] # NoAnswer
  BY DEF Heard, Quiet
<1>10. k.handle # None => Token(c, k.handle)
  BY <1>2 DEF Token
<1> QED
  BY <1>1, <1>3, <1>6, <1>7, <1>8, <1>9, <1>10, ClientMoves

\* A client handles its answer.
LEMMA AnsweredKeeps ==
  ASSUME HopIInv, NEW c \in Client, Answered(c)
  PROVE  Asking' /\ Sole' /\ Kinds' /\ ClientsOK' /\ Kept'
<1> USE DEF HopIInv
<1> DEFINE a == answer[c]
           k == cl[c]
           left == cl[c].left
           b == Lease(c)
           Goal == Asking' /\ Sole' /\ Kinds' /\ ClientsOK' /\ Kept'
<1>0. Heard(c) /\ (ReadDone(c, a) \/ WriteDone(c, a) \/ HeadDone(c, a) \/ DeleteDone(c, a))
  BY DEF Answered, Heard
<1>1. /\ k \in Clients /\ k.over \in Object /\ k.body \in Object /\ left \in -1..MaxTime /\ k.left = left
      /\ k.ghost \in [etag : Object, since : 0..MaxTime]
      /\ a \in Answers /\ a.body \in Object /\ b \in Object /\ None \in Object /\ now \in 0..MaxTime
  BY ClientFields, LeaseType, Objects DEF HopTypeOK, Answers
<1>2. Fine(c, k, a)
  BY DEF ClientsOK, ClientOK
<1>3. GhostOK(k.ghost) /\ GhostOK(NoGhost)
  BY <1>2 DEF Fine, GhostOK, NoGhost
<1>4. k.handle # None => Own(c, left, k.handle) /\ Token(c, k.handle)
  BY <1>2 DEF Fine, Token
<1>5. /\ "put" \in PutStage /\ "bare" \in PutStage /\ "ghost" \in PutStage /\ "ghostbare" \in PutStage
      /\ "delbare" \in DelStage /\ "delete" \in DelStage
  BY DEF PutStage, DelStage
<1>6. Timely(None) /\ \A x : Fits(None, x)
  BY BodyFields DEF Timely, Fits
<1>g. \A j : j = [k EXCEPT !.ghost = NoGhost] =>
        j \in Clients /\ j.ghost = NoGhost /\ j.handle = k.handle /\ j.left = left
  <2>1. [k EXCEPT !.ghost = NoGhost] \in Clients
    BY <1>1, GhostType DEF Clients, Object
  <2>2. [k EXCEPT !.ghost = NoGhost].handle = k.handle /\ [k EXCEPT !.ghost = NoGhost].left = k.left
        /\ [k EXCEPT !.ghost = NoGhost].ghost = NoGhost
    BY <1>1 DEF Clients
  <2> HIDE DEF k, left
  <2> QED
    BY <1>1, <2>1, <2>2
<1>h. \A j : j = [k EXCEPT !.handle = None] =>
        j \in Clients /\ j.ghost = k.ghost /\ j.handle = None /\ j.left = left
  <2>1. [k EXCEPT !.handle = None] \in Clients
    BY <1>1 DEF Clients, Object
  <2>2. [k EXCEPT !.handle = None].handle = None /\ [k EXCEPT !.handle = None].left = k.left
        /\ [k EXCEPT !.handle = None].ghost = k.ghost
    BY <1>1 DEF Clients
  <2> HIDE DEF k, left
  <2> QED
    BY <1>1, <2>1, <2>2
<1>i. \A x \in Object, g \in [etag : Object, since : 0..MaxTime] :
        [k EXCEPT !.handle = x, !.ghost = g] \in Clients
  BY <1>1 DEF Clients, Object
<1>u. ASSUME Unreachable(c) PROVE Goal
  <2>1. cl' = [cl EXCEPT ![c] = Ended(k)] /\ UNCHANGED net
    BY <1>u DEF Unreachable
  <2> HIDE DEF k
  <2>2. k.left = cl[c].left
    BY DEF k
  <2> QED
    BY <1>0, <1>1, <1>3, <1>4, <2>1, <2>2, EndKeeps
<1>l. ASSUME Held(c) PROVE Goal
  <2> DEFINE j == [k EXCEPT !.handle = None]
  <2>1. cl' = [cl EXCEPT ![c] = Ended(j)] /\ UNCHANGED net
    BY <1>l DEF Held
  <2>2. j \in Clients /\ j.ghost = k.ghost /\ j.handle = None /\ j.left = left
    BY <1>h
  <2> HIDE DEF j
  <2> QED
    BY <1>0, <1>3, <2>1, <2>2, EndKeeps
<1>7. ASSUME ReadDone(c, a) PROVE Goal
  <2> DEFINE j == [k EXCEPT !.ghost = NoGhost]
  <2>s. k.stage = "read" /\ Clock(c) > left
    BY <1>2, <1>7 DEF ReadDone, Fine
  <2>b. Own(c, left, b) /\ \A x \in Body : Timely(x) /\ (x.by = c \/ Clock(c) > x.until) => Fits(x, b)
    <3>1. left < Clock(c)
      BY <1>1, <2>s, ClockType
    <3> HIDE DEF left
    <3> QED
      BY <1>1, <3>1, LeaseOwn
  <2>j. j \in Clients /\ j.ghost = NoGhost /\ j.handle = k.handle /\ j.left = left
    BY <1>g
  <2>1. \/ /\ a.status = 200 /\ (a.body.by = c \/ Clock(c) > a.body.until)
           /\ Again(c, j, "put", "put", a.body, TRUE, b)
        \/ cl' = [cl EXCEPT ![c] = Ended(j)] /\ UNCHANGED net
        \/ Again(c, k, "put", "put", None, TRUE, b)
        \/ Unreachable(c)
    BY <1>7 DEF ReadDone
  <2>2. CASE /\ a.status = 200 /\ (a.body.by = c \/ Clock(c) > a.body.until)
             /\ Again(c, j, "put", "put", a.body, TRUE, b)
    <3>1. a.body \in Body /\ Timely(a.body)
      BY <1>2, <2>2 DEF Fine
    <3>2. Fits(a.body, b)
      BY <2>2, <2>b, <3>1
    <3> DEFINE e == a.body
    <3>3. e \in Object /\ Timely(e) /\ Fits(e, b) /\ Again(c, j, "put", "put", e, TRUE, b)
      BY <1>1, <2>2, <3>1, <3>2
    <3> HIDE DEF j, e, b
    <3> QED
      BY <1>0, <1>1, <1>3, <1>5, <2>b, <2>j, <3>3, AgainKeeps
  <2>3. CASE cl' = [cl EXCEPT ![c] = Ended(j)] /\ UNCHANGED net
    <3> HIDE DEF j
    <3> QED
      BY <1>0, <1>3, <1>4, <2>3, <2>j, EndKeeps
  <2>4. CASE Again(c, k, "put", "put", None, TRUE, b)
    <3> HIDE DEF b
    <3> QED
      BY <1>0, <1>1, <1>3, <1>5, <1>6, <2>4, <2>b, AgainKeeps
  <2> QED
    BY <1>u, <2>1, <2>2, <2>3, <2>4
<1>8. ASSUME WriteDone(c, a) PROVE Goal
  <2> DEFINE j == [k EXCEPT !.handle = a.body, !.ghost = NoGhost]
  <2>s. k.stage \in PutStage
    BY <1>8 DEF WriteDone, PutStage
  <2>o. Own(c, left, k.body) /\ Timely(k.over) /\ Fits(k.over, k.body)
    BY <1>2, <2>s DEF Fine
  <2>1. \/ a.status = 200 /\ cl' = [cl EXCEPT ![c] = Ended(j)] /\ UNCHANGED net
        \/ Again(c, k, "bare", "put", k.over, FALSE, k.body)
        \/ Again(c, k, "ghostbare", "put", k.over, FALSE, k.body)
        \/ Again(c, k, "head", "head", None, TRUE, k.body)
        \/ Held(c) \/ Unreachable(c)
    <3>1. CASE a.status = 200
      BY <1>8, <3>1 DEF WriteDone, Again, Call
    <3>2. CASE a.status # 200
      BY <1>8, <3>2 DEF WriteDone, Again, Call, Held, Unreachable
    <3> QED
      BY <3>1, <3>2
  <2>2. CASE a.status = 200 /\ cl' = [cl EXCEPT ![c] = Ended(j)] /\ UNCHANGED net
    <3>0. j \in Clients
      BY <1>1, <1>i, GhostType
    <3>1. j.ghost = NoGhost /\ j.handle = a.body /\ j.left = left
      BY <1>1 DEF Clients
    <3>2. a.body = k.body /\ Token(c, a.body)
      BY <1>2, <2>2, <2>s DEF Fine, Token
    <3>3. j.handle # None => Own(c, cl[c].left, j.handle) /\ Token(c, j.handle)
      BY <2>o, <3>1, <3>2
    <3>4. GhostOK(j.ghost) /\ j.left = cl[c].left /\ j \in Clients
      BY <1>3, <3>0, <3>1
    <3> HIDE DEF j
    <3> QED
      BY <1>0, <2>2, <3>3, <3>4, EndKeeps
  <2>3. CASE Again(c, k, "bare", "put", k.over, FALSE, k.body)
    BY <1>0, <1>1, <1>3, <1>5, <2>3, <2>o, AgainKeeps
  <2>4. CASE Again(c, k, "ghostbare", "put", k.over, FALSE, k.body)
    BY <1>0, <1>1, <1>3, <1>5, <2>4, <2>o, AgainKeeps
  <2>5. CASE Again(c, k, "head", "head", None, TRUE, k.body)
    BY <1>0, <1>1, <1>3, <1>5, <2>5, <2>o, AgainKeeps
  <2> QED
    BY <1>u, <1>l, <2>1, <2>2, <2>3, <2>4, <2>5
<1>9. ASSUME HeadDone(c, a) PROVE Goal
  <2> DEFINE t == Clock(c)
             g == [etag |-> a.body, since |-> t]
             j == [k EXCEPT !.handle = None, !.ghost = g]
  <2>o. Own(c, left, k.body)
    BY <1>2, <1>9 DEF Fine, HeadDone
  <2>t. t \in 0..MaxTime /\ t <= now /\ now < t + SEC
    BY <1>1, ClockType, ClockLag
  <2>1. \/ a.status = 200 /\ GhostHandle(c, a.body) /\ Again(c, k, "ghost", "put", a.body, TRUE, k.body)
        \/ Held(c)
        \/ a.status = 200 /\ cl' = [cl EXCEPT ![c] = Ended(j)] /\ UNCHANGED net
    BY <1>9 DEF HeadDone, Held
  <2>2. CASE a.status = 200 /\ GhostHandle(c, a.body) /\ Again(c, k, "ghost", "put", a.body, TRUE, k.body)
    <3>1. a.body \in Body /\ Timely(a.body) /\ a.body.until \in Nat /\ a.body # None
      BY <1>2, <2>2, BodyFields DEF Fine
    <3>2. k.ghost.etag = a.body /\ t - k.ghost.since >= TTL /\ k.ghost.since \in 0..MaxTime
      BY <1>1, <2>2 DEF GhostHandle
    <3>3. a.body.until < k.ghost.since + TTL + SEC
      BY <1>3, <3>1, <3>2 DEF GhostOK
    <3>4. a.body.until < now + SEC
      BY <2>t, <3>1, <3>2, <3>3, <1>1
    <3>5. Fits(a.body, k.body)
      BY <3>4 DEF Fits
    <3> DEFINE e == a.body
    <3>6. e \in Object /\ Timely(e) /\ Fits(e, k.body) /\ Again(c, k, "ghost", "put", e, TRUE, k.body)
      BY <1>1, <2>2, <3>1, <3>5
    <3> HIDE DEF e
    <3> QED
      BY <1>0, <1>1, <1>3, <1>5, <2>o, <3>6, AgainKeeps
  <2>3. CASE a.status = 200 /\ cl' = [cl EXCEPT ![c] = Ended(j)] /\ UNCHANGED net
    <3>1. a.body \in Body /\ Timely(a.body) /\ a.body.until \in Nat /\ a.body.by \in Client
      BY <1>2, <2>3, BodyFields DEF Fine
    <3>2. Clock(a.body.by) <= now /\ Clock(a.body.by) \in 0..MaxTime
      BY <1>1, ClockLag, ClockType
    <3>3. a.body.until <= Clock(a.body.by) + TTL
      BY <3>1 DEF Timely
    <3>4. a.body.until < t + TTL + SEC
      BY <1>1, <2>t, <3>1, <3>2, <3>3
    <3>5. g \in [etag : Object, since : 0..MaxTime] /\ g.etag = a.body /\ g.since = t
      BY <1>1, <2>t
    <3>6. GhostOK(g)
      BY <3>4, <3>5 DEF GhostOK
    <3> HIDE DEF g
    <3>7. j \in Clients
      BY <1>1, <1>i, <3>5
    <3>8. j.ghost = g /\ j.handle = None /\ j.left = left
      BY <1>1 DEF Clients
    <3> HIDE DEF j
    <3> QED
      BY <1>0, <2>3, <3>6, <3>7, <3>8, EndKeeps
  <2> QED
    BY <1>l, <2>1, <2>2, <2>3
<1>10. ASSUME DeleteDone(c, a) PROVE Goal
  <2>s. k.stage \in DelStage
    BY <1>10 DEF DeleteDone, DelStage
  <2>o. k.over \in Body /\ k.over.by = c /\ Timely(k.over) /\ k.over.until <= left + TTL
    BY <1>2, <2>s DEF Fine
  <2>1. Again(c, k, "delbare", "delete", k.over, FALSE, None) \/ Unreachable(c)
    BY <1>10 DEF DeleteDone, Unreachable
  <2>2. CASE Again(c, k, "delbare", "delete", k.over, FALSE, None)
    BY <1>0, <1>1, <1>3, <1>5, <2>2, <2>o, AgainKeeps
  <2> QED
    BY <1>u, <2>1, <2>2
<1> HIDE DEF a
<1> QED
  BY <1>0, <1>7, <1>8, <1>9, <1>10

\* Every step keeps the inductive invariant.
LEMMA HopIInvStep == HopIInv /\ [HopNext]_hopVars => HopIInv'
<1> SUFFICES ASSUME HopIInv, [HopNext]_hopVars
             PROVE  HopIInv'
  OBVIOUS
<1>1. HopTypeOK' /\ Phases'
  BY HopTypeStep, PhasesStep DEF HopIInv
<1>2. Asking' /\ Sole' /\ Kinds' /\ ClientsOK' /\ Kept'
  BY AcceptKeeps, TakeKeeps, RenameKeeps, SyncKeeps, ReplaceKeeps, LateKeeps, CrashKeeps, RestKeeps,
     BeginKeeps, AnsweredKeeps, GiveUpKeeps
     DEF HopNext, ServerStep, ClientStep
<1> QED
  BY <1>1, <1>2 DEF HopIInv

\* It holds at first, when nothing is asked and nobody holds anything.
LEMMA HopIInvInit == HopInit => HopIInv
<1> SUFFICES ASSUME HopInit
             PROVE  HopIInv
  OBVIOUS
<1>1. HopTypeOK /\ Phases
  BY HopInitType, HopInitCas
<1>2. /\ net = {} /\ queue = <<>> /\ store = IdleStore /\ disk.cur = None /\ disk.old = None /\ now = 0
      /\ DOMAIN queue = {} /\ ToSet(queue) = {}
  BY DEF HopInit, ToSet
<1>3. None \notin Body
  BY BodyFields
<1>4. Asking
  <2>1. Pending = {IdleStore.ask}
    BY <1>2 DEF Pending
  <2> QED
    BY <2>1, IdleAsk DEF Asking, Match
<1>5. Sole
  BY <1>2, IdleAsk DEF Sole
<1>6. Kinds
  BY <1>2, <1>3, IdleAsk DEF Kinds, Timely
<1>7. ASSUME NEW c \in Client
      PROVE  /\ cl[c].stage = "idle" /\ cl[c].handle = None /\ cl[c].left = -1 /\ cl[c].ghost = NoGhost
             /\ answer[c] = NoAnswer
  BY DEF HopInit
<1>8. ClientsOK
  <2> SUFFICES ASSUME NEW c \in Client PROVE Fine(c, cl[c], answer[c])
    BY DEF ClientsOK, ClientOK
  <2>1. Clock(c) \in 0..MaxTime
    BY <1>1, ClockType DEF HopTypeOK
  <2>2. cl[c].left <= Clock(c)
    BY <1>7, <2>1
  <2>3. NoAnswer.status # 200 /\ NoGhost.etag = None
    BY DEF NoAnswer, NoGhost
  <2> QED
    BY <1>7, <2>2, <2>3 DEF Fine, PutStage, DelStage
<1>9. Kept
  <2>1. \A c \in Client : \A h \in Body : ~Token(c, h)
    BY <1>3, <1>7 DEF Token, NoAnswer
  <2> QED
    BY <2>1 DEF Kept, Runs
<1> QED
  BY <1>1, <1>4, <1>5, <1>6, <1>8, <1>9 DEF HopIInv

\* Two nodes never believe at once within their records: the object would have to
\* name both.
LEMMA Believed == HopIInv => OneBeliever
<1> SUFFICES ASSUME HopIInv, NEW c \in Client, NEW d \in Client, Believes(c), Believes(d), c # d,
                    Covered(c), Covered(d), ~(kind = "volume" /\ faults > 0)
             PROVE  FALSE
  BY DEF OneBeliever
<1>1. ASSUME NEW e \in Client, Believes(e), Covered(e) PROVE Obj.by = e
  <2>1. cl[e].handle \in Body
    BY <1>1, ClientFields DEF HopIInv, HopTypeOK, Believes, Object
  <2>2. Runs(e, cl[e].handle)
    BY <1>1 DEF Runs, Token, Believes, Covered
  <2> QED
    BY <2>1, <2>2 DEF HopIInv, Kept, Stands, Carries
<1> QED
  BY <1>1

\* What is answered is durable.
LEMMA DurableStep ==
  ASSUME HopIInv, HopNext
  PROVE  AnsweredIsDurable
<1> USE DEF HopIInv
<1> SUFFICES ASSUME NEW c \in Client, kind = "file", answer[c] = NoAnswer, answer'[c].status = 200,
                    cl[c].stage = "put"
             PROVE  disk'.old = disk'.cur /\ disk'.cur = answer'[c].body
  BY DEF AnsweredIsDurable
<1>0. NoAnswer.status # 200 /\ answer'[c] # answer[c] /\ Status(401).status # 200
      /\ Status(500).status # 200 /\ Status(504).status # 200 /\ Status(204).status # 200
  BY DEF NoAnswer, Status
<1>r. ASSUME NEW d, NEW a, Reply(d, a) PROVE d = c /\ answer'[c] = a
  BY <1>0, <1>r DEF Reply, HopTypeOK
<1>1. ASSUME NEW r \in net, Accept(r) PROVE FALSE
  <2>1. Begin(r) # NoAnswer /\ Reply(r.from, Begin(r))
    BY <1>0, <1>1 DEF Accept
  <2>2. Begin(r) = Status(401)
    BY <2>1 DEF Begin
  <2> QED
    BY <1>0, <1>r, <2>1, <2>2
<1>2. CASE StoreTake
  <2>1. PICK a \in Answers : Reply(Head(queue).from, a) /\ (a.status = 200 => Head(queue).op \in {"get", "head"})
    BY <1>0, <1>2, TakeAnswers
  <2>2. Head(queue).from = c /\ Head(queue).op \in {"get", "head"}
    BY <1>r, <2>1
  <2>3. Head(queue) \in Pending
    BY <1>2, PendingType, TakeCases, Elements DEF Pending
  <2>4. Match(Head(queue))
    BY <2>3 DEF Asking
  <2> QED
    BY <2>2, <2>4 DEF Match
<1>3. CASE Rename
  BY <1>0, <1>3, <1>r DEF Rename
<1>4. CASE SyncDir
  <2>1. PICK synced \in BOOLEAN :
          /\ disk' = IF synced THEN [disk EXCEPT !.old = disk.cur] ELSE disk
          /\ Reply(store.ask.from,
                   CASE store.ask.op = "delete" -> Status(204)
                     [] store.ask.op # "delete" /\ synced -> [status |-> 200, body |-> store.ask.body]
                     [] OTHER -> Status(500))
    BY <1>4 DEF SyncDir
  <2>2. disk.cur = store.ask.body
    BY <1>4 DEF SyncDir, Phases
  <2>3. answer'[c] = CASE store.ask.op = "delete" -> Status(204)
                       [] store.ask.op # "delete" /\ synced -> [status |-> 200, body |-> store.ask.body]
                       [] OTHER -> Status(500)
    BY <1>r, <2>1
  <2>4. synced /\ answer'[c] = [status |-> 200, body |-> store.ask.body]
    BY <1>0, <2>3
  <2>5. disk' = [disk EXCEPT !.old = disk.cur]
    BY <2>1, <2>4
  <2>6. disk'.old = disk.cur /\ disk'.cur = disk.cur
    BY <2>5 DEF HopTypeOK
  <2> QED
    BY <2>2, <2>4, <2>6
<1>5. CASE Replace
  BY <1>5 DEF Replace, Kinds
<1>6. ASSUME NEW i, StoreLate(i) PROVE FALSE
  BY <1>0, <1>6, <1>r DEF StoreLate
<1>7. ASSUME NEW d \in Client, Answered(d) PROVE FALSE
  BY <1>0, <1>7 DEF Answered, HopTypeOK
<1> QED
  BY ZenonT(30), <1>0, <1>1, <1>2, <1>3, <1>4, <1>5, <1>6, <1>7
     DEF HopNext, ServerStep, ClientStep, Commit, Crash, GhostAppears, Tick, Claim, Renew, Release, GiveUp

\* What is taken has expired.
LEMMA TakenStep ==
  ASSUME HopIInv, HopTypeOK', HopNext
  PROVE  TakenOnlyWhenExpired
<1> USE DEF HopIInv
<1> SUFFICES ASSUME Obj \in Body, Obj' \in Body, Obj'.by # Obj.by, faults' = faults
             PROVE  Obj.until < now + SEC
  BY DEF TakenOnlyWhenExpired
<1>1. faults \in Nat /\ faults' # faults + 1 /\ Obj' # Obj
  BY DEF HopTypeOK
<1>2. Cas!CasNext
  BY CasStep
<1>3. PICK r \in Writes : r.over = Obj /\ Obj' = r.body
  BY <1>1, <1>2 DEF Cas!CasNext, Cas!Ask, Cas!Apply, Cas!Fault, Asked
<1>4. r \in Pending /\ r.op \in {"put", "delete"}
  BY <1>3 DEF Writes, Pending
<1>5. Sound(r) /\ r \in Requests
  BY <1>4, PendingType DEF Asking
<1>6. r.over # None /\ r.body # None
  BY <1>3, BodyFields
<1>7. r.op = "put"
  BY <1>4, <1>5, <1>6 DEF Sound
<1>8. Fits(r.over, r.body)
  BY <1>5, <1>7 DEF Sound
<1> QED
  BY <1>3, <1>6, <1>8 DEF Fits

\* At most one node believes in its lease at any time, whatever requests are
\* lost, late, repeated or outlive their client, and whatever the power does.
THEOREM OneNodeBelieves == HopSpec => []HopInv
<1>1. HopIInv => HopInv
  BY Whole, Believed DEF HopIInv, HopInv
<1> QED
  BY <1>1, HopIInvInit, HopIInvStep, PTL DEF HopSpec

\* No step answers a put before it is durable, or gives away a lease that has not
\* expired.
THEOREM LeasesAreKept == HopSpec => HopKeeps
<1>1. HopIInv /\ HopTypeOK' /\ [HopNext]_hopVars => [AnsweredIsDurable /\ TakenOnlyWhenExpired]_hopVars
  BY DurableStep, TakenStep
<1>2. HopIInv => HopTypeOK
  BY DEF HopIInv
<1> QED
  BY <1>1, <1>2, HopIInvInit, HopIInvStep, PTL DEF HopSpec, HopKeeps
=============================================================================
