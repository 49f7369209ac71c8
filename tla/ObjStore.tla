------------------------------ MODULE ObjStore ------------------------------
(***************************************************************************)
(* The object store of the apps on HopOS: an app asks the kernel for a     *)
(* push, a pull or a drop of one of its files, Hop fetches the call,       *)
(* moves the bytes between the kernel and the bucket a chunk at a time and *)
(* reports the outcome.  The app may write its file meanwhile, and it may  *)
(* be stopped.                                                             *)
(*                                                                         *)
(* A file and an object are sequences of units.  The app never writes the  *)
(* same unit twice.  That the bucket refuses a body whose hash is not the  *)
(* signed one is its contract (external).                                  *)
(***************************************************************************)
EXTENDS Integers, Sequences, SequencesExt

CONSTANTS
  CHUNK,               \* the units of one call to the kernel
  MaxLen, MaxWrites, MaxTasks   \* bounds

VARIABLES
  file,     \* the app's file
  writes,   \* the writes of the app so far
  ticket,   \* the app's call at the kernel: its number and operation
  tasks,    \* the calls so far
  bucket,   \* the object, or NoObject
  svc,      \* the service
  snap,     \* the file when its hash was complete
  told      \* the outcome that the app was last told

objVars == <<file, writes, ticket, tasks, bucket, svc, snap, told>>

NoObject == <<-1>>
Units == BoundedSeq(0..MaxWrites, MaxLen)

\* hash, sent and left: the units hashed, uploaded, still to be downloaded;
\* buf: the units that the sink holds; off: where it writes next.
Idle == [n |-> 0, op |-> "none", phase |-> "idle", size |-> 0, hash |-> <<>>, sent |-> <<>>,
         left |-> <<>>, buf |-> <<>>, off |-> 0, clean |-> TRUE]

ServedOp == {"none", "push", "pull", "drop"}

NoTicket == [n |-> 0, op |-> "none"]

\* The call that is being served is no longer the app's.
Gone == ticket.n # svc.n

-----------------------------------------------------------------------------
(* The kernel's side of a call *)

\* STORE_READ: from off, at most n units of the file as it is now.
StoreRead(off, n) == SubSeq(file, off + 1, IF off + n < Len(file) THEN off + n ELSE Len(file))

\* STORE_WRITE: the file cut off or filled up with zeros at off, then the data.
StoreWrite(off, data) == [i \in 1..off |-> IF i <= Len(file) THEN file[i] ELSE 0] \o data

-----------------------------------------------------------------------------
(* The app *)

AppWrite ==
  /\ writes < MaxWrites
  /\ writes' = writes + 1
  /\ \E n \in 0..MaxLen : \E i \in 0..n :
       /\ file' = [j \in 1..n |-> IF j = i \/ j > Len(file) THEN writes + 1 ELSE file[j]]
       /\ file' # file
  /\ svc' = [svc EXCEPT !.clean = FALSE]
  /\ UNCHANGED <<ticket, tasks, bucket, snap, told>>

AppCalls(op) ==
  /\ ticket = NoTicket /\ tasks < MaxTasks
  /\ ticket' = [n |-> tasks + 1, op |-> op] /\ tasks' = tasks + 1
  /\ told' = "nothing"
  /\ UNCHANGED <<file, writes, bucket, svc, snap>>

\* The slot is stopped: its call is gone.
AppGone ==
  /\ ticket # NoTicket
  /\ ticket' = NoTicket
  /\ UNCHANGED <<file, writes, tasks, bucket, svc, snap, told>>

-----------------------------------------------------------------------------
(* The service *)

\* handle: the outcome goes to the app, if it is still there.
Finish(outcome) ==
  /\ svc' = Idle
  /\ told' = IF Gone THEN told ELSE outcome
  /\ ticket' = IF Gone THEN ticket ELSE NoTicket
  /\ UNCHANGED <<writes, tasks>>

Same == UNCHANGED <<writes, ticket, tasks, told>>

\* serve_one and run: the next call, and where it starts.  A node without a
\* bucket answers every call with an error.
Take ==
  /\ svc.phase = "idle" /\ ticket # NoTicket
  /\ svc' = [Idle EXCEPT !.n = ticket.n, !.op = ticket.op,
                         !.phase = CASE ticket.op = "push" -> "stat" [] ticket.op = "pull" -> "get" [] OTHER -> "drop"]
  /\ UNCHANGED <<file, bucket, snap>> /\ Same

\* hash_file: the size first, then every chunk of it.
HashStat ==
  /\ svc.phase = "stat"
  /\ IF Gone THEN Finish("error") /\ UNCHANGED <<file, bucket, snap>>
     ELSE /\ svc' = [svc EXCEPT !.size = Len(file), !.phase = "hash"]
          /\ UNCHANGED <<file, bucket, snap>> /\ Same

HashChunk ==
  /\ svc.phase = "hash" /\ Len(svc.hash) < svc.size
  /\ LET left == svc.size - Len(svc.hash)
         got == StoreRead(Len(svc.hash), IF left < CHUNK THEN left ELSE CHUNK)
     IN  IF Gone \/ got = <<>>
         THEN Finish("error") /\ UNCHANGED <<file, bucket, snap>>
         ELSE svc' = [svc EXCEPT !.hash = @ \o got] /\ UNCHANGED <<file, bucket, snap>> /\ Same

HashDone ==
  /\ svc.phase = "hash" /\ Len(svc.hash) = svc.size
  /\ svc' = [svc EXCEPT !.phase = "send"]
  /\ snap' = file
  /\ UNCHANGED <<file, bucket>> /\ Same

\* KernSource: the same size again, from the file as it is by now.
SendChunk ==
  /\ svc.phase = "send" /\ Len(svc.sent) < svc.size
  /\ LET left == svc.size - Len(svc.sent)
         got == StoreRead(Len(svc.sent), IF left < CHUNK THEN left ELSE CHUNK)
     IN  IF Gone \/ got = <<>>
         THEN Finish("error") /\ UNCHANGED <<file, bucket, snap>>
         ELSE svc' = [svc EXCEPT !.sent = @ \o got] /\ UNCHANGED <<file, bucket, snap>> /\ Same

\* (slip: the hash is not part of what is signed)
SendUnsigned(s) == TRUE

SendAccepted(s) == s.sent = s.hash

\* push: the bucket takes the body only with the hash that was signed.
SendDone ==
  /\ svc.phase = "send" /\ Len(svc.sent) = svc.size
  /\ IF SendAccepted(svc)
     THEN bucket' = svc.sent /\ Finish("ok")
     ELSE Finish("error") /\ UNCHANGED bucket
  /\ UNCHANGED <<file, snap>>

\* pull: a GET, and its body as it comes.
GetHead ==
  /\ svc.phase = "get"
  /\ IF bucket = NoObject
     THEN Finish("notFound") /\ UNCHANGED <<file, bucket, snap>>
     ELSE /\ svc' = [svc EXCEPT !.phase = "sink", !.left = bucket, !.hash = bucket, !.clean = TRUE]
          /\ UNCHANGED <<file, bucket, snap>> /\ Same

\* poll_write: a full buffer goes to the kernel before the next unit.
SinkWrite ==
  /\ svc.phase = "sink" /\ svc.left # <<>>
  /\ IF Len(svc.buf) = CHUNK
     THEN IF Gone THEN Finish("error") /\ UNCHANGED file
          ELSE /\ file' = StoreWrite(svc.off, svc.buf)
               /\ svc' = [svc EXCEPT !.off = @ + Len(svc.buf), !.buf = <<>>]
               /\ Same
     ELSE /\ svc' = [svc EXCEPT !.buf = Append(@, Head(svc.left)), !.left = Tail(@)]
          /\ UNCHANGED file /\ Same
  /\ UNCHANGED <<bucket, snap>>

\* finish: the tail, and for an empty object a write that empties the file.
SinkFinish ==
  /\ svc.phase = "sink" /\ svc.left = <<>>
  /\ IF svc.buf = <<>> /\ svc.off > 0 THEN Finish("ok") /\ UNCHANGED file
     ELSE IF Gone THEN Finish("error") /\ UNCHANGED file
     ELSE file' = StoreWrite(svc.off, svc.buf) /\ Finish("ok")
  /\ UNCHANGED <<bucket, snap>>

Drop ==
  /\ svc.phase = "drop"
  /\ bucket' = NoObject
  /\ Finish("ok")
  /\ UNCHANGED <<file, snap>>

\* The bucket or the way to it fails, at any point of a transfer.
BucketFails ==
  /\ svc.phase \in {"send", "get", "sink", "drop"}
  /\ Finish("error")
  /\ UNCHANGED <<file, bucket, snap>>

-----------------------------------------------------------------------------
ObjInit ==
  /\ file = <<>> /\ writes = 0 /\ ticket = NoTicket /\ tasks = 0
  /\ bucket = NoObject /\ svc = Idle /\ snap = <<>> /\ told = "nothing"

ServiceStep ==
  \/ Take \/ HashStat \/ HashChunk \/ HashDone \/ SendChunk \/ SendDone
  \/ GetHead \/ SinkWrite \/ SinkFinish \/ Drop \/ BucketFails

ObjNext ==
  \/ AppWrite
  \/ \E op \in ServedOp \ {"none"} : AppCalls(op)
  \/ AppGone
  \/ ServiceStep

ObjFair == WF_objVars(ServiceStep)

ObjSpec == ObjInit /\ [][ObjNext]_objVars /\ ObjFair

-----------------------------------------------------------------------------
(* Properties *)

ObjTypeOK ==
  /\ file \in Units /\ snap \in Units /\ bucket \in Units \cup {NoObject}
  /\ writes \in 0..MaxWrites /\ tasks \in 0..MaxTasks
  /\ ticket \in [n : 0..MaxTasks, op : ServedOp]
  /\ told \in {"nothing", "ok", "error", "notFound"}
  /\ svc.op \in ServedOp /\ svc.size \in 0..MaxLen /\ svc.off \in 0..MaxLen
  /\ {svc.hash, svc.sent, svc.left, svc.buf} \subseteq Units /\ Len(svc.buf) <= CHUNK

\* What a push leaves in the bucket is the file as it was at one moment, up to
\* the size that it had first, however the app wrote to it while it was read
\* twice in chunks.
PushedIsASnapshot ==
  bucket' # bucket /\ bucket' # NoObject => bucket' = SubSeq(snap, 1, svc.size)

\* A pull that is reported done left the whole object in the file and nothing
\* of what was there, unless the app itself wrote to it.
PulledIsWhole ==
  svc.phase = "sink" /\ svc.clean /\ told' = "ok" /\ ~Gone /\ svc'.phase = "idle"
  => file' = svc.hash

\* No push and no pull ends with a mixture, whatever the app writes meanwhile,
\* and the transfer never buffers more than a chunk.
ObjectsAreWhole ==
  /\ []ObjTypeOK
  /\ [][/\ PushedIsASnapshot
        /\ PulledIsWhole]_objVars
=============================================================================
