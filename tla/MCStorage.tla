------------------------------ MODULE MCStorage ------------------------------
(***************************************************************************)
(* The two users of remote storage, the lease (Hoplock) and the apps'      *)
(* objects (ObjStore).  They share no state, so a behaviour runs one or    *)
(* the other and TLC explores the sum of the two, not the product.         *)
(***************************************************************************)
EXTENDS Hoplock, ObjStore, TLC

VARIABLE part

Init ==
  /\ part \in {"lease", "objects"}
  /\ HopInit /\ (part = "objects" => kind = "file" /\ \A c \in Client : cl[c].auth)
  /\ ObjInit

Next ==
  \/ part = "lease" /\ HopNext /\ UNCHANGED <<part, objVars>>
  \/ part = "objects" /\ ObjNext /\ UNCHANGED <<part, hopVars>>

Spec == Init /\ [][Next]_<<part, hopVars, objVars>> /\ HopFair /\ ObjFair

\* A call of c that a power cut took: nobody has it any more.
CutDown(c) ==
  /\ cuts > 0 /\ answer[c] = NoAnswer
  /\ \A r \in net \cup ToSet(queue) \cup {store.ask} : r.from # c

\* No call is left without an answer: neither one of a node to the server, a
\* write that the volume refuses included, unless the power was cut while the
\* server had it, nor one of an app that is still there.
CallsEnd ==
  []<>(IF part = "lease" THEN \A c \in Client : cl[c].stage = "idle" \/ CutDown(c)
                         ELSE ticket = NoTicket)
==============================================================================
