-------------------------------- MODULE MCNode --------------------------------
(***************************************************************************)
(* What a node does to run tasks: the agent (Agent), and the artifacts a   *)
(* task starts from (Unpack, Inflate).  The models share no state, so a    *)
(* behaviour runs one of them and TLC explores the sum, not the product.   *)
(***************************************************************************)
EXTENDS Agent, MCUnpack, MCInflate, TLC

\* The jobs of the agent.

CONSTANTS web, api, batch

Def(cpu, group, max, check, fits) ==
  [cpu |-> cpu, group |-> group, max |-> max, check |-> check, fits |-> fits]

\* Two jobs share a pool.  An update of the first resizes it and ends its health
\* checks and restarts, one of the second takes it out of the pool, and one of
\* the third, alone, leaves it without an artifact for this node.
SomeDefs ==
  (web :> {Def(1, "pool", 2, 2, TRUE), Def(2, "pool", 0, 0, TRUE)})
    @@ (api :> {Def(1, "pool", -1, 0, TRUE), Def(1, NoGroup, -1, 0, TRUE)})
    @@ (batch :> {Def(1, NoGroup, 2, 0, TRUE), Def(1, NoGroup, 0, 0, FALSE)})

VARIABLE part

nodeVars == <<part, vars, unVars, zVars>>

\* The part that runs starts from each of its inputs, the others rest in one.
NodeInit ==
  /\ part \in {"agent", "unpack", "inflate"}
  /\ IF part = "unpack" THEN art \in Artifacts ELSE art = Plain
  /\ IF part = "inflate" THEN Stream
     ELSE zMade = [how |-> "any", of |-> <<>>, cut |-> FALSE] /\ zSrc = <<>>
  /\ ZStarts /\ UnStarts /\ Init

\* A node with nothing to do waits for the next call, and a stream that was
\* read to its end is done.
Rests == part \in {"agent", "inflate"} /\ UNCHANGED nodeVars

NodeNext ==
  \/ part = "agent" /\ Next /\ UNCHANGED <<part, unVars, zVars>>
  \/ part = "unpack" /\ UnNext /\ UNCHANGED <<part, vars, zVars>>
  \/ part = "inflate" /\ ZNext /\ UNCHANGED <<part, vars, unVars>>
  \/ Rests

NodeSpec == NodeInit /\ [][NodeNext]_nodeVars
===============================================================================
