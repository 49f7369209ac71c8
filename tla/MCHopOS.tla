------------------------------- MODULE MCHopOS --------------------------------
(***************************************************************************)
(* Two models of a HopOS node: what it runs itself (Resident), and what it *)
(* has others run when it leads (Relay).  They share no state, so a        *)
(* behaviour runs one of them and TLC explores the sum of the two.         *)
(***************************************************************************)
EXTENDS Resident, Relay

\* Two agents with room for one instance each, and two jobs of one instance.
OneEach == [a \in Agents |-> 1]
OneOfEach == [j \in Jobs |-> 1]
TwoAgents == <<"n1", "own">>
TwoJobs == <<"h", "l">>

VARIABLE part

hopOSVars == <<part, vars, relayVars>>

HopOSInit ==
  /\ part \in {"resident", "relay"}
  /\ Init /\ RelayInit

HopOSNext ==
  \/ part = "resident" /\ Next /\ UNCHANGED <<part, relayVars>>
  \/ part = "relay" /\ RelayNext /\ UNCHANGED <<part, vars>>

\* The fairness of the two, for the part that runs.
HopOSFair ==
  /\ WF_vars(part = "resident" /\ Tick)
  /\ WF_vars(part = "resident" /\ TakePiece)
  /\ WF_vars(part = "resident" /\ Download)
  /\ WF_relayVars(part = "relay" /\ OnMail)
  /\ WF_relayVars(part = "relay" /\ RelayTask)
  /\ WF_relayVars(part = "relay" /\ LeaderTick /\ settled')
  /\ WF_relayVars(part = "relay" /\ \E a \in Remotes : Register(a))
  /\ WF_relayVars(part = "relay" /\ \E a \in Remotes, j \in Jobs : Expire(a, j))

HopOSSpec == HopOSInit /\ [][HopOSNext]_hopOSVars /\ HopOSFair

\* Only the resident, for the finding about it.
ResidentOnly == part = "resident" /\ Init /\ RelayInit /\ [][HopOSNext]_hopOSVars
===============================================================================
