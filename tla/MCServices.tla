----------------------------- MODULE MCServices ------------------------------
(***************************************************************************)
(* Three services that must not come to a stop: the HTTP front of a node   *)
(* (Front), the host runner (HostRunner) and the tunnel to the edge        *)
(* (Tunnel).  They share no state, so a behaviour runs one of them and TLC *)
(* explores the sum of the three, not the product.                         *)
(***************************************************************************)
EXTENDS Front, HostRunner, Tunnel

VARIABLE part

serviceVars == <<part, frontVars, hostVars, tunVars>>

ServiceInit ==
  /\ part \in {"front", "runner", "tunnel"}
  /\ FrontInit /\ HostStart /\ TunInit
  /\ part # "front" => build = "host"
  /\ part # "tunnel" <=> appStop

ServiceNext ==
  \/ part = "front" /\ FrontNext /\ UNCHANGED <<part, hostVars, tunVars>>
  \/ part = "runner" /\ HostNext /\ UNCHANGED <<part, frontVars, tunVars>>
  \/ part = "tunnel" /\ TunNext /\ UNCHANGED <<part, frontVars, hostVars>>

\* The fairness of FrontFair, HostFair and TunFair, for the part that runs.
ServiceFair ==
  /\ WF_frontVars(part = "front" /\ (place \/ \E quiet \in SUBSET park : accept_round(quiet)))
  /\ WF_frontVars(part = "front" /\ park # {} /\ accept_round(park))
  /\ WF_frontVars(part = "front" /\ Owner)
  /\ \A w \in Worker : WF_frontVars(part = "front" /\ WorkerStep(w))
  /\ WF_hostVars(part = "runner" /\ HostTick({t \in HostIds : own[t] = "task"}, {}, {}, {}))
  /\ \A t \in Execs :
       /\ WF_hostVars(part = "runner" /\ grp[t].killed # "no" /\ LeaderDies(t, FALSE))
       /\ WF_hostVars(part = "runner" /\ grp[t].killed = "all" /\ KidsDie(t))
  /\ \A t \in Boxes :
       WF_hostVars(part = "runner" /\ (StopAndRemove(t, FALSE) \/ StopAndRemove(t, TRUE)))
  /\ \A i \in Index :
       /\ WF_tunVars(part = "tunnel" /\ WaitOver(i))
       /\ WF_tunVars(part = "tunnel" /\ (Dialled(i) \/ DialFails(i)))
       /\ WF_tunVars(part = "tunnel" /\ BellRings(i))
       /\ WF_tunVars(part = "tunnel" /\ ControlOpens(i))
       /\ WF_tunVars(part = "tunnel" /\ Registered(i))
  /\ WF_tunVars(part = "tunnel" /\ CloseAll)

ServiceSpec == ServiceInit /\ [][ServiceNext]_serviceVars /\ ServiceFair
==============================================================================
