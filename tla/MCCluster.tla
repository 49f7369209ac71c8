------------------------------ MODULE MCCluster ------------------------------
(***************************************************************************)
(* What a leader has, in the cluster (Leader) and in the store             *)
(* (CommittedState).  The two models share no state, so a behaviour runs   *)
(* one or the other and TLC explores the sum of the two, not the product.  *)
(***************************************************************************)
EXTENDS MCLeader, CommittedState

VARIABLE part

clusterVars == <<part, vars, stateVars>>

ClusterInit ==
  /\ part \in {"jobs", "state"}
  /\ Init /\ StateInit
  /\ part = "state" => left.requests = 3
  /\ part = "jobs" => committed = Nothing

ClusterNext ==
  \/ part = "jobs" /\ Next /\ UNCHANGED <<part, stateVars>>
  \/ part = "state" /\ StateNext /\ UNCHANGED <<part, vars>>

\* The fairness of FairSpec and of StateFairSpec, for the part that runs.
ClusterFair ==
  /\ WF_vars(part = "jobs" /\ Continue)
  /\ WF_vars(part = "jobs" /\ Tick(~leader.settled, {a \in leader.agents : up[a] # "up"}, TRUE))
  /\ \A a \in Agent :
       /\ WF_vars(part = "jobs" /\ HandleMail(a))
       /\ WF_vars(part = "jobs" /\ a \notin leader.agents /\ Waits /\ SendRegister(a))
  /\ \A n \in Node : WF_stateVars(OwnerStep(n)) /\ WF_stateVars(StateThread(n))

ClusterSpec == ClusterInit /\ [][ClusterNext]_clusterVars /\ ClusterFair
==============================================================================
