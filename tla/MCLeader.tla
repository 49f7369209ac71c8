------------------------------- MODULE MCLeader -------------------------------
(* Instances of module Leader for TLC. *)
EXTENDS Leader

Def(count, size, policy, where) ==
  [count |-> count, size |-> size, policy |-> policy, where |-> where]

\* Jobs of one size: alone on one of the nodes or in pairs, with each policy, and
\* a daemon.
UnitDefs ==
  {Def(1, 1, "rolling", {2}), Def(2, 1, "rolling", Agent), Def(2, 1, "recreate", Agent),
   Def(-1, 1, "bluegreen", Agent)}

\* A large node and a small one.
TwoNodes == (1 :> 2) @@ (2 :> 1)

StoredJob(count, prio, deploying) ==
  [count |-> count, size |-> 1, policy |-> "rolling", where |-> Agent, prio |-> prio, deploying |-> deploying]

At(id, a, j) == [id |-> id, at |-> a, job |-> j, size |-> 1]

Left(requests, faults) == [requests |-> requests, faults |-> faults]

\* What a leader finds: nothing; a pair together beside a single job; the same
\* pair in the midst of a roll-out; a pair apart and a more important job twice
\* its size, with room on the large node, or wanted on the small one alone.
Found ==
  {[jobs |-> <<>>, tasks |-> {}, left |-> Left(3, 0)],
   [jobs |-> (1 :> StoredJob(2, 1, FALSE)) @@ (2 :> StoredJob(1, 0, FALSE)),
    tasks |-> {At(1, 1, 1), At(2, 1, 1), At(1, 2, 2)}, left |-> Left(1, 1)],
   [jobs |-> (1 :> StoredJob(2, 0, TRUE)),
    tasks |-> {At(1, 1, 1), At(2, 1, 1), At(1, 2, 1)}, left |-> Left(1, 1)]}
  \cup {[jobs |-> (1 :> [StoredJob(1, 0, FALSE) EXCEPT !.size = 2, !.where = w]) @@ (2 :> StoredJob(2, 1, FALSE)),
         tasks |-> {At(1, 1, 2), At(1, 2, 2)}, left |-> Left(0, 1)] : w \in {Agent, {2}}}

\* A leader that takes over while a job runs on the second node; nothing fails.
OneRuns ==
  {[jobs |-> 1 :> StoredJob(1, 0, FALSE), tasks |-> {At(1, 2, 1)}, left |-> Left(1, 0)]}

\* A pair together on a full node.
PairOnFullNode ==
  {[jobs |-> (1 :> StoredJob(2, 0, FALSE)) @@ (2 :> StoredJob(1, 1, FALSE)),
    tasks |-> {At(1, 1, 1), At(2, 1, 1), At(1, 2, 2)}, left |-> Left(1, 1)]}
================================================================================
