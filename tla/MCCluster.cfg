CONSTANTS
  Agent = {1, 2}
  Job = {1, 2}
  Defs <- UnitDefs
  Capacity <- TwoNodes
  KeepPriority = KeepPriority
  Starts <- Found
  Turns = 2
  MaxId = 4
  MaxMail = 2
  Node = {a, b}
  StateJob = {j, k}
  InitJobs = {j}
  Host = {a}
  STATE_Q = 2
  MaxMutations = 2
  MaxFaults = 1
  MaxTerms = 2
SPECIFICATION ClusterSpec
INVARIANTS LeaderInv StateInv
PROPERTIES NeverTakesTheLast ChurnEnds Converges NothingForgotten CommittedAtLast
