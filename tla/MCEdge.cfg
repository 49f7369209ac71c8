CONSTANTS
  ApiNodes = {"n1", "n2", "n3"}
  PROXY_MAX_BODY = 2
  MAX_BODY_BYTES = 1
  TASKS_EACH = 2
  TASKS_BUDGET = 3
  NameOrder <- MCNameOrder
  Reread <- MCReread
  Setups <- MCSetups
  MaxTries = 2
  MaxApiCuts = 1
  Requests <- MCRequests
  Responses <- MCResponses
  MaxRequests = 2
  BUF = 2
  MaxCuts = 1
  LB_WORKERS = 2
  LBConns = 3
  LB_INBOX = 2
  MAX_SERIES = 1
  MAX_SAMPLES = 2
  Tables <- MCTables
  HostNames <- MCHostNames
  LBScenarios <- MCScenarios
  MAX_PROG = 10
  MAX_NEST = 1
  MAX_REPEAT = 2
  MAX_JUMPS = 2
  MaxText = 2
  Trees <- MCTrees
  Folds = {TRUE, FALSE}
SPECIFICATION EdgeSpec
INVARIANTS ApiInv ProxyInv BalancerInv RegexInv
