CONSTANTS
  Job = {"web"}
  MaxId = 2
  MaxSlot = 2
  SIZE = 2
  ORDERS = 1
  PIECES = 1
  MAX_CONCURRENT_DOWNLOADS = 2
  MaxBoots = 1
  AgentSeq <- TwoAgents
  JobSeq <- TwoJobs
  Own = "own"
  Desired <- OneOfEach
  Cap <- OneEach
  DISPATCH_Q = 3
  INBOX_Q = 1
  MaxFaults = 1
  MaxRegs = 2
  MaxTerms = 2
  MaxOps = 2
SPECIFICATION HopOSSpec
CHECK_DEADLOCK FALSE
INVARIANTS ResidentInv RelayInv
PROPERTIES SlotsRespected LoadsEnd PlacedAtLast
