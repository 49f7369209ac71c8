CONSTANTS
  web = web
  api = api
  batch = batch
  Job = {web, api, batch}
  NoGroup = NoGroup
  Defs <- SomeDefs
  Capacity = 2
  WORKERS = 1
  MAX_TASKS = 3
  MAX_JOBS = 2
  MaxId = 4
  MaxProbes = 1
  BLOCK = 2
  MAX_LONG = 3
  MAX_CDIR = 20
  LIM = 4
  ENTRY = 2
  BUF = 2
  Artifacts <- MCArtifacts
  W = 2
  WSIZE = 4
  MAXBITS = 4
  MAXLCODES = 8
  MAXDCODES = 4
  LEN_BASE <- MCLenBase
  LEN_EXTRA <- MCLenExtra
  DIST_BASE <- MCDistBase
  DIST_EXTRA <- MCDistExtra
  CL_ORDER <- MCOrder
  FixedLengths <- MCFixed
  Repeats17 <- MCRepeats
  CRCBITS = 4
  POLY = 12
  ReadSizes = {1, 3}
  Scripts <- MCScripts
  OtherStreams <- MCOther
SPECIFICATION NodeSpec
INVARIANTS AgentInv UnInv ZInv
PROPERTIES AgentKeeps
