CONSTANTS
  CONNS = 3
  WORKERS = 2
  MAX_STREAMS = 1
  PARK_CAP = 1
  Builds = {"HopOS", "host"}
  MaxSays = 3
  Execs = {x1}
  Boxes = {b1}
  MaxFaults = 1
  MaxLives = 2
  CONNECTIONS = 2
  EDGES = 2
  DeadEdges = {1}
  BACKOFF_MAX = 4
  RetryAfters = {50}
  MaxEdgeFaults = 1
  MaxOpened = 2
SPECIFICATION ServiceSpec
CHECK_DEADLOCK FALSE
INVARIANTS FrontInv HostInv TunInv
PROPERTIES RequestsRead HostKeeps StopEnds TunKeeps ComesBack
