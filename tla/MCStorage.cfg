CONSTANTS
  Client = {"a", "b"}
  HopOS = {"b"}
  TTL = 2
  SEC = 2
  MaxTime = 3
  MaxStray = 1
  MaxCalls = 3
  MaxFaults = 1
  CHUNK = 2
  MaxLen = 3
  MaxWrites = 3
  MaxTasks = 2
SPECIFICATION Spec
CHECK_DEADLOCK FALSE
INVARIANTS HopInv
PROPERTIES HopKeeps ImplementsCas ObjectsAreWhole CallsEnd
