CONSTANTS
  Me = me
  Others = {o}
  NoNode = NoNode
  TTL = 2
  RenewEvery = 1
  TAKEOVER_AFTER = 1
  ISOLATED_AFTER = 2
  Platforms = {"host", "HopOS"}
  STATE_Q = 1
  MaxLink = 1
  MaxLate = 1
SPECIFICATION Spec
INVARIANTS ElectionInv
