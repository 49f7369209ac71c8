CONSTANTS
  Node = {a, b}
  NoNode = NoNode
  TTL = 1
  MaxSkew = 1
  MaxTime = 2
  MaxWrites = 3
  MaxLate = 1
SPECIFICATION Spec
SYMMETRY Symmetry
INVARIANTS LeaseOK
PROPERTIES LeaseMoves ImplementsLock
