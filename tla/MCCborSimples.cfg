\* Simple values in more bytes than they need.
SPECIFICATION Spec
CONSTANTS
  ItemHeads <- MCProtectedHeads
  Sign1Heads <- MCSign1Heads
  ProtectedHeads <- MCProtectedHeads
  MaxHeads <- MCMaxHeads
  MaxDepth = 3
  MaxItems = 6
INVARIANTS
  AcceptedIsWellFormed
CHECK_DEADLOCK FALSE
