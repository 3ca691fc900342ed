\* The decoder on every input over the heads of the module.
SPECIFICATION Spec
CONSTANTS
  ItemHeads <- MCItemHeads
  Sign1Heads <- MCSign1Heads
  ProtectedHeads <- MCProtectedHeads
  MaxHeads <- MCMaxHeads
  MaxDepth = 3
  MaxItems = 6
INVARIANTS
  StrictInputIsItsEncoding
  AcceptsCborUpToSimples
  LimitsAreExact
  KeysAreDistinct
  ItemsAreCounted
  FixtureDecoderAgrees
\* The call returns.
CHECK_DEADLOCK FALSE
