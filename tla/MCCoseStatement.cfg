\* Nineteen protected headers, two pairs in the unprotected bucket.
SPECIFICATION Spec
CONSTANTS
  None = None
  ref1 = ref1
  ref2 = ref2
  badRef = badRef
  MaxRefs = 2
  MaxUnprotected = 2
  References <- MCReferences
  MalformedReferences <- MCMalformed
  ProtectedChoices <- MCProtected
  UnprotectedPairs <- MCUnprotected
  Payloads <- MCPayloads
  OptionChoices <- MCOptions
INVARIANTS
  AcceptedAlikeEverywhere
  UnprotectedNeverHelps
  CheckedPayloadIsSigned
