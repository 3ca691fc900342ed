\* cpb-check on every text of up to ten tokens, and on packaged suites.
SPECIFICATION Spec
CONSTANTS
  Spellings <- MCSpellings
  Decoded <- MCDecoded
  Nfc <- MCNfc
  Lone <- MCLone
  Misspelled <- MCMisspelled
  Vectors <- MCVectors
  MaxDepth = 2
  MaxTokens = 10
  MaxWrong = 7
  Suite = 3
INVARIANTS
  RepeatedMembersAreReported
  AcceptsJsonUpToTokens
  DepthCountsOpenBrackets
  ConformingMeansNormalForm
  ConformingIsDigestible
  ExitZeroIsEarned
\* The process exits.
CHECK_DEADLOCK FALSE
