\* String tokens with an escape that JSON does not have.
SPECIFICATION Spec
CONSTANTS
  Spellings <- MCSpellings
  Decoded <- MCDecoded
  Nfc <- MCNfc
  Lone <- MCLone
  Misspelled <- MCMisspelled
  Vectors <- MCVectors
  MaxDepth = 2
  MaxTokens = 5
  MaxWrong = 2
  Suite = 0
INVARIANTS
  ConformingTextsAreJson
CHECK_DEADLOCK FALSE
