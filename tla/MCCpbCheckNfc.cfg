\* Names that differ only in their normalization form.
SPECIFICATION Spec
CONSTANTS
  Spellings <- MCAllSpellings
  Decoded <- MCDecoded
  Nfc <- MCNfc
  Lone <- MCLone
  Misspelled <- MCMisspelled
  Vectors <- MCVectors
  MaxDepth = 2
  MaxTokens = 9
  MaxWrong = 2
  Suite = 0
INVARIANTS
  NfcDuplicatesAreReported
CHECK_DEADLOCK FALSE
