\* verify_impl on two files, one of which may be rewritten at any moment.
SPECIFICATION Spec
CONSTANTS
  Cases = 2
  MaxEdits = 1
  Files <- MCFiles
  Commands <- MCCommands
INVARIANTS
  GreenMeansSatisfied
  FlagReaderIsCaught
  ReferenceIsNeverFailed
PROPERTIES
  IsCountedRun
  RunEnds
\* The process exits.
CHECK_DEADLOCK FALSE
