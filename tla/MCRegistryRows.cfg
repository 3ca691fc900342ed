\* A row below an annotation.
SPECIFICATION Spec
CONSTANTS
  None = None
  Missing = None
  Names = {"a", "b"}
  Types = {"t"}
  Purposes = {"id"}
  Drafts <- MCTexts
  Revisions <- MCRevisions
  Published <- MCPublished
  EntryLists <- MCEntryLists
  VectorSets <- MCVectorSets
  VectorRevisions <- MCVectorRevisions
  MaxEdits = 1
  MaxJobs = 2
  MaxVectorEdits = 1
INVARIANT EveryRowIsAnEntry
CHECK_DEADLOCK FALSE
