\* A registry change and an entry change through their workflows.
SPECIFICATION Spec
CONSTANTS
  None = None
  Missing = None
  Names = {"a", "b"}
  Types = {"t"}
  Purposes = {"id"}
  Drafts <- MCTexts
  Revisions <- MCRevisions
  Published <- MCPublished
  EntryLists <- MCEntryLists
  VectorSets <- MCVectorSets
  VectorRevisions <- MCVectorRevisions
  MaxEdits = 1
  MaxJobs = 2
  MaxVectorEdits = 1
INVARIANTS
  GreenTreeIsSound
  WrittenWasValidated
  NotesStayWithTheirRow
  SummaryIsFaithful
  GreenEntriesAreBacked
\* The runs end.
CHECK_DEADLOCK FALSE
