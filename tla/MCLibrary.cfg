\* One snapshot handle and one caller, in three scenarios.
CONSTANTS
  None = None
  TypeNames <- MCTypeNames
  PurposeNames <- MCPurposeNames
  AlgorithmTokens <- MCAlgorithmTokens
  MemberNames <- MCMemberNames
  Contents <- MCContents
  Cutoff <- MCCutoff
  AlgorithmIds <- MCAlgorithmIds
  Handles <- MCHandles
  Bodies <- MCBodies
  Documents <- MCDocuments
  Pins <- MCPins
  ImplementationChoices <- MCImplementationChoices
  ContextSetChoices <- MCContextSetChoices
  PublishedSets <- MCPublishedSets
  ReferenceChoices <- MCReferences
  TextChoices <- MCTexts
  VintageChoices <- MCVintages

SPECIFICATION MCSpec
INVARIANTS
  TypeOK
  VerifiedTreesStayAuthentic
  AnswersFollowThePin
  AnchoredDefinitionsAreComplete
  DefinitionsAreBoundToTheirPin
  CallTypeOK
  VerifiedOnlyIfJustified
  ConstructedReferencesVerify
  GatePrecedesWithdrawal
  VerifiedUnderThePinnedRegistration
PROPERTY ImplementsCitedArtifact
