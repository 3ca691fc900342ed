\* Two members, two contents, two exclusion sets, one id issued at a time.
CONSTANTS
  None = None
  this = this
  that = that
  MemberNames <- MCMemberNames
  Contents <- MCContents
  Cutoff <- MCCutoff
  CarriedField = "id"
  Exclusions <- MCExclusions
  RecordChoices <- MCRecordChoices
  EditChoices <- MCEditChoices
  EvidenceTimes <- MCEvidenceTimes
  MaxIssues = 1

SPECIFICATION Spec
INVARIANTS
  IssuedIdsBindTheirRecord
  IssuedIdsKeepVerifying
  SelfReferenceNeverVerifies
  WithdrawnRestsOnItsEvidence
