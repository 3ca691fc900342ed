-------------------------- MODULE RepositoryGates --------------------------
(***************************************************************************)
(* The two workflows that grade a change of the registry.  Their path      *)
(* filters tell them apart (.github/workflows/registry.yml and             *)
(* registry-entries.yml): a change of REGISTRY.md or registry.json starts  *)
(* one, a change of an entry or of vectors the other.  They share no file. *)
(***************************************************************************)
EXTENDS RegistryBuild, EntryGate

CONSTANT Published  \* the text at rest when entries change

ASSUME PublishedAssumption == IsSection(Published.lines)

VARIABLE changed    \* "registry" or "entries"

vars == <<changed, buildVars, entryVars>>

Init ==
  \/ /\ changed = "registry"
     /\ BuildInit
     /\ entries = Missing /\ vectors = <<>> /\ grading = Idle /\ vectorEdits = 0
  \/ /\ changed = "entries"
     /\ EntryInit
     /\ md = Published /\ file = Absent /\ job = NoJob /\ basis = None /\ jobs = 0 /\ edits = 0

RegistryChange == changed = "registry" /\ UNCHANGED <<changed, entryVars>>
EntryChange == changed = "entries" /\ UNCHANGED <<changed, buildVars>>

Next ==
  \/ \E mode \in Modes : Start(mode) /\ RegistryChange
  \/ Generate /\ RegistryChange
  \/ Validate /\ RegistryChange
  \/ PrintOut /\ RegistryChange
  \/ Compare /\ RegistryChange
  \/ CheckCommitted /\ RegistryChange
  \/ Truncate /\ RegistryChange
  \/ Fill /\ RegistryChange
  \/ Killed /\ RegistryChange
  \/ EditText /\ RegistryChange
  \/ CheckOutFile /\ RegistryChange
  \/ StartGrading /\ EntryChange
  \/ GradeDeclaration /\ EntryChange
  \/ RunCheckVectors /\ EntryChange
  \/ CheckVectorsDies /\ EntryChange
  \/ CountTwoSidedness /\ EntryChange
  \/ FinishGrading /\ EntryChange
  \/ EditVectors /\ EntryChange

Spec == Init /\ [][Next]_vars
=============================================================================
