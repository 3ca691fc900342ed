----------------------------- MODULE EntryGate -----------------------------
(***************************************************************************)
(* The registry-entries workflow: .github/validate_registry_entries.py     *)
(* goes through the entry files, runs .github/check_vectors.py in a        *)
(* subprocess on the vectors an entry declares, and then reads the same    *)
(* files again to count positive and must-fail vectors.                    *)
(*                                                                         *)
(* What a check of a vector finds is part of the vector: "holds", "fails", *)
(* or "none" when the vector gives it nothing to check.                    *)
(***************************************************************************)
EXTENDS Integers, FiniteSets, Sequences

CONSTANTS
  EntryLists,     \* the entries a tree may hold; None: no such directory
  VectorSets,     \* the vector directory: functions from file names to vectors
  VectorRevisions, \* those it may be replaced with while it is graded
  MaxVectorEdits, \* bound: such edits
  Missing         \* the absent value

VARIABLES
  entries,   \* the entry files, in the order they are gone through
  vectors,   \* the vector directory the entries may declare
  grading,   \* the run of validate_registry_entries
  vectorEdits \* history: edits made

entryVars == <<entries, vectors, grading, vectorEdits>>

(* What the checks of one vector may find, and what an entry may declare.  *)
Results == {"none", "holds", "fails"}
VectorType ==
  [json : {"object", "list", "bad"}, contrast : Results, carrier : Results, diverge : Results,
   mapping : Results, mustFail : BOOLEAN, informative : BOOLEAN, digest : {"holds", "fails"},
   hasInput : BOOLEAN, hasPreImage : BOOLEAN, algorithm : {"none", "jcs", "as-transmitted"}]
EntryType ==
  [wellFormed : BOOLEAN,
   rung : {"provisional", "reserved", "owner_authored", "third_party_documented"},
   dir : {"none", "present", "missing"}, external : {"none", "pinned", "branch"}]

ASSUME VectorsAssumption ==
  \A set \in VectorSets \cup VectorRevisions :
    IsFiniteSet(DOMAIN set) /\ \A f \in DOMAIN set : set[f] \in VectorType
ASSUME EntriesAssumption ==
  \A list \in EntryLists :
    \/ list = Missing
    \/ DOMAIN list = 1..Len(list) /\ Len(list) \in Nat /\ \A i \in DOMAIN list : list[i] \in EntryType

CompleteRungs == {"owner_authored", "third_party_documented"}
Kinds == {"passed", "diverged", "informative", "skipped", "failed"}

-----------------------------------------------------------------------------
(* check_vectors: how it counts one vector, in order.  A vector that       *)
(* declares a divergence goes on to the checks below it and is counted     *)
(* again.                                                                  *)

PassedIf(found) == IF found = "holds" THEN "passed" ELSE "failed"

Divergence(v) ==
  CASE v.diverge = "none" -> <<>>
    [] v.diverge = "holds" -> <<"diverged">>
    [] v.diverge = "fails" -> <<"failed">>

(* Nothing to recompute a digest from: neither an algorithm with a check of*)
(* its own nor an input with its pre-image.                                *)
IsRecomputable(v) == v.algorithm \in {"jcs", "as-transmitted"} \/ (v.hasInput /\ v.hasPreImage)

Remainder(v) ==
  CASE v.mapping = "fails" -> <<"failed">>
    [] v.mapping # "fails" /\ v.mustFail /\ v.informative ->
         <<IF v.digest = "holds" THEN "informative" ELSE "failed">>
    [] v.mapping # "fails" /\ v.mustFail /\ ~v.informative -> <<PassedIf(v.digest)>>
    [] v.mapping # "fails" /\ ~v.mustFail /\ IsRecomputable(v) -> <<PassedIf(v.digest)>>
    [] OTHER -> <<IF v.carrier = "holds" THEN "passed" ELSE "skipped">>

(* Mutated form: the vector is done with once its divergence was shown.    *)
OutcomesToDivergence(v) ==
  CASE v.json # "object" -> <<"failed">>
    [] v.json = "object" /\ v.contrast # "none" -> <<PassedIf(v.contrast)>>
    [] v.json = "object" /\ v.contrast = "none" /\ v.carrier = "fails" -> <<"failed">>
    [] OTHER -> IF v.diverge = "none" THEN Remainder(v) ELSE Divergence(v)

Outcomes(v) ==
  CASE v.json # "object" -> <<"failed">>
    [] v.json = "object" /\ v.contrast # "none" -> <<PassedIf(v.contrast)>>
    [] v.json = "object" /\ v.contrast = "none" /\ v.carrier = "fails" -> <<"failed">>
    [] OTHER -> Divergence(v) \o Remainder(v)

(* A vector that is no object raises out of the loop, before any summary.  *)
PrintsSummary(set) == \A f \in DOMAIN set : set[f].json # "list"

CountedAs(kind, set) ==
  {at \in (DOMAIN set) \X (1..2) :
     at[2] \in DOMAIN Outcomes(set[at[1]]) /\ Outcomes(set[at[1]])[at[2]] = kind}
Counted(set) == [kind \in Kinds |-> Cardinality(CountedAs(kind, set))]

(* count_two_sidedness, over the files as they are now.                    *)
LooksLikeVector(v) ==
  v.json = "object" /\ (v.hasInput \/ v.hasPreImage \/ v.diverge # "none" \/ v.mustFail)
Positives(set) == {f \in DOMAIN set : LooksLikeVector(set[f]) /\ ~set[f].mustFail}
MustFails(set) == {f \in DOMAIN set : LooksLikeVector(set[f]) /\ set[f].mustFail}

(* Mutated form: one side is enough.                                       *)
HasASide(set) == Positives(set) \cup MustFails(set) # {}

IsTwoSided(set) == Positives(set) # {} /\ MustFails(set) # {}

-----------------------------------------------------------------------------
(* The grader: the entry it is at, whether its vectors were run, the       *)
(* entries with a problem, and the exit status (-1 while it runs).         *)
Grading(at, ran, problems, quiet, exit) ==
  [at |-> at, ran |-> ran, problems |-> problems, quiet |-> quiet, exit |-> exit]
Idle == Grading(0, FALSE, {}, TRUE, -1)
IsGrading == grading.at > 0 /\ grading.exit = -1
Entry == entries[grading.at]
AtEntry == IsGrading /\ grading.at <= Len(entries)

Advance(isProblem) ==
  grading' = [grading EXCEPT !.at = @ + 1, !.ran = FALSE,
                             !.problems = IF isProblem THEN @ \cup {grading.at} ELSE @]

StartGrading ==
  /\ grading = Idle
  /\ grading' = IF entries = Missing THEN Grading(1, FALSE, {}, TRUE, 2)
                ELSE IF entries = <<>> THEN Grading(1, FALSE, {}, TRUE, 0)
                ELSE [Idle EXCEPT !.at = 1]
  /\ UNCHANGED <<entries, vectors, vectorEdits>>

(* An entry that needs no run: not well-formed, or with no vectors here.   *)
GradeDeclaration ==
  /\ AtEntry /\ ~grading.ran
  /\ Entry.wellFormed => Entry.dir # "present"
  /\ Advance(\/ ~Entry.wellFormed
             \/ Entry.dir = "missing"
             \/ Entry.dir = "none" /\ Entry.external = "branch"
             \/ Entry.dir = "none" /\ Entry.external = "none" /\ Entry.rung \in CompleteRungs)
  /\ UNCHANGED <<entries, vectors, vectorEdits>>

RunCheckVectors ==
  /\ AtEntry /\ ~grading.ran
  /\ Entry.wellFormed /\ Entry.dir = "present"
  /\ IF ~PrintsSummary(vectors) \/ Counted(vectors)["failed"] > 0 THEN Advance(TRUE)
     ELSE grading' = [grading EXCEPT !.ran = TRUE]
  /\ UNCHANGED <<entries, vectors, vectorEdits>>

(* The subprocess ends without a summary.                                  *)
CheckVectorsDies ==
  /\ AtEntry /\ ~grading.ran
  /\ Entry.wellFormed /\ Entry.dir = "present"
  /\ Advance(TRUE)
  /\ UNCHANGED <<entries, vectors, vectorEdits>>

CountTwoSidedness ==
  /\ AtEntry /\ grading.ran
  /\ Advance(Entry.rung \in CompleteRungs /\ ~IsTwoSided(vectors))
  /\ UNCHANGED <<entries, vectors, vectorEdits>>

FinishGrading ==
  /\ IsGrading /\ grading.at > Len(entries)
  /\ grading' = [grading EXCEPT !.exit = IF grading.problems = {} THEN 0 ELSE 1]
  /\ UNCHANGED <<entries, vectors, vectorEdits>>

EditVectors ==
  /\ IsGrading /\ vectorEdits < MaxVectorEdits
  /\ vectorEdits' = vectorEdits + 1
  /\ vectors' \in VectorRevisions
  /\ grading' = [grading EXCEPT !.quiet = FALSE]
  /\ UNCHANGED entries

EntryInit ==
  /\ entries \in EntryLists
  /\ vectors \in VectorSets
  /\ grading = Idle
  /\ vectorEdits = 0

EntryNext ==
  \/ StartGrading
  \/ GradeDeclaration \/ RunCheckVectors \/ CheckVectorsDies \/ CountTwoSidedness
  \/ FinishGrading
  \/ EditVectors

EntrySpec == EntryInit /\ [][EntryNext]_entryVars

-----------------------------------------------------------------------------
(* A vector that is refuted by one of the checks that apply to it.         *)
IsRefuted(v) ==
  \/ v.json # "object"
  \/ v.contrast = "fails"
  \/ v.contrast = "none" /\ "fails" \in {v.carrier, v.diverge, v.mapping}
  \/ v.contrast = "none" /\ v.digest = "fails" /\ (v.mustFail \/ IsRecomputable(v))

(* The summary hides nothing: a vector that any applicable check refutes is*)
(* counted as failed whatever else it is counted as, one that none refutes *)
(* is not, and every vector is counted at least once.                      *)
SummaryIsFaithful ==
  PrintsSummary(vectors) =>
    /\ Counted(vectors)["failed"] > 0 <=> \E f \in DOMAIN vectors : IsRefuted(vectors[f])
    /\ \A f \in DOMAIN vectors : Outcomes(vectors[f]) # <<>>

(* When the workflow is green and nobody edited under it, each entry of a  *)
(* complete rung cites a pinned set of its owner, or stands beside vectors *)
(* of both kinds none of which is refuted.                                 *)
GreenEntriesAreBacked ==
  grading.exit = 0 /\ grading.quiet =>
    \A i \in DOMAIN entries :
      /\ entries[i].wellFormed
      /\ entries[i].dir = "present" =>
           \A f \in DOMAIN vectors : ~IsRefuted(vectors[f])
      /\ entries[i].rung \in CompleteRungs =>
           \/ entries[i].dir = "none" /\ entries[i].external = "pinned"
           \/ /\ entries[i].dir = "present"
              /\ \E f, g \in DOMAIN vectors : ~vectors[f].mustFail /\ vectors[g].mustFail

(* "An entry whose vectors_dir is declared but never actually runs is      *)
(* exactly the gap this script exists to close - vector-backed must mean   *)
(* mechanically exercised" (.github/validate_registry_entries.py:21): a    *)
(* green entry of a complete rung has a vector of each kind that was.      *)
VectorBackedMeansExercised ==
  grading.exit = 0 /\ grading.quiet =>
    \A i \in DOMAIN entries :
      entries[i].rung \in CompleteRungs /\ entries[i].dir = "present" =>
        \A mustFail \in BOOLEAN : \E f \in DOMAIN vectors :
          /\ vectors[f].mustFail = mustFail
          /\ \E j \in DOMAIN Outcomes(vectors[f]) : Outcomes(vectors[f])[j] \in {"passed", "diverged"}
=============================================================================
