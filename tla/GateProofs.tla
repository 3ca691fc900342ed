---------------------------- MODULE GateProofs ----------------------------
(***************************************************************************)
(* Proofs about the two workflows, side by side.  Of the entry workflow,   *)
(* for any entries and any vectors: the summary of the vector checker hides*)
(* nothing, and a green run's entries are backed.  Of the runs of the      *)
(* registry generator, for every text, every number of runs and edits, and *)
(* kills at any step: what they write was validated, what they pass is     *)
(* sound, and notes stay with their row.                                   *)
(***************************************************************************)
EXTENDS RepositoryGates, FiniteSetTheorems, SequenceTheorems, WellFoundedInduction, TLAPS

IsVectorSet(set) == IsFiniteSet(DOMAIN set) /\ \A f \in DOMAIN set : set[f] \in VectorType

IsEntryList(list) ==
  \/ list = Missing
  \/ DOMAIN list = 1..Len(list) /\ Len(list) \in Nat /\ \A i \in DOMAIN list : list[i] \in EntryType

GradingType ==
  [at : Nat, ran : BOOLEAN, problems : SUBSET Nat, quiet : BOOLEAN, exit : {-1, 0, 1, 2}]

HasFailed(v) == \E i \in DOMAIN Outcomes(v) : Outcomes(v)[i] = "failed"

-----------------------------------------------------------------------------
(* One vector: it is counted once, or twice when it declares a divergence; *)
(* and as failed when a check that applies to it refutes it.               *)
LEMMA RemainderIsOne ==
  ASSUME NEW v
  PROVE  \E kind : Remainder(v) = <<kind>>
BY DEF Remainder

LEMMA TwoOutcomes ==
  ASSUME NEW a, NEW b
  PROVE  <<a>> \o <<b>> = <<a, b>>
<1> DEFINE S == {a, b}
<1>1. <<a>> \in Seq(S) /\ <<b>> \in Seq(S) /\ <<a, b>> \in Seq(S)
  OBVIOUS
<1>2. /\ Len(<<a>> \o <<b>>) = 2
      /\ (<<a>> \o <<b>>)[1] = a
      /\ (<<a>> \o <<b>>)[2] = b
      /\ <<a>> \o <<b>> \in Seq(S)
  BY <1>1, ConcatProperties
<1>3. \A i \in 1..2 : (<<a>> \o <<b>>)[i] = <<a, b>>[i]
  BY <1>2
<1> QED BY <1>1, <1>2, <1>3, SeqEqual

LEMMA RemainderFails ==
  ASSUME NEW v \in VectorType
  PROVE  Remainder(v)[1] = "failed" <=>
           \/ v.mapping = "fails"
           \/ v.digest = "fails" /\ (v.mustFail \/ IsRecomputable(v))
<1>1. CASE v.mapping = "fails"
  BY <1>1 DEF Remainder
<1>2. CASE v.mapping # "fails" /\ v.mustFail /\ v.informative
  BY <1>2 DEF Remainder, VectorType
<1>3. CASE v.mapping # "fails" /\ v.mustFail /\ ~v.informative
  BY <1>3 DEF Remainder, PassedIf, VectorType
<1>4. CASE v.mapping # "fails" /\ ~v.mustFail /\ IsRecomputable(v)
  BY <1>4 DEF Remainder, PassedIf, VectorType
<1>5. CASE v.mapping # "fails" /\ ~v.mustFail /\ ~IsRecomputable(v)
  <2>1. Remainder(v) = <<IF v.carrier = "holds" THEN "passed" ELSE "skipped">>
    BY <1>5 DEF Remainder
  <2> QED BY <1>5, <2>1
<1> QED BY <1>1, <1>2, <1>3, <1>4, <1>5 DEF VectorType

LEMMA OutcomesOfVector ==
  ASSUME NEW v \in VectorType
  PROVE  /\ HasFailed(v) <=> IsRefuted(v)
         /\ Outcomes(v) # <<>>
         /\ DOMAIN Outcomes(v) \subseteq 1..2
<1>1. CASE v.json # "object"
  <2>1. Outcomes(v) = <<"failed">>
    BY <1>1 DEF Outcomes
  <2> QED BY <1>1, <2>1 DEF HasFailed, IsRefuted
<1>2. CASE v.json = "object" /\ v.contrast # "none"
  <2>1. Outcomes(v) = <<PassedIf(v.contrast)>>
    BY <1>2 DEF Outcomes
  <2>2. PassedIf(v.contrast) = "failed" <=> v.contrast = "fails"
    BY <1>2 DEF PassedIf, VectorType, Results
  <2> QED BY <1>2, <2>1, <2>2 DEF HasFailed, IsRefuted
<1>3. CASE v.json = "object" /\ v.contrast = "none" /\ v.carrier = "fails"
  <2>1. Outcomes(v) = <<"failed">>
    BY <1>3 DEF Outcomes
  <2> QED BY <1>3, <2>1 DEF HasFailed, IsRefuted
<1>4. CASE v.json = "object" /\ v.contrast = "none" /\ v.carrier # "fails"
  <2>1. Outcomes(v) = Divergence(v) \o Remainder(v)
    BY <1>4 DEF Outcomes
  <2>2. PICK kind : Remainder(v) = <<kind>>
    BY RemainderIsOne
  <2>3. kind = "failed" <=>
           v.mapping = "fails" \/ (v.digest = "fails" /\ (v.mustFail \/ IsRecomputable(v)))
    BY <2>2, RemainderFails
  <2>4. CASE v.diverge = "none"
    <3>1. Outcomes(v) = <<kind>>
      BY <2>1, <2>2, <2>4 DEF Divergence
    <3> QED BY <1>4, <2>3, <2>4, <3>1 DEF HasFailed, IsRefuted
  <2>5. CASE v.diverge = "holds"
    <3>1. Divergence(v) = <<"diverged">>
      BY <2>5 DEF Divergence
    <3>2. Outcomes(v) = <<"diverged", kind>>
      BY <2>1, <2>2, <3>1, TwoOutcomes
    <3> QED BY <1>4, <2>3, <2>5, <3>2 DEF HasFailed, IsRefuted
  <2>6. CASE v.diverge = "fails"
    <3>1. Divergence(v) = <<"failed">>
      BY <2>6 DEF Divergence
    <3>2. Outcomes(v) = <<"failed", kind>>
      BY <2>1, <2>2, <3>1, TwoOutcomes
    <3> QED BY <1>4, <2>6, <3>2 DEF HasFailed, IsRefuted
  <2> QED BY <2>4, <2>5, <2>6 DEF VectorType, Results
<1> QED BY <1>1, <1>2, <1>3, <1>4

-----------------------------------------------------------------------------
(* A directory: the count of failures is positive when one vector is       *)
(* refuted.                                                                *)
LEMMA FailuresAreCounted ==
  ASSUME NEW set, IsVectorSet(set)
  PROVE  Counted(set)["failed"] > 0 <=> \E f \in DOMAIN set : IsRefuted(set[f])
<1> DEFINE failures == CountedAs("failed", set)
<1>1. IsFiniteSet(failures)
  <2>1. IsFiniteSet((DOMAIN set) \X (1..2))
    <3>1. IsFiniteSet(DOMAIN set)
      BY DEF IsVectorSet
    <3>2. IsFiniteSet(1..2)
      <4>1. 1 \in Int /\ 2 \in Int
        OBVIOUS
      <4> QED BY <4>1, FS_Interval, Zenon
    <3> QED BY <3>1, <3>2, FS_Product
  <2> QED BY <2>1, FS_Subset DEF CountedAs
<1>2. Counted(set)["failed"] = Cardinality(failures)
  BY DEF Counted, Kinds
<1>3. Cardinality(failures) \in Nat /\ (Cardinality(failures) = 0 <=> failures = {})
  BY <1>1, FS_CardinalityType, FS_EmptySet
<1>4. failures # {} <=> \E f \in DOMAIN set : HasFailed(set[f])
  <2>1. ASSUME NEW at \in failures
        PROVE  \E f \in DOMAIN set : HasFailed(set[f])
    BY <2>1 DEF CountedAs, HasFailed
  <2>2. ASSUME NEW f \in DOMAIN set, HasFailed(set[f])
        PROVE  failures # {}
    <3>1. PICK i \in DOMAIN Outcomes(set[f]) : Outcomes(set[f])[i] = "failed"
      BY <2>2 DEF HasFailed
    <3>2. i \in 1..2
      BY OutcomesOfVector DEF IsVectorSet
    <3>3. <<f, i>> \in failures
      BY <3>1, <3>2 DEF CountedAs
    <3> QED BY <3>3
  <2> QED BY <2>1, <2>2
<1>5. \A f \in DOMAIN set : HasFailed(set[f]) <=> IsRefuted(set[f])
  BY OutcomesOfVector DEF IsVectorSet
<1> QED BY <1>2, <1>3, <1>4, <1>5

(* What the summary of the vector checker says of any directory.           *)
LEMMA SummaryHidesNothing ==
  ASSUME IsVectorSet(vectors)
  PROVE  SummaryIsFaithful
<1>1. \A f \in DOMAIN vectors : Outcomes(vectors[f]) # <<>>
  BY OutcomesOfVector DEF IsVectorSet
<1>2. Counted(vectors)["failed"] > 0 <=> \E f \in DOMAIN vectors : IsRefuted(vectors[f])
  BY FailuresAreCounted
<1> QED BY <1>1, <1>2 DEF SummaryIsFaithful

-----------------------------------------------------------------------------
(* The run of the validator.  What stands behind an entry that was passed: *)
IsBacked(i) ==
  /\ entries[i].wellFormed
  /\ entries[i].dir = "present" => \A f \in DOMAIN vectors : ~IsRefuted(vectors[f])
  /\ entries[i].rung \in CompleteRungs =>
       \/ entries[i].dir = "none" /\ entries[i].external = "pinned"
       \/ /\ entries[i].dir = "present"
          /\ \E f, g \in DOMAIN vectors : ~vectors[f].mustFail /\ vectors[g].mustFail

EntryTypeOK ==
  /\ IsEntryList(entries)
  /\ IsVectorSet(vectors)
  /\ grading \in GradingType

(* Without edits, an entry behind the present one that is no problem is    *)
(* backed; vectors that were run are not refuted; the run ends green only  *)
(* behind the last entry, with no problem.                                 *)
PassedAreBacked ==
  grading.quiet /\ entries # Missing =>
    \A i \in DOMAIN entries : i < grading.at /\ i \notin grading.problems => IsBacked(i)
RunsAreClean ==
  grading.quiet /\ grading.ran =>
    /\ AtEntry /\ Entry.wellFormed /\ Entry.dir = "present"
    /\ \A f \in DOMAIN vectors : ~IsRefuted(vectors[f])
GreenAtTheEnd ==
  grading.exit = 0 =>
    /\ entries # Missing
    /\ grading.problems = {} /\ grading.at > Len(entries)
EntryInv == EntryTypeOK /\ PassedAreBacked /\ RunsAreClean /\ GreenAtTheEnd

(* A step from one entry to the next.                                      *)
LEMMA AdvanceKeeps ==
  ASSUME EntryInv, IsGrading, entries # Missing, NEW isProblem \in BOOLEAN, Advance(isProblem),
         grading.at \in DOMAIN entries, UNCHANGED <<entries, vectors>>,
         grading.quiet /\ ~isProblem => IsBacked(grading.at)
  PROVE  EntryInv'
<1> DEFINE problems == IF isProblem THEN grading.problems \cup {grading.at} ELSE grading.problems
           next == [at |-> grading.at + 1, ran |-> FALSE, problems |-> problems,
                    quiet |-> grading.quiet, exit |-> grading.exit]
<1>1. grading' = next
  BY DEF Advance, EntryInv, EntryTypeOK, GradingType
<1>2. grading' \in GradingType
  BY <1>1 DEF EntryInv, EntryTypeOK, GradingType
<1>3. EntryTypeOK'
  BY <1>2 DEF EntryInv, EntryTypeOK, IsEntryList, IsVectorSet
<1>4. grading'.exit = -1 /\ ~grading'.ran
  BY <1>1 DEF IsGrading
<1>5. PassedAreBacked'
  <2> SUFFICES ASSUME grading.quiet, NEW i \in DOMAIN entries,
                      i < grading.at + 1, i \notin problems
               PROVE  IsBacked(i)
    BY <1>1 DEF PassedAreBacked, IsBacked
  <2>1. i \in Nat /\ grading.at \in Nat
    BY DEF EntryInv, EntryTypeOK, IsEntryList, GradingType
  <2>2. CASE i = grading.at
    BY <2>2
  <2>3. CASE i < grading.at
    BY <2>3 DEF EntryInv, PassedAreBacked
  <2> QED BY <2>1, <2>2, <2>3
<1> QED BY <1>3, <1>4, <1>5 DEF EntryInv, RunsAreClean, GreenAtTheEnd

LEMMA EntryAtHand ==
  ASSUME EntryTypeOK, AtEntry, entries # Missing
  PROVE  /\ grading.at \in DOMAIN entries
         /\ Entry \in EntryType
BY DEF EntryTypeOK, AtEntry, IsGrading, IsEntryList, GradingType, Entry

(* Nobody is at an entry when there is no directory: the run was over at   *)
(* once.                                                                   *)
NoDirectory == entries = Missing => ~IsGrading

LEMMA EntryNextKeeps ==
  ASSUME EntryInv, NoDirectory, [EntryNext]_entryVars,
         vectors' # vectors => IsVectorSet(vectors')
  PROVE  EntryInv' /\ NoDirectory'
<1>1. CASE StartGrading
  <2>1. /\ grading = Idle
        /\ UNCHANGED <<entries, vectors>>
    BY <1>1 DEF StartGrading
  <2>2. CASE entries = Missing
    <3>1. grading' = Grading(1, FALSE, {}, TRUE, 2)
      BY <1>1, <2>2 DEF StartGrading
    <3> QED BY <2>1, <2>2, <3>1 DEF EntryInv, EntryTypeOK, IsEntryList, IsVectorSet, GradingType,
              Grading, PassedAreBacked, RunsAreClean, GreenAtTheEnd, NoDirectory, IsGrading
  <2>3. CASE entries # Missing /\ entries = <<>>
    <3>1. grading' = Grading(1, FALSE, {}, TRUE, 0)
      BY <1>1, <2>3 DEF StartGrading
    <3> QED BY <2>1, <2>3, <3>1 DEF EntryInv, EntryTypeOK, IsEntryList, IsVectorSet, GradingType,
              Grading, PassedAreBacked, RunsAreClean, GreenAtTheEnd, NoDirectory, IsGrading
  <2>4. CASE entries # Missing /\ entries # <<>>
    <3>1. grading' = [Idle EXCEPT !.at = 1]
      BY <1>1, <2>4 DEF StartGrading
    <3>2. grading' = Grading(1, FALSE, {}, TRUE, -1)
      BY <3>1 DEF Idle, Grading
    <3>3. EntryTypeOK'
      BY <2>1, <3>2 DEF EntryInv, EntryTypeOK, IsEntryList, IsVectorSet, GradingType, Grading
    <3>4. PassedAreBacked'
      BY <2>1, <2>4, <3>2 DEF EntryInv, EntryTypeOK, IsEntryList, PassedAreBacked, Grading
    <3> QED BY <2>1, <2>4, <3>2, <3>3, <3>4 DEF EntryInv, RunsAreClean, GreenAtTheEnd,
              NoDirectory, Grading
  <2> QED BY <2>2, <2>3, <2>4
<1>2. CASE GradeDeclaration
  <2> DEFINE isProblem == \/ ~Entry.wellFormed
                          \/ Entry.dir = "missing"
                          \/ Entry.dir = "none" /\ Entry.external = "branch"
                          \/ /\ Entry.dir = "none" /\ Entry.external = "none"
                             /\ Entry.rung \in CompleteRungs
  <2>1. /\ AtEntry /\ IsGrading /\ Advance(isProblem)
        /\ Entry.wellFormed => Entry.dir # "present"
        /\ UNCHANGED <<entries, vectors>>
    BY <1>2 DEF GradeDeclaration, AtEntry
  <2>2. entries # Missing
    BY <2>1 DEF NoDirectory
  <2>3. grading.at \in DOMAIN entries /\ Entry \in EntryType
    BY <2>1, <2>2, EntryAtHand DEF EntryInv
  <2>4. ~isProblem => IsBacked(grading.at)
    BY <2>1, <2>3 DEF IsBacked, Entry, EntryType
  <2>5. EntryInv'
    BY <2>1, <2>2, <2>3, <2>4, AdvanceKeeps
  <2> QED BY <2>1, <2>2, <2>5 DEF NoDirectory
<1>3. CASE RunCheckVectors
  <2>1. /\ AtEntry /\ IsGrading /\ Entry.wellFormed /\ Entry.dir = "present"
        /\ UNCHANGED <<entries, vectors>>
    BY <1>3 DEF RunCheckVectors, AtEntry
  <2>2. entries # Missing
    BY <2>1 DEF NoDirectory
  <2>3. grading.at \in DOMAIN entries /\ Entry \in EntryType
    BY <2>1, <2>2, EntryAtHand DEF EntryInv
  <2>4. CASE Advance(TRUE)
    BY <2>1, <2>2, <2>3, <2>4, AdvanceKeeps DEF NoDirectory
  <2>5. CASE ~Advance(TRUE)
    <3>1. ~(Counted(vectors)["failed"] > 0) /\ grading' = [grading EXCEPT !.ran = TRUE]
      BY <1>3, <2>5 DEF RunCheckVectors
    <3>2. \A f \in DOMAIN vectors : ~IsRefuted(vectors[f])
      BY <3>1, FailuresAreCounted DEF EntryInv, EntryTypeOK
    <3>3. /\ grading' \in GradingType
          /\ grading'.at = grading.at /\ grading'.exit = grading.exit
          /\ grading'.quiet = grading.quiet /\ grading'.problems = grading.problems
      BY <3>1 DEF EntryInv, EntryTypeOK, GradingType
    <3>4. EntryTypeOK' /\ PassedAreBacked' /\ GreenAtTheEnd'
      BY <2>1, <3>3 DEF EntryInv, EntryTypeOK, PassedAreBacked, GreenAtTheEnd, IsBacked,
                       IsEntryList, IsVectorSet
    <3>5. RunsAreClean'
      BY <2>1, <3>2, <3>3 DEF RunsAreClean, AtEntry, IsGrading, Entry
    <3> QED BY <2>1, <2>2, <3>4, <3>5 DEF EntryInv, NoDirectory
  <2> QED BY <2>4, <2>5
<1>4. CASE CheckVectorsDies
  <2>1. AtEntry /\ IsGrading /\ Advance(TRUE) /\ UNCHANGED <<entries, vectors>>
    BY <1>4 DEF CheckVectorsDies, AtEntry
  <2>2. entries # Missing
    BY <2>1 DEF NoDirectory
  <2>3. grading.at \in DOMAIN entries
    BY <2>1, <2>2, EntryAtHand DEF EntryInv
  <2> QED BY <2>1, <2>2, <2>3, AdvanceKeeps DEF NoDirectory
<1>5. CASE CountTwoSidedness
  <2> DEFINE isProblem == Entry.rung \in CompleteRungs /\ ~IsTwoSided(vectors)
  <2>1. /\ AtEntry /\ IsGrading /\ grading.ran /\ Advance(isProblem)
        /\ UNCHANGED <<entries, vectors>>
    BY <1>5 DEF CountTwoSidedness, AtEntry
  <2>2. entries # Missing
    BY <2>1 DEF NoDirectory
  <2>3. grading.at \in DOMAIN entries
    BY <2>1, <2>2, EntryAtHand DEF EntryInv
  <2>4. IsTwoSided(vectors) =>
           \E f, g \in DOMAIN vectors : ~vectors[f].mustFail /\ vectors[g].mustFail
    BY DEF IsTwoSided, Positives, MustFails
  <2>5. grading.quiet /\ ~isProblem => IsBacked(grading.at)
    BY <2>1, <2>4 DEF EntryInv, RunsAreClean, IsBacked, Entry
  <2> QED BY <2>1, <2>2, <2>3, <2>5, AdvanceKeeps DEF NoDirectory
<1>6. CASE FinishGrading
  <2>1. /\ IsGrading /\ grading.at > Len(entries)
        /\ grading' = [grading EXCEPT !.exit = IF grading.problems = {} THEN 0 ELSE 1]
        /\ UNCHANGED <<entries, vectors>>
    BY <1>6 DEF FinishGrading
  <2>2. entries # Missing
    BY <2>1 DEF NoDirectory
  <2>3. /\ grading' \in GradingType
        /\ grading'.at = grading.at /\ grading'.ran = grading.ran
        /\ grading'.quiet = grading.quiet /\ grading'.problems = grading.problems
        /\ grading'.exit = 0 => grading.problems = {}
    BY <2>1 DEF EntryInv, EntryTypeOK, GradingType
  <2>4. ~(grading.quiet /\ grading.ran)
    BY <2>1 DEF EntryInv, EntryTypeOK, IsEntryList, GradingType, RunsAreClean, AtEntry
  <2> QED BY <2>1, <2>2, <2>3, <2>4 DEF EntryInv, EntryTypeOK, PassedAreBacked, RunsAreClean,
            GreenAtTheEnd, NoDirectory, IsBacked, IsEntryList, IsVectorSet
<1>7. CASE EditVectors
  <2>1. /\ IsGrading /\ grading' = [grading EXCEPT !.quiet = FALSE] /\ UNCHANGED entries
    BY <1>7 DEF EditVectors
  <2>2. grading' \in GradingType /\ ~grading'.quiet /\ grading'.exit = grading.exit
    BY <2>1 DEF EntryInv, EntryTypeOK, GradingType
  <2>3. IsVectorSet(vectors')
    BY DEF EntryInv, EntryTypeOK
  <2>4. EntryTypeOK'
    BY <2>1, <2>2, <2>3 DEF EntryInv, EntryTypeOK, IsEntryList
  <2>5. PassedAreBacked' /\ RunsAreClean'
    BY <2>2 DEF PassedAreBacked, RunsAreClean
  <2>6. GreenAtTheEnd'
    BY <2>1, <2>2 DEF GreenAtTheEnd, IsGrading
  <2>7. NoDirectory'
    BY <2>1 DEF NoDirectory
  <2> QED BY <2>4, <2>5, <2>6, <2>7 DEF EntryInv
<1>8. CASE UNCHANGED entryVars
  BY <1>8 DEF entryVars, EntryInv, EntryTypeOK, PassedAreBacked, RunsAreClean, GreenAtTheEnd,
              NoDirectory, IsBacked, IsEntryList, IsVectorSet, AtEntry, IsGrading, Entry
<1> QED BY <1>1, <1>2, <1>3, <1>4, <1>5, <1>6, <1>7, <1>8 DEF EntryNext

LEMMA EntryInitKeeps ==
  ASSUME IsEntryList(entries), IsVectorSet(vectors), grading = Idle
  PROVE  EntryInv /\ NoDirectory
BY DEF EntryInv, EntryTypeOK, GradingType, Idle, Grading, PassedAreBacked, RunsAreClean,
       GreenAtTheEnd, NoDirectory, IsGrading, IsEntryList

LEMMA EntryInvBacks ==
  ASSUME EntryInv
  PROVE  GreenEntriesAreBacked
<1> SUFFICES ASSUME grading.exit = 0, grading.quiet, NEW i \in DOMAIN entries
             PROVE  IsBacked(i)
  BY DEF GreenEntriesAreBacked, IsBacked
<1>1. i < grading.at /\ i \notin grading.problems
  BY DEF EntryInv, EntryTypeOK, IsEntryList, GradingType, GreenAtTheEnd
<1> QED BY <1>1 DEF EntryInv, PassedAreBacked, GreenAtTheEnd

-----------------------------------------------------------------------------
LEMMA EntryStep ==
  ASSUME EntryInv, NoDirectory, [EntryNext]_entryVars
  PROVE  EntryInv' /\ NoDirectory'
<1>1. vectors' # vectors => IsVectorSet(vectors')
  BY VectorsAssumption DEF EntryNext, entryVars, StartGrading, GradeDeclaration, RunCheckVectors,
     CheckVectorsDies, CountTwoSidedness, FinishGrading, EditVectors, IsVectorSet
<1> QED BY <1>1, EntryNextKeeps

LEMMA EntryStarts ==
  ASSUME EntryInit
  PROVE  EntryInv /\ NoDirectory
<1>1. IsEntryList(entries) /\ IsVectorSet(vectors) /\ grading = Idle
  BY VectorsAssumption, EntriesAssumption DEF EntryInit, IsEntryList, IsVectorSet
<1> QED BY <1>1, EntryInitKeeps

(* Whatever the vectors of a directory are, and whenever they are replaced,*)
(* the count of failures of the vector checker is positive exactly when a  *)
(* check refutes one of them, and none goes uncounted.                     *)
THEOREM EntrySummary == EntrySpec => []SummaryIsFaithful
<1>1. EntryInv => SummaryIsFaithful
  BY SummaryHidesNothing DEF EntryInv, EntryTypeOK
<1> QED BY <1>1, EntryStarts, EntryStep, PTL DEF EntrySpec

(* A green run of the entry validator that nobody edited under leaves every*)
(* entry of any list backed as its rung demands.                           *)
THEOREM EntriesBacked == EntrySpec => []GreenEntriesAreBacked
<1> QED BY EntryInvBacks, EntryStarts, EntryStep, PTL DEF EntrySpec

-----------------------------------------------------------------------------
(* The generator.                                                          *)
Validated(from, under) == under # None /\ IsValid(Body(from), under)

(* A run past its validation holds what it validated, and while it writes, *)
(* the file is its own unless somebody put another one there.              *)
RunIsValidated ==
  job.phase \in {"valid", "current", "writing"} => Validated(job.from, job.under)
FileIsValidated ==
  Readable /\ basis # None =>
    file.doc = Document(basis.from) /\ Validated(basis.from, basis.under)
WritesItsOwn ==
  job.phase = "writing" => basis = None \/ basis = [from |-> job.from, under |-> job.under]

LEMMA DocumentBody == \A t : Document(t).body = Body(t)
BY DEF Document

(* What a run is made of, so that its fields can be updated.               *)
JobIsRecord ==
  job = [phase |-> job.phase, mode |-> job.mode, from |-> job.from, under |-> job.under,
         quiet |-> job.quiet, exit |-> job.exit]

LEMMA JobMade ==
  ASSUME NEW p, NEW m, NEW f, NEW u, NEW q, NEW e, job' = Job(p, m, f, u, q, e)
  PROVE  JobIsRecord' /\ job'.phase = p /\ job'.exit = e
BY DEF Job, JobIsRecord

LEMMA RunEndsHere ==
  ASSUME JobIsRecord, NEW e, Ends(e)
  PROVE  /\ JobIsRecord' /\ job'.phase = "ended" /\ job'.exit = e
         /\ job'.mode = job.mode /\ job'.quiet = job.quiet
<1> DEFINE r == [phase |-> "ended", mode |-> job.mode, from |-> job.from, under |-> job.under,
                 quiet |-> job.quiet, exit |-> e]
<1>1. job' = r
  BY DEF Ends, JobIsRecord
<1> QED BY <1>1 DEF JobIsRecord

LEMMA PhaseChanges ==
  ASSUME JobIsRecord, NEW p, job' = [job EXCEPT !.phase = p]
  PROVE  /\ JobIsRecord' /\ job'.phase = p /\ job'.from = job.from /\ job'.under = job.under
         /\ job'.mode = job.mode /\ job'.quiet = job.quiet
<1> DEFINE r == [phase |-> p, mode |-> job.mode, from |-> job.from, under |-> job.under,
                 quiet |-> job.quiet, exit |-> job.exit]
<1>1. job' = r
  BY DEF JobIsRecord
<1> QED BY <1>1 DEF JobIsRecord

LEMMA ReadsFirst ==
  ASSUME JobIsRecord, NEW t, job' = [job EXCEPT !.phase = "generated", !.from = t]
  PROVE  /\ JobIsRecord' /\ job'.phase = "generated" /\ job'.from = t
         /\ job'.mode = job.mode /\ job'.quiet = job.quiet
<1> DEFINE r == [phase |-> "generated", mode |-> job.mode, from |-> t, under |-> job.under,
                 quiet |-> job.quiet, exit |-> job.exit]
<1>1. job' = r
  BY DEF JobIsRecord
<1> QED BY <1>1 DEF JobIsRecord

LEMMA ReadsAgain ==
  ASSUME JobIsRecord, NEW t, job' = [job EXCEPT !.phase = "valid", !.under = t]
  PROVE  /\ JobIsRecord' /\ job'.phase = "valid" /\ job'.from = job.from /\ job'.under = t
         /\ job'.mode = job.mode /\ job'.quiet = job.quiet
<1> DEFINE r == [phase |-> "valid", mode |-> job.mode, from |-> job.from, under |-> t,
                 quiet |-> job.quiet, exit |-> job.exit]
<1>1. job' = r
  BY DEF JobIsRecord
<1> QED BY <1>1 DEF JobIsRecord

LEMMA NoLongerQuiet ==
  ASSUME JobIsRecord, job' = [job EXCEPT !.quiet = FALSE]
  PROVE  /\ JobIsRecord' /\ job'.phase = job.phase /\ ~job'.quiet
         /\ job'.from = job.from /\ job'.under = job.under
         /\ job'.mode = job.mode
<1> DEFINE r == [phase |-> job.phase, mode |-> job.mode, from |-> job.from, under |-> job.under,
                 quiet |-> FALSE, exit |-> job.exit]
<1>1. job' = r
  BY DEF JobIsRecord
<1> QED BY <1>1 DEF JobIsRecord

SafeInv == JobIsRecord /\ RunIsValidated /\ FileIsValidated /\ WritesItsOwn

LEMMA FileStays ==
  ASSUME FileIsValidated, UNCHANGED <<file, basis>>
  PROVE  FileIsValidated'
BY DEF FileIsValidated, Readable

(* A run that has ended claims nothing more.                               *)
LEMMA EndedIsSafe ==
  ASSUME SafeInv, NEW e, Ends(e), FileIsValidated'
  PROVE  SafeInv'
<1>1. JobIsRecord' /\ job'.phase = "ended"
  BY RunEndsHere DEF SafeInv
<1> QED BY <1>1 DEF SafeInv, RunIsValidated, WritesItsOwn

LEMMA WholeFields ==
  ASSUME NEW t
  PROVE  Whole(Document(t)).doc = Document(t)
BY DEF Whole, Saved

LEMMA BuildKeepsSafe ==
  ASSUME SafeInv, [BuildNext]_buildVars
  PROVE  SafeInv'
<1> USE DEF SafeInv
<1>1. ASSUME NEW mode \in Modes, Start(mode)
      PROVE  SafeInv'
  <2>1. FileIsValidated'
    BY <1>1, FileStays DEF Start
  <2>2. JobIsRecord' /\ job'.phase \in {"ended", "started"}
    BY <1>1, JobMade DEF Start
  <2> QED BY <2>1, <2>2 DEF RunIsValidated, WritesItsOwn
<1>2. CASE Generate
  <2>1. FileIsValidated'
    BY <1>2, FileStays DEF Generate
  <2>2. CASE Ends(1)
    BY <2>1, <2>2, EndedIsSafe
  <2>3. CASE ~Ends(1)
    <3>1. JobIsRecord' /\ job'.phase = "generated"
      BY <1>2, <2>3, ReadsFirst DEF Generate
    <3> QED BY <2>1, <3>1 DEF RunIsValidated, WritesItsOwn
  <2> QED BY <2>2, <2>3
<1>3. CASE Validate
  <2>1. FileIsValidated'
    BY <1>3, FileStays DEF Validate
  <2>2. CASE Ends(1)
    BY <2>1, <2>2, EndedIsSafe
  <2>3. CASE ~Ends(1)
    <3>1. md # None /\ IsValid(Body(job.from), md)
      BY <1>3, <2>3 DEF Validate
    <3>2. JobIsRecord' /\ job'.phase = "valid" /\ job'.from = job.from /\ job'.under = md
      BY <1>3, <2>3, ReadsAgain DEF Validate
    <3>3. Validated(job'.from, job'.under)
      BY <3>1, <3>2 DEF Validated
    <3> QED BY <2>1, <3>2, <3>3 DEF RunIsValidated, WritesItsOwn
  <2> QED BY <2>2, <2>3
<1>4. CASE PrintOut
  <2>1. FileIsValidated'
    BY <1>4, FileStays DEF PrintOut
  <2> QED BY <1>4, <2>1, EndedIsSafe DEF PrintOut
<1>5. CASE Compare
  <2>1. FileIsValidated'
    BY <1>5, FileStays DEF Compare
  <2>2. CASE \E e \in {0, 1} : Ends(e)
    BY <2>1, <2>2, EndedIsSafe
  <2>3. CASE job' = [job EXCEPT !.phase = "current"]
    <3>1. /\ JobIsRecord' /\ job'.phase = "current"
          /\ job'.from = job.from /\ job'.under = job.under
      BY <2>3, PhaseChanges
    <3>2. Validated(job.from, job.under)
      BY <1>5 DEF Compare, RunIsValidated
    <3> QED BY <2>1, <3>1, <3>2 DEF RunIsValidated, WritesItsOwn
  <2> QED BY <1>5, <2>2, <2>3 DEF Compare
<1>6. CASE CheckCommitted
  <2>1. FileIsValidated'
    BY <1>6, FileStays DEF CheckCommitted
  <2>2. PICK e \in {0, 1} : Ends(e)
    BY <1>6 DEF CheckCommitted
  <2> QED BY <2>1, <2>2, EndedIsSafe
<1>7. CASE Truncate
  <2>1. ~Readable'
    BY <1>7 DEF Truncate, Readable, Saved
  <2>2. /\ JobIsRecord' /\ job'.phase = "writing"
        /\ job'.from = job.from /\ job'.under = job.under
    BY <1>7, PhaseChanges DEF Truncate
  <2>3. Validated(job.from, job.under)
    BY <1>7 DEF Truncate, MayWrite, RunIsValidated
  <2>4. basis' = [from |-> job.from, under |-> job.under]
    BY <1>7 DEF Truncate
  <2> QED BY <2>1, <2>2, <2>3, <2>4 DEF RunIsValidated, WritesItsOwn, FileIsValidated
<1>8. CASE Fill
  <2>1. Validated(job.from, job.under)
    BY <1>8 DEF Fill, RunIsValidated
  <2>2. basis'.from = job.from /\ basis'.under = job.under
    BY <1>8 DEF Fill
  <2>3. file'.doc = Document(job.from)
    BY <1>8, WholeFields DEF Fill
  <2>4. FileIsValidated'
    BY <2>1, <2>2, <2>3 DEF FileIsValidated
  <2> QED BY <1>8, <2>4, EndedIsSafe DEF Fill
<1>9. CASE Killed
  <2>1. CASE file' = file
    <3>1. FileIsValidated'
      BY <1>9, <2>1, FileStays DEF Killed
    <3> QED BY <1>9, <3>1, EndedIsSafe DEF Killed
  <2>2. CASE file' # file
    <3>1. job.phase = "writing" /\ file'.doc = Document(job.from)
      BY <1>9, <2>2 DEF Killed, Saved
    <3>2. Validated(job.from, job.under)
      BY <3>1 DEF RunIsValidated
    <3>3. basis' # None => basis'.from = job.from /\ basis'.under = job.under
      BY <1>9, <3>1 DEF Killed, WritesItsOwn
    <3>4. FileIsValidated'
      BY <3>1, <3>2, <3>3 DEF FileIsValidated
    <3> QED BY <1>9, <3>4, EndedIsSafe DEF Killed
  <2> QED BY <2>1, <2>2
<1>10. CASE EditText
  <2>1. FileIsValidated'
    BY <1>10, FileStays DEF EditText
  <2>2. /\ JobIsRecord' /\ job'.phase = job.phase
        /\ job'.from = job.from /\ job'.under = job.under
    BY <1>10, NoLongerQuiet DEF EditText
  <2>3. basis' = basis
    BY <1>10 DEF EditText
  <2> QED BY <2>1, <2>2, <2>3 DEF RunIsValidated, WritesItsOwn
<1>11. CASE CheckOutFile
  <2>1. basis' = None
    BY <1>11 DEF CheckOutFile
  <2>2. /\ JobIsRecord' /\ job'.phase = job.phase
        /\ job'.from = job.from /\ job'.under = job.under
    BY <1>11, NoLongerQuiet DEF CheckOutFile
  <2> QED BY <2>1, <2>2 DEF RunIsValidated, WritesItsOwn, FileIsValidated
<1>12. CASE UNCHANGED buildVars
  BY <1>12 DEF buildVars, JobIsRecord, RunIsValidated, WritesItsOwn, FileIsValidated, Readable
<1> QED BY <1>1, <1>2, <1>3, <1>4, <1>5, <1>6, <1>7, <1>8, <1>9, <1>10, <1>11, <1>12 DEF BuildNext

-----------------------------------------------------------------------------
(* Runs that nobody edits under.                                           *)

(* While a run is quiet, what it read is still what REGISTRY.md holds; and *)
(* it compares and writes against that text.                               *)
QuietRun ==
  job.quiet =>
    /\ job.phase \in {"generated", "valid", "current", "writing"} => job.from = md
    /\ job.phase \in {"valid", "current", "writing"} => IsValid(Body(md), md)
    /\ job.phase = "current" => file = Whole(Document(md))
OnlyWritersWrite == job.phase = "writing" => job.mode = "write"

SoundInv == SafeInv /\ QuietRun /\ OnlyWritersWrite /\ GreenTreeIsSound

(* The schema's and the generator's rules together are those of the loader:*)
(* the document of a valid text passes its integrity checks.               *)
LEMMA ValidLoads ==
  ASSUME NEW t, IsValid(Body(t), t), SchemaAccepts(Body(t))
  PROVE  Loader!PassesIntegrity(Document(t), None)
<1> DEFINE b == Body(t)
<1>1. /\ Document(t).body = b /\ Document(t).sha = b
      /\ b.schema = "1"
  BY DEF Document, Body
<1> HIDE DEF b
<1>2. ASSUME NEW y \in Types, b.types[y] # None
      PROVE  b.types[y].contexts # <<>>
  BY <1>2 DEF SchemaAccepts, b
<1>3. ASSUME NEW y \in Types, Loader!IsLive(b.types[y])
      PROVE  LET rows == b.types[y].contexts IN
             /\ \A i \in DOMAIN rows : rows[i].purpose # None
             /\ \A i, j \in DOMAIN rows : i # j => rows[i].purpose # rows[j].purpose
  <2>1. b.types[y] # None /\ b.types[y].status \in LiveStatuses
    BY <1>3 DEF Loader!IsLive, Loader!LiveStatuses, LiveStatuses
  <2>2. \A i \in DOMAIN b.types[y].contexts : b.types[y].contexts[i].purpose # None
    BY <2>1 DEF SchemaAccepts, b
  <2>3. ContextsAreValid(b.types[y], {n \in Names : b.algorithms[n] # None})
    BY <2>1 DEF IsValid, b
  <2> QED BY <2>1, <2>2, <2>3 DEF ContextsAreValid
<1>4. Loader!LiveTypesResolve(b)
  BY <1>2, <1>3 DEF Loader!LiveTypesResolve
<1> QED BY <1>1, <1>4 DEF Loader!PassesIntegrity, Loader!BodyHash

(* A run that stops short of success claims nothing of the tree.           *)
LEMMA FailingIsSound ==
  ASSUME SoundInv, SafeInv', NEW e, Ends(e), e # 0
  PROVE  SoundInv'
<1>1. job'.phase = "ended" /\ job'.exit = e
  BY RunEndsHere DEF SoundInv, SafeInv
<1> QED BY <1>1 DEF SoundInv, QuietRun, OnlyWritersWrite, GreenTreeIsSound, IsGreen

(* A run that succeeds, when what a green run claims of its mode is so.    *)
LEMMA SucceedingIsSound ==
  ASSUME SoundInv, SafeInv', Ends(0),
         job.quiet /\ job.mode # "print" =>
           /\ file' = Whole(Document(md')) /\ IsValid(Body(md'), md')
           /\ job.mode = "workflow" => Loader!PassesIntegrity(Document(md'), None)
  PROVE  SoundInv'
<1>1. /\ job'.phase = "ended" /\ job'.mode = job.mode /\ job'.quiet = job.quiet
  BY RunEndsHere DEF SoundInv, SafeInv
<1>2. GreenTreeIsSound'
  BY <1>1, WholeFields, DocumentBody DEF GreenTreeIsSound, IsGreen
<1> QED BY <1>1, <1>2 DEF SoundInv, QuietRun, OnlyWritersWrite

LEMMA BuildKeepsSound ==
  ASSUME SoundInv, SafeInv', [BuildNext]_buildVars
  PROVE  SoundInv'
<1> USE DEF SoundInv
<1>1. JobIsRecord
  BY DEF SafeInv
<1>2. ASSUME NEW mode \in Modes, Start(mode)
      PROVE  SoundInv'
  <2>1. \/ job' = Job("ended", mode, None, None, TRUE, 2)
        \/ job' = Job("started", mode, None, None, TRUE, -1)
    BY <1>2 DEF Start
  <2>2. job'.phase = "started" \/ (job'.phase = "ended" /\ job'.exit = 2)
    BY <2>1, JobMade
  <2> QED BY <2>2 DEF QuietRun, OnlyWritersWrite, GreenTreeIsSound, IsGreen
<1>3. CASE Generate
  <2>1. CASE Ends(1)
    BY <2>1, FailingIsSound
  <2>2. CASE job' = [job EXCEPT !.phase = "generated", !.from = md]
    <3>1. job'.phase = "generated" /\ job'.from = md
      BY <1>1, <2>2, ReadsFirst
    <3>2. md' = md
      BY <1>3 DEF Generate
    <3> QED BY <3>1, <3>2 DEF QuietRun, OnlyWritersWrite, GreenTreeIsSound, IsGreen
  <2> QED BY <1>3, <2>1, <2>2 DEF Generate
<1>4. CASE Validate
  <2>1. CASE Ends(1)
    BY <2>1, FailingIsSound
  <2>2. CASE ~Ends(1)
    <3>1. job' = [job EXCEPT !.phase = "valid", !.under = md] /\ IsValid(Body(job.from), md)
      BY <1>4, <2>2 DEF Validate
    <3>2. job'.phase = "valid" /\ job'.from = job.from /\ job'.quiet = job.quiet
      BY <1>1, <3>1, ReadsAgain
    <3>3. job.phase = "generated" /\ md' = md
      BY <1>4 DEF Validate
    <3> QED BY <3>1, <3>2, <3>3 DEF QuietRun, OnlyWritersWrite, GreenTreeIsSound, IsGreen
  <2> QED BY <2>1, <2>2
<1>5. CASE PrintOut
  BY <1>5, SucceedingIsSound DEF PrintOut
<1>6. CASE Compare
  <2>1. job.phase = "valid" /\ UNCHANGED <<md, file>>
    BY <1>6 DEF Compare
  <2>2. CASE file # Whole(Document(job.from))
    BY <1>6, <2>2, FailingIsSound DEF Compare
  <2>3. CASE file = Whole(Document(job.from)) /\ job.mode = "check"
    <3>1. Ends(0)
      BY <1>6, <2>3 DEF Compare
    <3> QED BY <2>1, <2>3, <3>1, SucceedingIsSound DEF QuietRun
  <2>4. CASE file = Whole(Document(job.from)) /\ job.mode # "check"
    <3>1. job' = [job EXCEPT !.phase = "current"]
      BY <1>6, <2>4 DEF Compare
    <3>2. job'.phase = "current" /\ job'.from = job.from /\ job'.quiet = job.quiet
      BY <1>1, <3>1, PhaseChanges
    <3> QED BY <2>1, <2>4, <3>2 DEF QuietRun, OnlyWritersWrite, GreenTreeIsSound, IsGreen
  <2> QED BY <2>2, <2>3, <2>4
<1>7. CASE CheckCommitted
  <2>1. job.phase = "current" /\ UNCHANGED <<md, file>>
    BY <1>7 DEF CheckCommitted
  <2>2. CASE Ends(1)
    BY <2>2, FailingIsSound
  <2>3. CASE ~Ends(1)
    <3>1. Ends(0) /\ SchemaAccepts(file.doc.body)
      BY <1>7, <2>3 DEF CheckCommitted
    <3>2. job.quiet => file = Whole(Document(md)) /\ IsValid(Body(md), md)
      BY <2>1 DEF QuietRun
    <3>3. job.quiet => Loader!PassesIntegrity(Document(md), None)
      BY <3>1, <3>2, WholeFields, DocumentBody, ValidLoads
    <3> QED BY <2>1, <3>1, <3>2, <3>3, SucceedingIsSound
  <2> QED BY <2>2, <2>3
<1>8. CASE Truncate
  <2>1. job'.phase = "writing" /\ job'.from = job.from /\ job'.quiet = job.quiet
        /\ job'.mode = job.mode
    BY <1>1, <1>8, PhaseChanges DEF Truncate
  <2>2. job.phase = "valid" /\ job.mode = "write" /\ md' = md
    BY <1>8 DEF Truncate, MayWrite
  <2> QED BY <2>1, <2>2 DEF QuietRun, OnlyWritersWrite, GreenTreeIsSound, IsGreen
<1>9. CASE Fill
  <2>1. job.phase = "writing" /\ job.mode = "write" /\ md' = md
    BY <1>9 DEF Fill, OnlyWritersWrite
  <2>2. Ends(0) /\ file' = Whole(Document(job.from))
    BY <1>9 DEF Fill
  <2> QED BY <2>1, <2>2, SucceedingIsSound DEF QuietRun
<1>10. CASE Killed
  BY <1>10, FailingIsSound DEF Killed
<1>11. CASE EditText
  BY <1>1, <1>11, NoLongerQuiet DEF EditText, QuietRun, OnlyWritersWrite, GreenTreeIsSound, IsGreen
<1>12. CASE CheckOutFile
  BY <1>1, <1>12, NoLongerQuiet
     DEF CheckOutFile, QuietRun, OnlyWritersWrite, GreenTreeIsSound, IsGreen
<1>13. CASE UNCHANGED buildVars
  BY <1>13 DEF buildVars, QuietRun, OnlyWritersWrite, GreenTreeIsSound, IsGreen
<1> QED BY <1>2, <1>3, <1>4, <1>5, <1>6, <1>7, <1>8, <1>9, <1>10, <1>11, <1>12, <1>13 DEF BuildNext

-----------------------------------------------------------------------------
(* The second pass over a section, line by line.  What holds of each prefix*)
(* is shown by the first one of which it would not.                        *)
Begun == [current |-> None, found |-> {}]
IsPass(g, known, lines, n) ==
  g = [i \in 0..n |-> IF i = 0 THEN Begun ELSE AfterLine(known, g[i - 1], lines[i])]

LEMMA FirstNumber ==
  ASSUME NEW numbers, numbers \subseteq Nat, numbers # {}
  PROVE  \E i \in numbers : \A j \in numbers : i <= j
<1>1. PICK i \in numbers : \A j \in numbers : ~ (<<j, i>> \in OpToRel(<, Nat))
  BY NatLessThanWellFounded, WFMin
<1>2. \A j \in numbers : <<j, i>> \notin OpToRel(<, Nat) => i <= j
  BY DEF OpToRel
<1> QED BY <1>1, <1>2

LEMMA PassExists ==
  ASSUME NEW known, NEW lines, NEW n \in Nat
  PROVE  \E g : IsPass(g, known, lines, n)
<1> DEFINE missing == {m \in Nat : ~ \E g : IsPass(g, known, lines, m)}
<1> SUFFICES ASSUME missing # {}
             PROVE  FALSE
  OBVIOUS
<1>1. PICK m \in missing : \A k \in missing : m <= k
  BY FirstNumber
<1>2. CASE m = 0
  <2> DEFINE g == [i \in 0..0 |-> Begun]
  <2>1. IsPass(g, known, lines, 0)
    BY DEF IsPass
  <2> QED BY <1>1, <1>2, <2>1
<1>3. CASE m # 0
  <2>1. m - 1 \in Nat /\ m \in Nat /\ m - 1 \notin missing
    BY <1>1, <1>3
  <2>2. PICK g : IsPass(g, known, lines, m - 1)
    BY <2>1
  <2> DEFINE h == [i \in 0..m |-> IF i = m THEN AfterLine(known, g[m - 1], lines[m]) ELSE g[i]]
  <2>3. h[m] = AfterLine(known, h[m - 1], lines[m])
    BY <2>1
  <2>4. ASSUME NEW i \in 0..(m - 1)
        PROVE  h[i] = IF i = 0 THEN Begun ELSE AfterLine(known, h[i - 1], lines[i])
    <3>1. h[i] = g[i] /\ (i # 0 => h[i - 1] = g[i - 1])
      BY <2>1
    <3>2. g[i] = IF i = 0 THEN Begun ELSE AfterLine(known, g[i - 1], lines[i])
      BY <2>2 DEF IsPass
    <3> QED BY <3>1, <3>2
  <2>5. \A i \in 0..m : i = m \/ i \in 0..(m - 1)
    BY <2>1
  <2>6. DOMAIN h = 0..m /\ h = [i \in 0..m |-> h[i]]
    OBVIOUS
  <2> HIDE DEF h
  <2>7. \A i \in 0..m : h[i] = IF i = 0 THEN Begun ELSE AfterLine(known, h[i - 1], lines[i])
    BY <1>3, <2>3, <2>4, <2>5
  <2>8. IsPass(h, known, lines, m)
    BY <2>6, <2>7 DEF IsPass
  <2> QED BY <1>1, <2>8
<1> QED BY <1>2, <1>3

LEMMA AnnotationsAreFound ==
  ASSUME NEW lines, Len(lines) \in Nat
  PROVE  \E g : /\ IsPass(g, RegisteredNames(lines), lines, Len(lines))
                /\ Annotations(lines) = g[Len(lines)].found
<1> DEFINE g == CHOOSE p : p = [i \in 0..Len(lines) |->
                               IF i = 0 THEN [current |-> None, found |-> {}]
                               ELSE AfterLine(RegisteredNames(lines), p[i - 1], lines[i])]
<1>1. IsPass(g, RegisteredNames(lines), lines, Len(lines))
  <2>1. \E p : IsPass(p, RegisteredNames(lines), lines, Len(lines))
    BY PassExists
  <2> QED BY <2>1, Zenon DEF IsPass, Begun
<1>2. Annotations(lines) = g[Len(lines)].found
  BY DEF Annotations
<1> QED BY <1>1, <1>2

(* n is named by the last row at or above line k.                          *)
Stands(lines, n, k) ==
  \E i \in 1..k : /\ IsPipe(lines[i]) /\ lines[i].name = n
                  /\ \A h \in (i + 1)..k : ~IsPipe(lines[h])

LEMMA StandsAfter ==
  ASSUME NEW lines, NEW n, NEW k \in Nat \ {0}
  PROVE  Stands(lines, n, k) <=>
           IF IsPipe(lines[k]) THEN lines[k].name = n ELSE Stands(lines, n, k - 1)
<1>1. CASE IsPipe(lines[k])
  <2>1. ASSUME NEW i \in 1..k, \A h \in (i + 1)..k : ~IsPipe(lines[h])
        PROVE  i = k
    BY <1>1, <2>1
  <2>2. k \in 1..k /\ (k + 1)..k = {}
    OBVIOUS
  <2> QED BY <1>1, <2>1, <2>2 DEF Stands
<1>2. CASE ~IsPipe(lines[k])
  <2>1. \A i \in 1..k : i = k \/ i \in 1..(k - 1)
    OBVIOUS
  <2>2. \A i \in 1..(k - 1) : i \in 1..k
    OBVIOUS
  <2>3. \A i \in 1..(k - 1) : \A h \in (i + 1)..k : h = k \/ h \in (i + 1)..(k - 1)
    OBVIOUS
  <2>4. \A i \in 1..(k - 1) : \A h \in (i + 1)..(k - 1) : h \in (i + 1)..k
    OBVIOUS
  <2> QED BY <1>2, <2>1, <2>2, <2>3, <2>4 DEF Stands
<1> QED BY <1>1, <1>2

(* What the pass knows after line k.                                       *)
IsNoted(lines, n, key, k) ==
  \E j \in 1..k : lines[j].kind = "note" /\ lines[j].key = key /\ Stands(lines, n, j)
PassFits(pass, known, lines, k) ==
  /\ pass = [current |-> pass.current, found |-> pass.found]
  /\ pass.current \in known \cup {None}
  /\ \A n \in known : pass.current = n <=> Stands(lines, n, k)
  /\ \A a \in pass.found : a = <<a[1], a[2]>>
  /\ \A n \in known : \A key : <<n, key>> \in pass.found <=> IsNoted(lines, n, key, k)

LEMMA PassBegins ==
  ASSUME NEW known, None \notin known, NEW lines
  PROVE  PassFits(Begun, known, lines, 0)
BY DEF PassFits, Begun, Stands, IsNoted

LEMMA PassGoesOn ==
  ASSUME NEW known, None \notin known, NEW lines, NEW k \in Nat \ {0},
         NEW pass, PassFits(pass, known, lines, k - 1)
  PROVE  PassFits(AfterLine(known, pass, lines[k]), known, lines, k)
<1> DEFINE line == lines[k]
           next == AfterLine(known, pass, line)
<1>1. \A n : Stands(lines, n, k) <=>
             IF IsPipe(line) THEN line.name = n ELSE Stands(lines, n, k - 1)
  BY StandsAfter
<1>2. \A n, key : IsNoted(lines, n, key, k) <=>
                  \/ IsNoted(lines, n, key, k - 1)
                  \/ line.kind = "note" /\ line.key = key /\ Stands(lines, n, k)
  <2>1. \A j \in 1..k : j = k \/ j \in 1..(k - 1)
    OBVIOUS
  <2>2. k \in 1..k /\ \A j \in 1..(k - 1) : j \in 1..k
    OBVIOUS
  <2> QED BY <2>1, <2>2 DEF IsNoted
<1> HIDE DEF line
<1>3. CASE IsPipe(line)
  <2>1. next = [current |-> IF line.name \in known THEN line.name ELSE None, found |-> pass.found]
    BY <1>3 DEF AfterLine, NextName, IsPipe
  <2>2. line.kind # "note"
    BY <1>3 DEF IsPipe
  <2> HIDE DEF next
  <2>3. /\ next.current = (IF line.name \in known THEN line.name ELSE None)
        /\ next.found = pass.found /\ next = [current |-> next.current, found |-> next.found]
    BY <2>1
  <2>4. \A n \in known : next.current = n <=> Stands(lines, n, k)
    BY <1>1, <1>3, <2>3
  <2>5. \A n, key : IsNoted(lines, n, key, k) <=> IsNoted(lines, n, key, k - 1)
    BY <1>2, <2>2
  <2>6. PassFits(next, known, lines, k)
    BY <2>3, <2>4, <2>5 DEF PassFits
  <2> QED BY <2>6 DEF next, line
<1>4. CASE line.kind = "note" /\ pass.current # None
  <2>1. ~IsPipe(line)
    BY <1>4 DEF IsPipe
  <2>2. next = [current |-> pass.current, found |-> pass.found \cup {<<pass.current, line.key>>}]
    BY <1>4, <2>1 DEF AfterLine
  <2> HIDE DEF next
  <2>3. /\ next.current = pass.current
        /\ \A n, key : <<n, key>> \in next.found <=>
                       <<n, key>> \in pass.found \/ (n = pass.current /\ key = line.key)
    BY <2>2
  <2>4. \A n \in known : next.current = n <=> Stands(lines, n, k)
    BY <1>1, <2>1, <2>3 DEF PassFits
  <2>5. \A n \in known : \A key : <<n, key>> \in next.found <=> IsNoted(lines, n, key, k)
    <3> SUFFICES ASSUME NEW n \in known, NEW key
                 PROVE  <<n, key>> \in next.found <=> IsNoted(lines, n, key, k)
      OBVIOUS
    <3>1. <<n, key>> \in pass.found <=> IsNoted(lines, n, key, k - 1)
      BY DEF PassFits
    <3>2. n = pass.current <=> Stands(lines, n, k)
      BY <2>3, <2>4
    <3> QED BY <1>2, <1>4, <2>3, <3>1, <3>2
  <2>6. \A a \in next.found : a = <<a[1], a[2]>>
    BY <2>2 DEF PassFits
  <2>7. next = [current |-> next.current, found |-> next.found] /\ next.current \in known \cup {None}
    BY <2>2 DEF PassFits
  <2>8. PassFits(next, known, lines, k)
    BY <2>4, <2>5, <2>6, <2>7 DEF PassFits
  <2> QED BY <2>8 DEF next, line
<1>5. CASE ~IsPipe(line) /\ ~(line.kind = "note" /\ pass.current # None)
  <2>1. next = pass
    BY <1>5 DEF AfterLine
  <2>2. \A n \in known : line.kind = "note" => ~Stands(lines, n, k)
    BY <1>1, <1>5 DEF PassFits
  <2> QED BY <1>1, <1>2, <1>5, <2>1, <2>2 DEF PassFits, line
<1> QED BY <1>3, <1>4, <1>5

LEMMA PassIsRight ==
  ASSUME NEW known, None \notin known, NEW lines, NEW n \in Nat,
         NEW g, IsPass(g, known, lines, n)
  PROVE  PassFits(g[n], known, lines, n)
<1> DEFINE wrong == {k \in 0..n : ~PassFits(g[k], known, lines, k)}
<1>1. g[0] = Begun /\ \A k \in 1..n : g[k] = AfterLine(known, g[k - 1], lines[k])
  BY DEF IsPass
<1>2. wrong = {}
  <2> SUFFICES ASSUME wrong # {}
               PROVE  FALSE
    OBVIOUS
  <2>1. wrong \subseteq Nat
    OBVIOUS
  <2>2. PICK k \in wrong : \A j \in wrong : k <= j
    BY <2>1, FirstNumber
  <2>3. k # 0
    BY <1>1, <2>2, PassBegins
  <2>4. k \in Nat \ {0} /\ k \in 1..n /\ k - 1 \in 0..n /\ k - 1 \notin wrong
    BY <2>2, <2>3
  <2>5. PassFits(g[k - 1], known, lines, k - 1)
    BY <2>4
  <2>6. PassFits(g[k], known, lines, k)
    BY <1>1, <2>4, <2>5, PassGoesOn
  <2> QED BY <2>2, <2>6
<1> QED BY <1>2

(* The table is the first lines of the section, all of them rows.          *)
LEMMA TableRows ==
  ASSUME NEW lines, IsSection(lines)
  PROVE  LET table == FirstTable(lines) IN
         /\ Len(table) \in Nat /\ DOMAIN table = 1..Len(table) /\ Len(table) <= Len(lines)
         /\ \A i \in DOMAIN table :
              i \in DOMAIN lines /\ table[i] = lines[i] /\ IsPipe(lines[i])
<1> DEFINE table == FirstTable(lines)
           gaps == {i \in DOMAIN lines : ~IsPipe(lines[i])}
           first == CHOOSE i \in gaps : \A j \in gaps : i <= j
<1>1. Len(lines) \in Nat /\ DOMAIN lines = 1..Len(lines)
  BY DEF IsSection
<1>2. CASE gaps = {}
  <2>1. table = lines
    BY <1>2 DEF FirstTable
  <2> QED BY <1>1, <1>2, <2>1
<1>3. CASE gaps # {}
  <2>1. gaps \subseteq Nat
    BY <1>1
  <2>2. first \in gaps /\ \A j \in gaps : first <= j
    BY <1>3, <2>1, FirstNumber
  <2>3. table = SubSeq(lines, 1, first - 1)
    BY <1>3 DEF FirstTable
  <2> HIDE DEF first, table
  <2>4. first \in 1..Len(lines)
    BY <1>1, <2>2
  <2>5. /\ Len(table) = first - 1 /\ DOMAIN table = 1..Len(table)
        /\ \A i \in 1..Len(table) : table[i] = lines[i]
    BY <1>1, <2>3, <2>4 DEF IsSection
  <2>6. \A i \in 1..(first - 1) : i \in DOMAIN lines /\ i \notin gaps
    BY <1>1, <2>2, <2>4
  <2> HIDE DEF gaps
  <2>7. \A i \in 1..(first - 1) : IsPipe(lines[i])
    BY <2>6 DEF gaps
  <2>8. QED BY <1>1, <2>4, <2>5, <2>6, <2>7 DEF table
<1> QED BY <1>2, <1>3

(* A table holds rows only, so a name that is registered is one.           *)
LEMMA RegisteredAreNames ==
  ASSUME NEW lines, IsSection(lines)
  PROVE  None \notin RegisteredNames(lines)
<1>1. \A i \in DOMAIN FirstTable(lines) : FirstTable(lines)[i].name \in Names
  BY TableRows DEF IsSection
<1> QED BY <1>1, NamesAssumption DEF RegisteredNames

LEMMA NotesOfASection ==
  ASSUME NEW lines, IsSection(lines), NEW n \in RegisteredNames(lines)
  PROVE  AlgorithmEntry(lines, n).notes =
           {lines[j].key : j \in {k \in DOMAIN lines : lines[k].kind = "note" /\ Stands(lines, n, k)}}
<1> DEFINE known == RegisteredNames(lines)
<1>1. Len(lines) \in Nat /\ DOMAIN lines = 1..Len(lines) /\ None \notin known
  BY RegisteredAreNames DEF IsSection
<1>2. PICK g : IsPass(g, known, lines, Len(lines)) /\ Annotations(lines) = g[Len(lines)].found
  BY <1>1, AnnotationsAreFound
<1>3. PassFits(g[Len(lines)], known, lines, Len(lines))
  BY <1>1, <1>2, PassIsRight
<1>4. AlgorithmEntry(lines, n).notes = {a[2] : a \in {b \in Annotations(lines) : b[1] = n}}
  BY DEF AlgorithmEntry
<1>5. \A a \in Annotations(lines) : a = <<a[1], a[2]>>
  BY <1>2, <1>3 DEF PassFits
<1>6. \A key : <<n, key>> \in Annotations(lines) <=>
              \E j \in 1..Len(lines) : lines[j].kind = "note" /\ lines[j].key = key /\ Stands(lines, n, j)
  BY <1>2, <1>3 DEF PassFits, IsNoted
<1> DEFINE own == {k \in DOMAIN lines : lines[k].kind = "note" /\ Stands(lines, n, k)}
<1>7. \A key : key \in {a[2] : a \in {b \in Annotations(lines) : b[1] = n}}
              <=> <<n, key>> \in Annotations(lines)
  BY <1>5
<1>8. \A key : key \in {lines[j].key : j \in own} <=> <<n, key>> \in Annotations(lines)
  BY <1>1, <1>6
<1>9. {a[2] : a \in {b \in Annotations(lines) : b[1] = n}} = {lines[j].key : j \in own}
  BY <1>7, <1>8
<1> QED BY <1>4, <1>9

(* No two rows of a table that is read have a name in common, so only a    *)
(* row below it can add to what follows the row of an entry.               *)
LEMMA NotesOfARow ==
  ASSUME NEW lines, IsSection(lines), AlgorithmError(lines) = "none",
         NEW i \in DOMAIN FirstTable(lines)
  PROVE  LET name == lines[i].name
             notes == AlgorithmEntry(lines, name).notes
         IN /\ FollowedBy(lines, i) \subseteq notes
            /\ ~IsLost(lines, name) => notes = FollowedBy(lines, i)
<1> DEFINE table == FirstTable(lines)
           name == lines[i].name
           notes == AlgorithmEntry(lines, name).notes
           own == {k \in DOMAIN lines : lines[k].kind = "note" /\ Stands(lines, name, k)}
           below == {k \in DOMAIN lines :
                       k > i /\ lines[k].kind = "note" /\ \A h \in (i + 1)..k : ~IsPipe(lines[h])}
<1>1. /\ Len(table) \in Nat /\ DOMAIN table = 1..Len(table) /\ Len(table) <= Len(lines)
      /\ \A k \in DOMAIN table : k \in DOMAIN lines /\ table[k] = lines[k] /\ IsPipe(lines[k])
  BY TableRows
<1>2. Len(lines) \in Nat /\ DOMAIN lines = 1..Len(lines)
  BY DEF IsSection
<1>3. name \in RegisteredNames(lines)
  BY <1>1 DEF RegisteredNames
<1>4. notes = {lines[k].key : k \in own}
  BY <1>3, NotesOfASection
<1>5. FollowedBy(lines, i) = {lines[k].key : k \in below}
  BY DEF FollowedBy
<1>6. below \subseteq own
  BY <1>1, <1>2 DEF Stands
<1>7. ASSUME ~IsLost(lines, name)
      PROVE  own \subseteq below
  <2> SUFFICES ASSUME NEW k \in own
               PROVE  k \in below
    OBVIOUS
  <2>1. PICK j \in 1..k : /\ IsPipe(lines[j]) /\ lines[j].name = name
                          /\ \A h \in (j + 1)..k : ~IsPipe(lines[h])
    BY DEF Stands
  <2>2. j \in DOMAIN lines /\ j \in DOMAIN table
    BY <1>1, <1>2, <1>7, <2>1 DEF IsLost
  <2>3. j = i
    <3>1. \A h \in DOMAIN table : table[h].kind # "ragged"
      BY DEF AlgorithmError
    <3>2. ~Repeated(NamesIn(table))
      BY <3>1 DEF AlgorithmError
    <3>3. DOMAIN NamesIn(table) = DOMAIN table /\ \A h \in DOMAIN table : NamesIn(table)[h] = lines[h].name
      BY <1>1 DEF NamesIn
    <3>4. ~(i < j) /\ ~(j < i)
      BY <2>1, <2>2, <3>2, <3>3 DEF Repeated
    <3> QED BY <1>1, <2>2, <3>4
  <2>4. k # j
    BY <2>1 DEF IsPipe
  <2> QED BY <1>2, <2>1, <2>2, <2>3, <2>4
<1> QED BY <1>4, <1>5, <1>6, <1>7

-----------------------------------------------------------------------------
TextFits == md # None => IsSection(md.lines)
GatesInv == SoundInv /\ EntryInv /\ NoDirectory /\ TextFits

LEMMA TextStaysASection ==
  ASSUME TextFits, [BuildNext]_buildVars
  PROVE  TextFits'
<1>1. CASE md' = md
  BY <1>1 DEF TextFits
<1>2. CASE md' \in Revisions \cup {None}
  BY <1>2, TextsAssumption DEF TextFits
<1>3. md' = md \/ md' \in Revisions \cup {None}
  BY DEF BuildNext, buildVars, Start, Generate, Validate, PrintOut, Compare, CheckCommitted,
         Truncate, Fill, Killed, EditText, CheckOutFile
<1> QED BY <1>1, <1>2, <1>3

LEMMA GatesStart ==
  ASSUME Init
  PROVE  GatesInv
<1>1. SoundInv
  <2>1. SafeInv
    BY DEF Init, BuildInit, SafeInv, NoJob, Job, Absent, Saved, JobIsRecord, RunIsValidated,
           WritesItsOwn, FileIsValidated
  <2>2. job.phase = "ended" /\ job.exit = 3
    BY DEF Init, BuildInit, NoJob, Job
  <2> QED BY <2>1, <2>2 DEF SoundInv, QuietRun, OnlyWritersWrite, GreenTreeIsSound, IsGreen
<1>2. TextFits
  BY TextsAssumption, PublishedAssumption DEF Init, BuildInit, TextFits
<1>3. CASE changed = "entries"
  <2>1. EntryInit
    BY <1>3 DEF Init
  <2> QED BY <1>1, <1>2, <2>1, EntryStarts DEF GatesInv
<1>4. CASE changed = "registry"
  <2>1. entries = Missing /\ vectors = <<>> /\ grading = Idle
    BY <1>4 DEF Init
  <2>2. DOMAIN vectors = {}
    BY <2>1
  <2>3. IsVectorSet(vectors) /\ IsEntryList(entries)
    BY <2>1, <2>2, FS_EmptySet DEF IsVectorSet, IsEntryList
  <2> QED BY <1>1, <1>2, <2>1, <2>3, EntryInitKeeps DEF GatesInv
<1> QED BY <1>3, <1>4 DEF Init

(* A step of the composition is a step of one workflow and leaves the      *)
(* other alone.                                                            *)
LEMMA OneWorkflowAtATime ==
  ASSUME [Next]_vars
  PROVE  [BuildNext]_buildVars /\ [EntryNext]_entryVars
<1>1. CASE Next
  BY <1>1 DEF Next, BuildNext, EntryNext, RegistryChange, EntryChange
<1>2. CASE UNCHANGED vars
  BY <1>2 DEF vars
<1> QED BY <1>1, <1>2

LEMMA GatesStep ==
  ASSUME GatesInv, [Next]_vars
  PROVE  GatesInv'
BY OneWorkflowAtATime, BuildKeepsSafe, BuildKeepsSound, EntryStep, TextStaysASection
   DEF GatesInv, SoundInv

(* What a run of the generator left in registry.json, if it parses, is one *)
(* text's whole document and was validated, whatever was edited or killed. *)
THEOREM BuildWritesValidated == Spec => []WrittenWasValidated
<1>1. GatesInv => WrittenWasValidated
  BY DocumentBody DEF GatesInv, SoundInv, SafeInv, FileIsValidated, Validated, WrittenWasValidated
<1> QED BY <1>1, GatesStart, GatesStep, PTL DEF Spec

(* A run of the generator that ends green with nobody editing under it     *)
(* leaves the document of the text beside it, valid under that text, and   *)
(* what the workflow passes the library's loader accepts.                  *)
THEOREM GreenTree == Spec => []GreenTreeIsSound
<1>1. GatesInv => GreenTreeIsSound
  BY DEF GatesInv, SoundInv
<1> QED BY <1>1, GatesStart, GatesStep, PTL DEF Spec

(* The annotations of an entry are those that follow its row, up to the    *)
(* next row, unless a row lost below the table repeats its name, in        *)
(* sections of any length, although the table is read in one pass and the  *)
(* annotations in another (_parse_algorithm_registry).                     *)
THEOREM NotesStay == Spec => []NotesStayWithTheirRow
<1>1. GatesInv => NotesStayWithTheirRow
  <2> SUFFICES ASSUME GatesInv, md # None, ParseError(md) = "none",
                      NEW i \in DOMAIN FirstTable(md.lines)
               PROVE  LET name == md.lines[i].name
                          notes == AlgorithmEntry(md.lines, name).notes
                      IN /\ FollowedBy(md.lines, i) \subseteq notes
                         /\ ~IsLost(md.lines, name) => notes = FollowedBy(md.lines, i)
    BY DEF NotesStayWithTheirRow
  <2>1. IsSection(md.lines)
    BY DEF GatesInv, TextFits
  <2>2. AlgorithmError(md.lines) = "none"
    BY DEF ParseError
  <2> QED BY <2>1, <2>2, NotesOfARow
<1> QED BY <1>1, GatesStart, GatesStep, PTL DEF Spec

(* The vector checker's summary hides no refuted vector and skips none in  *)
(* its counts, whatever the directory holds and becomes.                   *)
THEOREM SummaryHolds == Spec => []SummaryIsFaithful
<1>1. GatesInv => SummaryIsFaithful
  BY SummaryHidesNothing DEF GatesInv, EntryInv, EntryTypeOK
<1> QED BY <1>1, GatesStart, GatesStep, PTL DEF Spec

(* An entry that a green run passed is backed, for any list of entries.    *)
THEOREM GreenIsBacked == Spec => []GreenEntriesAreBacked
<1>1. GatesInv => GreenEntriesAreBacked
  BY EntryInvBacks DEF GatesInv
<1> QED BY <1>1, GatesStart, GatesStep, PTL DEF Spec
=============================================================================
