--------------------------- MODULE HarnessProofs ---------------------------
(***************************************************************************)
(* Proofs about verify_impl for every number of files, every content of    *)
(* them and every number of edits while it runs.                           *)
(***************************************************************************)
EXTENDS VectorHarness, TLAPS

Safety == Init /\ [][Next]_vars

LEMMA SpecIsSafe == Spec => Safety
BY DEF Spec, Safety

(* What a command is told and what it may answer is well-typed.            *)
LEMMA MessagesType ==
  ASSUME NEW f \in FileType
  PROVE  StrippedText(f) \in MessageType /\ WholeText(f) \in MessageType
BY DEF StrippedText, WholeText, MessageType, FileType, Flaws

LEMMA AnswersType ==
  ASSUME NEW c \in Commands, NEW m \in MessageType, NEW a \in AnswersOf(c, m)
  PROVE  a \in AnswerType
<1> DEFINE T == [status : {"zero", "nonzero", "timeout"},
                 output : {"nothing", "not_json", "not_object", "object"},
                 preImage : Strings, digest : Strings]
<1>1. Refused \in T /\ Silent \in T
  BY DEF Refused, Silent, Answer, Strings
<1>2. \A p, d \in Strings : Printed(p, d) \in T
  BY DEF Printed, Answer
<1>3. Answer("zero", "not_json", "", "") \in T /\ Answer("zero", "not_object", "", "") \in T
  BY DEF Answer, Strings
<1>4. Printed(Computed, Computed) \in T
  BY <1>2 DEF Strings
<1>5. ReferenceImpl(m) \in T
  BY <1>1, <1>4 DEF ReferenceImpl
<1>6. FlagReader(m) \in T
  BY <1>1, <1>4 DEF FlagReader
<1>7. CASE c = "reference"
  BY <1>5, <1>7 DEF AnswersOf, AnswerType
<1>8. CASE c = "flag_reader"
  BY <1>6, <1>8 DEF AnswersOf, AnswerType
<1>9. CASE c = "any"
  <2>1. AnswersOf(c, m) = UnusableAnswers \cup PrintedAnswers
    BY <1>9 DEF AnswersOf
  <2>2. CASE a \in PrintedAnswers
    <3>1. PICK p \in Strings, d \in Strings : a = Printed(p, d)
      BY <2>2 DEF PrintedAnswers
    <3> QED BY <3>1, <1>2 DEF AnswerType
  <2>3. CASE a \in UnusableAnswers
    BY <2>3, <1>1, <1>3 DEF AnswerType, UnusableAnswers
  <2> QED BY <2>1, <2>2, <2>3
<1> QED BY <1>7, <1>8, <1>9, CommandsAssumption

LEMMA TimedOutType == TimedOut \in AnswerType
BY DEF TimedOut, Answer, AnswerType, Strings

-----------------------------------------------------------------------------
(* One step of each action, reduced to what it does to the counts, the     *)
(* position and the exit; the other lemmas rest on these.                  *)
Ended == UNCHANGED <<at, counts>> /\ exit' = "crashed"
Stays == UNCHANGED <<at, counts, exit>>

(* The loop's bookkeeping: it crashes, stays at its file, or goes on to the*)
(* next one having counted at most once.                                   *)
GoesOn ==
  /\ at' = at + 1
  /\ UNCHANGED exit
  /\ UNCHANGED counts \/ CountPassed \/ CountFailed \/ CountSkipped

LEMMA ParseMoves ==
  ASSUME ParseFile
  PROVE  Ended \/ Stays \/ GoesOn
BY DEF ParseFile, Crashes, NextFile, Ended, Stays, GoesOn, counts

LEMMA ReadMoves ==
  ASSUME ReadText
  PROVE  Ended \/ Stays
BY DEF ReadText, Crashes, Ended, Stays, counts

LEMMA DispatchMoves ==
  ASSUME Dispatch
  PROVE  Ended \/ Stays \/ GoesOn
BY DEF Dispatch, Crashes, NextFile, CountSkipped, Ended, Stays, GoesOn, counts

LEMMA JudgeMoves ==
  ASSUME NEW a, Judge(a)
  PROVE  Ended \/ GoesOn
BY DEF Judge, Crashes, NextFile, CountPassed, CountFailed, CountSkipped, Ended, GoesOn, counts

-----------------------------------------------------------------------------
BlankType == Blank \in FileType /\ StrippedText(Blank) \in MessageType /\ Silent \in AnswerType

LEMMA BlanksType == BlankType
<1>1. Blank \in FileType
  BY DEF Blank, FileType, Forms, Strings, Flaws
<1>2. Silent \in AnswerType
  BY DEF Silent, Answer, AnswerType, Strings
<1> QED BY <1>1, <1>2, MessagesType DEF BlankType

LEMMA InitTypes == Init => TypeOK
BY BlanksType, FilesAssumption, CasesAssumption DEF Init, TypeOK, BlankType

(* The numbers stay numbers whatever moves.                                *)
Numbers == at \in 1..(Cases + 1) /\ passed \in Nat /\ failed \in Nat /\ skipped \in Nat

LEMMA NumbersStay ==
  ASSUME Numbers, at <= Cases, Ended \/ Stays \/ GoesOn
  PROVE  Numbers'
BY CasesAssumption
   DEF Numbers, Ended, Stays, GoesOn, counts, CountPassed, CountFailed, CountSkipped

LEMMA ExitStays ==
  ASSUME Ended \/ Stays \/ GoesOn, exit \in {"running", "green", "red", "crashed"}
  PROVE  exit' \in {"running", "green", "red", "crashed"}
BY DEF Ended, Stays, GoesOn

LEMMA JudgeTypes ==
  ASSUME TypeOK, InFile("wait"), NEW a \in AnswerType, Judge(a)
  PROVE  TypeOK'
<1>1. Ended \/ GoesOn
  BY JudgeMoves
<1>2. Numbers' /\ exit' \in {"running", "green", "red", "crashed"}
  BY <1>1, NumbersStay, ExitStays DEF TypeOK, InFile, Numbers
<1>3. step' \in {"parse", "text", "bytes", "wait"}
  BY DEF Judge, Crashes, NextFile, TypeOK
<1>4. answer' \in [1..Cases -> AnswerType]
  BY DEF Judge, TypeOK
<1>5. UNCHANGED <<disk, edits, command, parsed, text, sent>>
  BY DEF Judge, progress
<1> QED BY <1>2, <1>3, <1>4, <1>5 DEF TypeOK, Numbers

LEMMA NextTypes ==
  ASSUME TypeOK, [Next]_vars
  PROVE  TypeOK'
<1>1. CASE ParseFile
  <2>1. Numbers' /\ exit' \in {"running", "green", "red", "crashed"}
    BY <1>1, ParseMoves, NumbersStay, ExitStays DEF TypeOK, ParseFile, InFile, Numbers
  <2>2. step' \in {"parse", "text", "bytes", "wait"}
    BY <1>1 DEF ParseFile, Crashes, NextFile, TypeOK
  <2>3. disk[at] \in FileType
    BY <1>1, FilesAssumption, CasesAssumption DEF TypeOK, ParseFile, InFile
  <2>4. parsed' \in [1..Cases -> FileType]
    BY <1>1, <2>3 DEF ParseFile, TypeOK
  <2>5. UNCHANGED <<disk, edits, command, text, sent, answer>>
    BY <1>1 DEF ParseFile, progress
  <2> QED BY <2>1, <2>2, <2>4, <2>5 DEF TypeOK, Numbers
<1>2. CASE ReadText
  <2>1. Numbers' /\ exit' \in {"running", "green", "red", "crashed"}
    BY <1>2, ReadMoves, NumbersStay, ExitStays DEF TypeOK, ReadText, InFile, Numbers
  <2>2. step' \in {"parse", "text", "bytes", "wait"}
    BY <1>2 DEF ReadText, Crashes, TypeOK
  <2>3. disk[at] \in FileType
    BY <1>2, FilesAssumption, CasesAssumption DEF TypeOK, ReadText, InFile
  <2>4. text' \in [1..Cases -> FileType]
    BY <1>2, <2>3 DEF ReadText, TypeOK
  <2>5. UNCHANGED <<disk, edits, command, parsed, sent, answer>>
    BY <1>2 DEF ReadText, progress
  <2> QED BY <2>1, <2>2, <2>4, <2>5 DEF TypeOK, Numbers
<1>3. CASE Dispatch
  <2>1. Numbers' /\ exit' \in {"running", "green", "red", "crashed"}
    BY <1>3, DispatchMoves, NumbersStay, ExitStays DEF TypeOK, Dispatch, InFile, Numbers
  <2>2. step' \in {"parse", "text", "bytes", "wait"}
    BY <1>3 DEF Dispatch, Crashes, NextFile, TypeOK
  <2>3. StrippedText(text[at]) \in MessageType /\ WholeText(text[at]) \in MessageType
    BY <1>3, MessagesType, CasesAssumption DEF TypeOK, Dispatch, InFile
  <2>4. sent' \in [1..Cases -> MessageType]
    BY <1>3, <2>3 DEF Dispatch, TypeOK
  <2>5. UNCHANGED <<disk, edits, command, parsed, text, answer>>
    BY <1>3 DEF Dispatch, progress
  <2> QED BY <2>1, <2>2, <2>4, <2>5 DEF TypeOK, Numbers
<1>4. CASE Finish
  BY <1>4 DEF TypeOK, Finish, progress, reading, counts
<1>5. CASE CommandEnds
  <2>1. sent[at] \in MessageType
    BY <1>5, CasesAssumption DEF CommandEnds, InFile, TypeOK
  <2>2. PICK a \in AnswersOf(command, sent[at]) : Judge(a)
    BY <1>5 DEF CommandEnds
  <2>3. a \in AnswerType
    BY <2>1, <2>2, AnswersType DEF TypeOK
  <2> QED BY <1>5, <2>2, <2>3, JudgeTypes DEF CommandEnds
<1>6. CASE CommandTimesOut
  BY <1>6, TimedOutType, JudgeTypes DEF CommandTimesOut
<1>7. CASE EditFile
  BY <1>7 DEF EditFile, TypeOK, reading, counts
<1>8. CASE UNCHANGED vars
  BY <1>8 DEF vars, progress, reading, counts, TypeOK
<1> QED BY <1>1, <1>2, <1>3, <1>4, <1>5, <1>6, <1>7, <1>8 DEF Next, HarnessStep

(* verify_impl's variables keep their types, for every directory.          *)
THEOREM HarnessTypeCorrect == Spec => []TypeOK
<1>1. Init => TypeOK
  BY InitTypes
<1>2. TypeOK /\ [Next]_vars => TypeOK'
  BY NextTypes
<1> QED BY <1>1, <1>2, SpecIsSafe, PTL DEF Safety

-----------------------------------------------------------------------------
(* What holds of the files that were gone through, as long as none of them *)
(* was counted as failed.                                                  *)
SatisfiedSoFar ==
  failed = 0 => \A i \in 1..Cases : i < at => Satisfied(parsed[i], answer[i])
GreenAtTheEnd == exit = "green" => failed = 0 /\ at > Cases
GreenInv == SatisfiedSoFar /\ GreenAtTheEnd

(* A file is done with at most once, and only the last one is touched.     *)
LEMMA GreenStays ==
  ASSUME TypeOK, GreenAtTheEnd, exit = "running", Ended \/ Stays \/ GoesOn
  PROVE  GreenAtTheEnd'
BY DEF GreenAtTheEnd, Ended, Stays, GoesOn

LEMMA FailuresStay ==
  ASSUME TypeOK, Ended \/ Stays \/ GoesOn, failed' = 0
  PROVE  failed = 0
BY DEF TypeOK, Ended, Stays, GoesOn, counts, CountPassed, CountFailed, CountSkipped

LEMMA OneFileAtATime ==
  ASSUME TypeOK, SatisfiedSoFar, InFile(step), Ended \/ Stays \/ GoesOn,
         \A i \in 1..Cases : i # at => parsed'[i] = parsed[i] /\ answer'[i] = answer[i],
         GoesOn /\ failed' = 0 => Satisfied(parsed'[at], answer'[at])
  PROVE  SatisfiedSoFar'
<1> SUFFICES ASSUME failed' = 0, NEW i \in 1..Cases, i < at'
             PROVE  Satisfied(parsed'[i], answer'[i])
  BY DEF SatisfiedSoFar, Satisfied, IsRejection, IsCompared
<1>1. failed = 0
  BY FailuresStay
<1>2. CASE i = at
  <2>1. GoesOn
    BY <1>2 DEF Ended, Stays, TypeOK
  <2> QED BY <1>2, <2>1
<1>3. CASE i # at
  <2>1. i < at
    BY <1>3 DEF Ended, Stays, GoesOn, TypeOK
  <2> QED BY <1>1, <1>3, <2>1 DEF SatisfiedSoFar
<1> QED BY <1>2, <1>3

(* What the harness makes of an answer: counted as a failure, or satisfied.*)
LEMMA JudgedFairly ==
  ASSUME TypeOK, InFile("wait"), NEW a, Judge(a), GoesOn, failed' = 0
  PROVE  Satisfied(parsed[at], a)
<1>1. failed # failed + 1
  BY DEF TypeOK
<1>2. ~CountFailed
  BY DEF CountFailed, TypeOK
<1>3. exit' = "running"
  BY DEF GoesOn, InFile
<1>4. ~Crashes
  BY <1>3 DEF Crashes
<1> DEFINE v == parsed[at]
<1>5. CASE IsRejection(v)
  <2>1. a.status # "zero"
    BY <1>5, <1>2 DEF Judge
  <2>2. ~IsCompared(v)
    BY <1>5 DEF IsRejection, IsCompared
  <2> QED BY <2>1, <2>2 DEF Satisfied
<1>6. CASE ~IsRejection(v)
  <2>1. a.status = "zero"
    BY <1>6, <1>2, <1>4 DEF Judge
  <2>2. CASE a.output = "nothing"
    BY <1>6, <2>1, <2>2 DEF Satisfied
  <2>3. CASE a.output # "nothing"
    <3>1. a.output = "object" /\ PairAgrees(v, a)
      BY <1>6, <2>1, <2>3, <1>2, <1>4 DEF Judge
    <3> QED BY <1>6, <2>1, <3>1 DEF Satisfied, PairAgrees, Agrees
  <2> QED BY <2>2, <2>3
<1> QED BY <1>5, <1>6

LEMMA JudgeKeepsGreen ==
  ASSUME TypeOK, GreenInv, InFile("wait"), NEW a, Judge(a)
  PROVE  GreenInv'
<1>1. Ended \/ GoesOn
  BY JudgeMoves
<1>2. GreenAtTheEnd'
  BY <1>1, GreenStays DEF GreenInv, InFile
<1>3. at \in 1..Cases
  BY CasesAssumption DEF InFile, TypeOK
<1>4. UNCHANGED parsed /\ answer' = [answer EXCEPT ![at] = a]
  BY DEF Judge
<1>5. \A i \in 1..Cases : i # at => parsed'[i] = parsed[i] /\ answer'[i] = answer[i]
  BY <1>4 DEF TypeOK
<1>6. GoesOn /\ failed' = 0 => Satisfied(parsed'[at], answer'[at])
  BY <1>3, <1>4, JudgedFairly DEF TypeOK
<1>7. SatisfiedSoFar'
  BY <1>1, <1>5, <1>6, OneFileAtATime DEF GreenInv, InFile
<1> QED BY <1>2, <1>7 DEF GreenInv

LEMMA NextKeepsGreen ==
  ASSUME TypeOK, GreenInv, [Next]_vars
  PROVE  GreenInv'
<1>1. CASE ParseFile
  <2>1. Ended \/ Stays \/ GoesOn
    BY <1>1, ParseMoves
  <2>2. GreenAtTheEnd'
    BY <1>1, <2>1, GreenStays DEF GreenInv, ParseFile, InFile
  <2>3. at \in 1..Cases /\ parsed' = [parsed EXCEPT ![at] = disk[at]] /\ UNCHANGED answer
    BY <1>1, CasesAssumption DEF ParseFile, InFile, TypeOK
  <2>4. GoesOn => disk[at].form = "not_json"
    BY <1>1 DEF ParseFile, Crashes, GoesOn, InFile, TypeOK
  <2>5. GoesOn /\ failed' = 0 => Satisfied(parsed'[at], answer'[at])
    BY <2>3, <2>4 DEF Satisfied, TypeOK
  <2>6. \A i \in 1..Cases : i # at => parsed'[i] = parsed[i] /\ answer'[i] = answer[i]
    BY <2>3 DEF TypeOK
  <2>7. SatisfiedSoFar'
    BY <1>1, <2>1, <2>5, <2>6, OneFileAtATime DEF GreenInv, ParseFile, InFile
  <2> QED BY <2>2, <2>7 DEF GreenInv
<1>2. CASE ReadText
  <2>1. Ended \/ Stays
    BY <1>2, ReadMoves
  <2>2. GreenAtTheEnd'
    BY <1>2, <2>1, GreenStays DEF GreenInv, ReadText, InFile
  <2>3. UNCHANGED <<at, failed, parsed, answer>>
    BY <1>2, <2>1 DEF Ended, Stays, ReadText, counts
  <2> QED BY <2>2, <2>3 DEF GreenInv, SatisfiedSoFar
<1>3. CASE Dispatch
  <2>1. Ended \/ Stays \/ GoesOn
    BY <1>3, DispatchMoves
  <2>2. GreenAtTheEnd'
    BY <1>3, <2>1, GreenStays DEF GreenInv, Dispatch, InFile
  <2>3. at \in 1..Cases /\ UNCHANGED <<parsed, answer>>
    BY <1>3, CasesAssumption DEF Dispatch, InFile, TypeOK
  <2>4. GoesOn => ~IsRejection(parsed[at]) /\ ~IsCompared(parsed[at])
    BY <1>3 DEF Dispatch, Crashes, GoesOn, InFile, TypeOK, IsWithheld, IsRejection, IsCompared
  <2>5. GoesOn /\ failed' = 0 => Satisfied(parsed'[at], answer'[at])
    BY <2>3, <2>4 DEF Satisfied
  <2>6. SatisfiedSoFar'
    BY <1>3, <2>1, <2>3, <2>5, OneFileAtATime DEF GreenInv, Dispatch, InFile
  <2> QED BY <2>2, <2>6 DEF GreenInv
<1>4. CASE Finish
  <2>1. UNCHANGED <<at, failed, parsed, answer>>
    BY <1>4 DEF Finish, reading, counts
  <2>2. exit' = "green" => failed = 0 /\ at > Cases
    BY <1>4 DEF Finish, TypeOK
  <2> QED BY <2>1, <2>2 DEF GreenInv, SatisfiedSoFar, GreenAtTheEnd
<1>5. CASE CommandEnds
  <2>1. PICK a \in AnswersOf(command, sent[at]) : Judge(a)
    BY <1>5 DEF CommandEnds
  <2> QED BY <1>5, <2>1, JudgeKeepsGreen DEF CommandEnds
<1>6. CASE CommandTimesOut
  BY <1>6, JudgeKeepsGreen DEF CommandTimesOut
<1>7. CASE EditFile \/ UNCHANGED vars
  <2>1. UNCHANGED <<at, failed, parsed, answer, exit>>
    BY <1>7 DEF EditFile, vars, reading, counts
  <2> QED BY <2>1 DEF GreenInv, SatisfiedSoFar, GreenAtTheEnd
<1> QED BY <1>1, <1>2, <1>3, <1>4, <1>5, <1>6, <1>7 DEF Next, HarnessStep

(* A green exit means that every vector was satisfied.                     *)
THEOREM HarnessGreen == Spec => []GreenMeansSatisfied
<1>1. Init => GreenInv
  BY CasesAssumption DEF Init, GreenInv, SatisfiedSoFar, GreenAtTheEnd
<1>2. TypeOK /\ GreenInv /\ [Next]_vars => GreenInv'
  BY NextKeepsGreen
<1>3. TypeOK /\ GreenInv => GreenMeansSatisfied
  BY CasesAssumption DEF GreenInv, SatisfiedSoFar, GreenAtTheEnd, GreenMeansSatisfied, TypeOK
<1> QED BY <1>1, <1>2, <1>3, HarnessTypeCorrect, SpecIsSafe, PTL DEF Safety

-----------------------------------------------------------------------------
LEMMA LoopRefines ==
  ASSUME TypeOK, exit = "running", at <= Cases, Ended \/ Stays \/ GoesOn
  PROVE  [CR!Next]_CR!vars
<1>1. CASE Ended
  BY <1>1 DEF Ended, CR!Next, CR!Crash, counts
<1>2. CASE Stays
  BY <1>2 DEF Stays, CR!vars, counts
<1>3. CASE GoesOn
  <2>1. Cases + 1 - at' = (Cases + 1 - at) - 1 /\ Cases + 1 - at > 0
    BY <1>3, CasesAssumption DEF GoesOn, TypeOK
  <2> QED BY <1>3, <2>1 DEF GoesOn, CR!Next, CR!Count, counts, CountPassed, CountFailed, CountSkipped
<1> QED BY <1>1, <1>2, <1>3

LEMMA NextRefines ==
  ASSUME TypeOK, [Next]_vars
  PROVE  [CR!Next]_CR!vars
<1>1. CASE ParseFile
  BY <1>1, ParseMoves, LoopRefines DEF ParseFile, InFile
<1>2. CASE ReadText
  BY <1>2, ReadMoves, LoopRefines DEF ReadText, InFile
<1>3. CASE Dispatch
  BY <1>3, DispatchMoves, LoopRefines DEF Dispatch, InFile
<1>4. CASE Finish
  <2>1. Cases + 1 - at = 0 /\ UNCHANGED <<at, passed, failed, skipped>>
    BY <1>4, CasesAssumption DEF Finish, TypeOK, counts
  <2>2. exit' \in {"green", "red"} /\ (exit' = "green" => failed = 0)
    BY <1>4 DEF Finish, TypeOK
  <2> QED BY <1>4, <2>1, <2>2 DEF Finish, CR!Next, CR!Finish
<1>5. CASE CommandEnds
  <2>1. PICK a \in AnswersOf(command, sent[at]) : Judge(a)
    BY <1>5 DEF CommandEnds
  <2> QED BY <1>5, <2>1, JudgeMoves, LoopRefines DEF CommandEnds, InFile
<1>6. CASE CommandTimesOut
  BY <1>6, JudgeMoves, LoopRefines DEF CommandTimesOut, InFile
<1>7. CASE EditFile \/ UNCHANGED vars
  BY <1>7 DEF EditFile, vars, counts, CR!vars
<1> QED BY <1>1, <1>2, <1>3, <1>4, <1>5, <1>6, <1>7 DEF Next, HarnessStep

(* verify_impl implements the counted run.                                 *)
THEOREM HarnessRefinesCountedRun == Spec => IsCountedRun
<1>1. Init => CR!Init
  BY CasesAssumption DEF Init, CR!Init
<1>2. TypeOK /\ [Next]_vars => [CR!Next]_CR!vars
  BY NextRefines
<1> QED BY <1>1, <1>2, HarnessTypeCorrect, SpecIsSafe, PTL DEF Safety, IsCountedRun, CR!Spec

-----------------------------------------------------------------------------
(* The flag never reaches the command it could help.                       *)
FlagIsCutOff ==
  InFile("wait") /\ IsRejection(parsed[at]) => sent[at].flag = FALSE
CaughtSoFar ==
  command = "flag_reader" /\ failed = 0 =>
    \A i \in 1..Cases : i < at /\ parsed[i].form = "vector" /\ IsRejection(parsed[i]) =>
      answer[i] = TimedOut
CaughtInv == FlagIsCutOff /\ CaughtSoFar

LEMMA StrippedOfTheFlag == \A f : StrippedText(f).flag = FALSE
BY DEF StrippedText

LEMMA CaughtOneFileAtATime ==
  ASSUME TypeOK, CaughtSoFar, at <= Cases, Ended \/ Stays \/ GoesOn, UNCHANGED command,
         \A i \in 1..Cases : i # at => parsed'[i] = parsed[i] /\ answer'[i] = answer[i],
         GoesOn /\ failed' = 0 /\ command = "flag_reader" /\ parsed'[at].form = "vector"
           /\ IsRejection(parsed'[at]) => answer'[at] = TimedOut
  PROVE  CaughtSoFar'
<1> SUFFICES ASSUME command = "flag_reader", failed' = 0, NEW i \in 1..Cases, i < at',
                    parsed'[i].form = "vector", IsRejection(parsed'[i])
             PROVE  answer'[i] = TimedOut
  BY DEF CaughtSoFar, IsRejection, TimedOut
<1>1. failed = 0
  BY FailuresStay
<1>2. CASE i = at
  <2>1. GoesOn
    BY <1>2 DEF Ended, Stays, TypeOK
  <2> QED BY <1>2, <2>1
<1>3. CASE i # at
  <2>1. i < at
    BY <1>3 DEF Ended, Stays, GoesOn, TypeOK
  <2> QED BY <1>1, <1>3, <2>1 DEF CaughtSoFar
<1> QED BY <1>2, <1>3

LEMMA JudgeKeepsCaught ==
  ASSUME TypeOK, CaughtInv, InFile("wait"), NEW a, Judge(a),
         a \in AnswersOf(command, sent[at]) \/ a = TimedOut
  PROVE  CaughtInv'
<1>1. Ended \/ GoesOn
  BY JudgeMoves
<1>2. FlagIsCutOff'
  BY <1>1 DEF FlagIsCutOff, InFile, Judge, Ended, GoesOn, NextFile, Crashes, TypeOK
<1>3. at \in 1..Cases /\ UNCHANGED <<parsed, command>> /\ answer' = [answer EXCEPT ![at] = a]
  BY CasesAssumption DEF Judge, InFile, TypeOK, progress
<1>4. \A i \in 1..Cases : i # at => parsed'[i] = parsed[i] /\ answer'[i] = answer[i]
  BY <1>3 DEF TypeOK
<1>5. ASSUME GoesOn, failed' = 0, command = "flag_reader", IsRejection(parsed[at])
      PROVE  a = TimedOut
  <2>1. a.status # "zero"
    BY <1>5 DEF Judge, CountFailed, TypeOK, GoesOn, Crashes, InFile
  <2>2. sent[at].flag = FALSE
    BY <1>5 DEF CaughtInv, FlagIsCutOff
  <2>3. FlagReader(sent[at]).status = "zero"
    BY <2>2 DEF FlagReader, Printed, Answer
  <2>4. AnswersOf(command, sent[at]) = {FlagReader(sent[at])}
    BY <1>5 DEF AnswersOf
  <2> QED BY <2>1, <2>3, <2>4
<1>6. answer'[at] = a
  BY <1>3 DEF TypeOK
<1>7. CaughtSoFar'
  BY <1>1, <1>3, <1>4, <1>5, <1>6, CaughtOneFileAtATime DEF CaughtInv, InFile
<1> QED BY <1>2, <1>7 DEF CaughtInv

LEMMA NextKeepsCaught ==
  ASSUME TypeOK, CaughtInv, [Next]_vars
  PROVE  CaughtInv'
<1>1. CASE ParseFile
  <2>1. Ended \/ Stays \/ GoesOn
    BY <1>1, ParseMoves
  <2>2. ~InFile("wait")'
    BY <1>1 DEF ParseFile, InFile, Crashes, NextFile
  <2>3. at \in 1..Cases /\ UNCHANGED <<answer, command>> /\ parsed' = [parsed EXCEPT ![at] = disk[at]]
    BY <1>1, CasesAssumption DEF ParseFile, InFile, TypeOK, progress
  <2>4. GoesOn => parsed'[at].form = "not_json"
    BY <1>1, <2>3 DEF ParseFile, Crashes, GoesOn, InFile, TypeOK
  <2>5. \A i \in 1..Cases : i # at => parsed'[i] = parsed[i] /\ answer'[i] = answer[i]
    BY <2>3 DEF TypeOK
  <2>6. CaughtSoFar'
    BY <1>1, <2>1, <2>3, <2>4, <2>5, CaughtOneFileAtATime DEF CaughtInv, ParseFile, InFile
  <2> QED BY <2>2, <2>6 DEF CaughtInv, FlagIsCutOff
<1>2. CASE ReadText
  <2>1. Ended \/ Stays
    BY <1>2, ReadMoves
  <2>2. ~InFile("wait")' /\ UNCHANGED <<at, failed, parsed, answer, command>>
    BY <1>2, <2>1 DEF Ended, Stays, ReadText, InFile, Crashes, counts, progress
  <2> QED BY <2>2 DEF CaughtInv, CaughtSoFar, FlagIsCutOff
<1>3. CASE Dispatch
  <2>1. Ended \/ Stays \/ GoesOn
    BY <1>3, DispatchMoves
  <2>2. at \in 1..Cases /\ UNCHANGED <<parsed, answer, command>>
    BY <1>3, CasesAssumption DEF Dispatch, InFile, TypeOK, progress
  <2>3. GoesOn => ~IsRejection(parsed[at])
    BY <1>3 DEF Dispatch, Crashes, GoesOn, InFile, TypeOK, IsWithheld
  <2>4. CaughtSoFar'
    BY <1>3, <2>1, <2>2, <2>3, CaughtOneFileAtATime DEF CaughtInv, Dispatch, InFile
  <2>5. ASSUME InFile("wait")', IsRejection(parsed[at])
        PROVE  at' = at /\ sent' = [sent EXCEPT ![at] = StrippedText(text[at])]
    BY <1>3, <2>5 DEF Dispatch, InFile, Crashes, NextFile, IsWithheld, IsRejection, IsCompared
  <2>6. FlagIsCutOff'
    <3>1. SUFFICES ASSUME InFile("wait")', IsRejection(parsed'[at'])
                   PROVE  sent'[at'].flag = FALSE
      BY DEF FlagIsCutOff, IsRejection, InFile
    <3>2. at' = at
      BY <1>3, <3>1 DEF Dispatch, InFile, Crashes, NextFile
    <3> QED BY <2>2, <2>5, <3>1, <3>2, StrippedOfTheFlag DEF TypeOK
  <2> QED BY <2>4, <2>6 DEF CaughtInv
<1>4. CASE Finish
  <2>1. UNCHANGED <<at, failed, parsed, answer, command>> /\ ~InFile("wait")'
    BY <1>4 DEF Finish, reading, counts, progress, InFile
  <2> QED BY <2>1 DEF CaughtInv, CaughtSoFar, FlagIsCutOff
<1>5. CASE CommandEnds
  <2>1. PICK a \in AnswersOf(command, sent[at]) : Judge(a)
    BY <1>5 DEF CommandEnds
  <2> QED BY <1>5, <2>1, JudgeKeepsCaught DEF CommandEnds
<1>6. CASE CommandTimesOut
  BY <1>6, JudgeKeepsCaught DEF CommandTimesOut
<1>7. CASE EditFile \/ UNCHANGED vars
  <2>1. UNCHANGED <<at, step, failed, parsed, answer, sent, exit, command>>
    BY <1>7 DEF EditFile, vars, reading, counts, progress
  <2> QED BY <2>1 DEF CaughtInv, CaughtSoFar, FlagIsCutOff, InFile
<1> QED BY <1>1, <1>2, <1>3, <1>4, <1>5, <1>6, <1>7 DEF Next, HarnessStep

(* A command that reads the flag never gets a green run.                   *)
THEOREM HarnessCatchesFlagReaders == Spec => []FlagReaderIsCaught
<1>1. Init => CaughtInv
  BY CasesAssumption DEF Init, CaughtInv, FlagIsCutOff, CaughtSoFar, InFile
<1>2. TypeOK /\ CaughtInv /\ [Next]_vars => CaughtInv'
  BY NextKeepsCaught
<1>3. TypeOK /\ GreenInv /\ CaughtInv => FlagReaderIsCaught
  BY CasesAssumption
     DEF GreenInv, GreenAtTheEnd, CaughtInv, CaughtSoFar, FlagReaderIsCaught, TypeOK
<1>4. Init => GreenInv
  BY CasesAssumption DEF Init, GreenInv, SatisfiedSoFar, GreenAtTheEnd
<1>5. TypeOK /\ GreenInv /\ [Next]_vars => GreenInv'
  BY NextKeepsGreen
<1> QED BY <1>1, <1>2, <1>3, <1>4, <1>5, HarnessTypeCorrect, SpecIsSafe, PTL DEF Safety

-----------------------------------------------------------------------------
(* The reference implementation on truthful vectors that nobody rewrites.  *)
IsHonest ==
  /\ command = "reference" /\ edits = 0
  /\ \A i \in 1..Cases : IsTruthful(disk[i]) /\ answer[i] # TimedOut

(* What was read of the file the loop is at is the file, and the command   *)
(* was started on the text its kind of vector calls for.                   *)
ReadAsItIs ==
  exit = "running" /\ at <= Cases =>
    /\ step # "parse" => parsed[at] = disk[at] /\ disk[at].form = "vector"
    /\ step \in {"bytes", "wait"} => text[at] = disk[at]
    /\ step = "wait" =>
         \/ IsRejection(disk[at]) /\ sent[at] = StrippedText(disk[at])
         \/ IsCompared(disk[at]) /\ sent[at] = WholeText(disk[at])
NothingFailed == failed = 0 /\ exit # "crashed"
NotYetAnswered == exit = "running" => \A i \in at..Cases : answer[i] = Silent
HonestInv == NotYetAnswered /\ (IsHonest => NothingFailed /\ ReadAsItIs)

LEMMA SilentIsInTime == Silent # TimedOut
BY DEF Silent, TimedOut, Answer

(* The command refuses what it must and prints what is pinned, from the    *)
(* text it is given.                                                       *)
LEMMA ReferenceIsRight ==
  ASSUME NEW f \in FileType, IsTruthful(f), f.form = "vector"
  PROVE  /\ IsRejection(f) => ReferenceImpl(StrippedText(f)) = Refused
         /\ IsCompared(f) => /\ ReferenceImpl(WholeText(f)) = Printed(Computed, Computed)
                             /\ PairAgrees(f, Printed(Computed, Computed))
<1>1. ASSUME IsRejection(f)
      PROVE  ReferenceImpl(StrippedText(f)) = Refused
  BY <1>1 DEF IsRejection, IsTruthful, StrippedText, ReferenceImpl
<1>2. ASSUME IsCompared(f)
      PROVE  /\ ReferenceImpl(WholeText(f)) = Printed(Computed, Computed)
             /\ PairAgrees(f, Printed(Computed, Computed))
  <2>1. f.flaw = "none" /\ Agrees(f.preImage, Computed) /\ Agrees(f.digest, Computed)
    BY <1>2 DEF IsTruthful
  <2>2. ReferenceImpl(WholeText(f)) = Printed(Computed, Computed)
    BY <1>2, <2>1 DEF IsCompared, WholeText, ReferenceImpl
  <2>3. PairAgrees(f, Printed(Computed, Computed))
    BY <2>1 DEF PairAgrees, Printed, Answer
  <2> QED BY <2>2, <2>3
<1> QED BY <1>1, <1>2

LEMMA NotAnsweredStays ==
  ASSUME TypeOK, NotYetAnswered, exit = "running", Ended \/ Stays \/ GoesOn,
         \A i \in 1..Cases : i # at => answer'[i] = answer[i],
         Stays => UNCHANGED answer
  PROVE  NotYetAnswered'
BY CasesAssumption DEF NotYetAnswered, Ended, Stays, GoesOn, TypeOK

LEMMA JudgeStaysHonest ==
  ASSUME TypeOK, HonestInv, InFile("wait"), NEW a, Judge(a),
         a \in AnswersOf(command, sent[at]) \/ a = TimedOut
  PROVE  HonestInv'
<1>1. Ended \/ GoesOn
  BY JudgeMoves
<1>2. /\ at \in 1..Cases /\ UNCHANGED <<disk, edits, command, parsed>>
      /\ answer' = [answer EXCEPT ![at] = a]
  BY CasesAssumption DEF Judge, InFile, TypeOK, progress
<1>3. /\ answer'[at] = a
      /\ \A i \in 1..Cases : i # at => answer'[i] = answer[i]
  BY <1>2 DEF TypeOK
<1>4. ~Stays
  BY <1>1 DEF Ended, GoesOn, Stays, InFile, TypeOK
<1>5. NotYetAnswered'
  BY <1>1, <1>3, <1>4, NotAnsweredStays DEF HonestInv, InFile
<1>6. ASSUME IsHonest'
      PROVE  NothingFailed' /\ ReadAsItIs'
  <2>1. a # TimedOut
    BY <1>2, <1>3, <1>6 DEF IsHonest
  <2>2. answer[at] # TimedOut
    BY <1>2, SilentIsInTime DEF HonestInv, NotYetAnswered, InFile, TypeOK
  <2>3. IsHonest
    BY <1>2, <1>3, <1>6, <2>2 DEF IsHonest
  <2>4. NothingFailed /\ parsed[at] = disk[at] /\ disk[at].form = "vector"
    BY <1>2, <2>3 DEF HonestInv, ReadAsItIs, InFile
  <2>5. a = ReferenceImpl(sent[at])
    BY <2>1, <2>3 DEF AnswersOf, IsHonest
  <2>6. disk[at] \in FileType /\ IsTruthful(disk[at])
    BY <1>2, <2>3, FilesAssumption DEF IsHonest, TypeOK
  <2>7. CountPassed /\ NextFile /\ UNCHANGED exit
    <3>1. CASE IsRejection(disk[at])
      <4>1. ~IsCompared(disk[at])
        BY <3>1 DEF IsRejection, IsCompared
      <4>2. sent[at] = StrippedText(disk[at])
        BY <1>2, <2>3, <4>1 DEF HonestInv, ReadAsItIs, InFile
      <4>3. a.status = "nonzero"
        <5>1. a = Refused
          BY <2>4, <2>5, <2>6, <3>1, <4>2, ReferenceIsRight
        <5> QED BY <5>1 DEF Refused, Answer
      <4> QED BY <2>4, <3>1, <4>3 DEF Judge
    <3>2. CASE ~IsRejection(disk[at])
      <4>1. IsCompared(disk[at]) /\ sent[at] = WholeText(disk[at])
        BY <1>2, <2>3, <3>2 DEF HonestInv, ReadAsItIs, InFile
      <4>2. a = Printed(Computed, Computed) /\ PairAgrees(disk[at], a)
        BY <2>4, <2>5, <2>6, <4>1, ReferenceIsRight
      <4>3. a.status = "zero" /\ a.output = "object"
        BY <4>2 DEF Printed, Answer
      <4> QED BY <2>4, <3>2, <4>2, <4>3 DEF Judge
    <3> QED BY <3>1, <3>2
  <2>8. step' = "parse"
    BY <2>7 DEF NextFile
  <2> QED BY <2>4, <2>7, <2>8 DEF CountPassed, NothingFailed, ReadAsItIs
<1> QED BY <1>5, <1>6 DEF HonestInv

LEMMA NextStaysHonest ==
  ASSUME TypeOK, HonestInv, [Next]_vars
  PROVE  HonestInv'
<1>1. CASE ParseFile
  <2>1. Ended \/ Stays \/ GoesOn
    BY <1>1, ParseMoves
  <2>2. /\ at \in 1..Cases /\ exit = "running" /\ UNCHANGED <<disk, edits, command, answer>>
        /\ parsed'[at] = disk[at]
    BY <1>1, CasesAssumption DEF ParseFile, InFile, TypeOK, progress
  <2>3. NotYetAnswered'
    BY <2>1, <2>2, NotAnsweredStays DEF HonestInv
  <2>4. ASSUME IsHonest'
        PROVE  NothingFailed' /\ ReadAsItIs'
    <3>1. NothingFailed /\ disk[at].form \in {"vector", "not_json"}
      BY <2>2, <2>4 DEF HonestInv, IsHonest, IsTruthful
    <3>2. CASE disk[at].form = "not_json"
      BY <1>1, <2>2, <3>1, <3>2 DEF ParseFile, NextFile, counts, NothingFailed, ReadAsItIs
    <3>3. CASE disk[at].form = "vector"
      BY <1>1, <2>2, <3>1, <3>3 DEF ParseFile, counts, NothingFailed, ReadAsItIs
    <3> QED BY <3>1, <3>2, <3>3
  <2> QED BY <2>3, <2>4 DEF HonestInv
<1>2. CASE ReadText
  <2>1. Ended \/ Stays
    BY <1>2, ReadMoves
  <2>2. /\ at \in 1..Cases /\ exit = "running" /\ step = "text"
        /\ UNCHANGED <<disk, edits, command, parsed, answer>>
    BY <1>2, CasesAssumption DEF ReadText, InFile, TypeOK, progress
  <2>3. NotYetAnswered'
    BY <2>1, <2>2, NotAnsweredStays DEF HonestInv
  <2>4. ASSUME IsHonest'
        PROVE  NothingFailed' /\ ReadAsItIs'
    <3>1. NothingFailed /\ parsed[at] = disk[at] /\ disk[at].form = "vector"
      BY <2>2, <2>4 DEF HonestInv, IsHonest, ReadAsItIs
    <3>2. text' = [text EXCEPT ![at] = disk[at]] /\ step' = "bytes" /\ UNCHANGED <<at, failed, exit>>
      BY <1>2, <3>1 DEF ReadText, counts
    <3>3. text'[at] = disk[at]
      BY <2>2, <3>2 DEF TypeOK
    <3> QED BY <2>2, <3>1, <3>2, <3>3 DEF NothingFailed, ReadAsItIs
  <2> QED BY <2>3, <2>4 DEF HonestInv
<1>3. CASE Dispatch
  <2>1. Ended \/ Stays \/ GoesOn
    BY <1>3, DispatchMoves
  <2>2. /\ at \in 1..Cases /\ exit = "running" /\ step = "bytes"
        /\ UNCHANGED <<disk, edits, command, parsed, text, answer>>
    BY <1>3, CasesAssumption DEF Dispatch, InFile, TypeOK, progress
  <2>3. NotYetAnswered'
    BY <2>1, <2>2, NotAnsweredStays DEF HonestInv
  <2>4. ASSUME IsHonest'
        PROVE  NothingFailed' /\ ReadAsItIs'
    <3>1. NothingFailed /\ parsed[at] = disk[at] /\ text[at] = disk[at] /\ disk[at].form = "vector"
      BY <2>2, <2>4 DEF HonestInv, IsHonest, ReadAsItIs
    <3> DEFINE Started(m) == /\ sent' = [sent EXCEPT ![at] = m] /\ step' = "wait"
                             /\ UNCHANGED <<at, counts, exit>>
    <3>2. \/ CountSkipped /\ NextFile /\ UNCHANGED exit
          \/ IsRejection(disk[at]) /\ Started(StrippedText(disk[at]))
          \/ IsCompared(disk[at]) /\ Started(WholeText(disk[at]))
      BY <1>3, <3>1 DEF Dispatch
    <3>3. CASE CountSkipped /\ NextFile /\ UNCHANGED exit
      BY <3>1, <3>3 DEF CountSkipped, NextFile, NothingFailed, ReadAsItIs
    <3>4. CASE IsRejection(disk[at]) /\ Started(StrippedText(disk[at]))
      <4>1. sent'[at] = StrippedText(disk[at])
        BY <2>2, <3>4 DEF TypeOK
      <4> QED BY <2>2, <3>1, <3>4, <4>1 DEF counts, NothingFailed, ReadAsItIs
    <3>5. CASE IsCompared(disk[at]) /\ Started(WholeText(disk[at]))
      <4>1. sent'[at] = WholeText(disk[at])
        BY <2>2, <3>5 DEF TypeOK
      <4> QED BY <2>2, <3>1, <3>5, <4>1 DEF counts, NothingFailed, ReadAsItIs
    <3> QED BY <3>2, <3>3, <3>4, <3>5
  <2> QED BY <2>3, <2>4 DEF HonestInv
<1>4. CASE Finish
  <2>1. /\ UNCHANGED <<disk, edits, command, answer, failed>>
        /\ exit' \in {"red", "green"}
    BY <1>4 DEF Finish, reading, counts, progress
  <2> QED BY <2>1 DEF HonestInv, NotYetAnswered, IsHonest, NothingFailed, ReadAsItIs
<1>5. CASE CommandEnds
  <2>1. PICK a \in AnswersOf(command, sent[at]) : Judge(a)
    BY <1>5 DEF CommandEnds
  <2> QED BY <1>5, <2>1, JudgeStaysHonest DEF CommandEnds
<1>6. CASE CommandTimesOut
  BY <1>6, JudgeStaysHonest DEF CommandTimesOut
<1>7. CASE EditFile
  <2>1. edits' # 0 /\ UNCHANGED <<at, answer, exit>>
    BY <1>7 DEF EditFile, TypeOK, reading
  <2> QED BY <2>1 DEF HonestInv, NotYetAnswered, IsHonest
<1>8. CASE UNCHANGED vars
  BY <1>8 DEF vars, progress, reading, counts, HonestInv, NotYetAnswered, IsHonest, NothingFailed, ReadAsItIs
<1> QED BY <1>1, <1>2, <1>3, <1>4, <1>5, <1>6, <1>7, <1>8 DEF Next, HarnessStep

(* The reference implementation is never counted as failed on truthful     *)
(* vectors that nobody rewrites, as long as it answers in time.            *)
THEOREM HarnessPassesTheReference == Spec => []ReferenceIsNeverFailed
<1>1. Init => HonestInv
  BY CasesAssumption DEF Init, HonestInv, NotYetAnswered, NothingFailed, ReadAsItIs
<1>2. TypeOK /\ HonestInv /\ [Next]_vars => HonestInv'
  BY NextStaysHonest
<1>3. HonestInv => ReferenceIsNeverFailed
  BY DEF HonestInv, IsHonest, NothingFailed, ReferenceIsNeverFailed
<1> QED BY <1>1, <1>2, <1>3, HarnessTypeCorrect, SpecIsSafe, PTL DEF Safety
=============================================================================
