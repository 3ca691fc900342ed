---------------------------- MODULE VectorHarness ----------------------------
(***************************************************************************)
(* The cross-language harness (vectors/harness.py): verify_impl runs an    *)
(* external command on every vector file of a directory and exits 0 when   *)
(* nothing it counts has failed; reference-impl is the command the harness *)
(* offers to others.  A vector file is known by the members that decide    *)
(* what happens to it; a pre-image and a digest by whether they are the    *)
(* ones the algorithm yields for the vector's input.                       *)
(***************************************************************************)
EXTENDS Integers

CONSTANTS
  Cases,     \* how many *.json files the directory lists, in sorted order
  Files,     \* the contents a file may have
  Commands,  \* the kinds of external command
  MaxEdits   \* bound: how often a file is rewritten while the harness runs

ASSUME CasesAssumption == Cases \in Nat

VARIABLES
  disk,     \* the files as they are on disk
  edits,    \* how often a file was rewritten
  command,  \* the external command
  at,       \* the file the loop is at
  step,     \* what is done next with it
  parsed,   \* v: what json.loads made of each file
  text,     \* raw_text: the text read after it
  sent,     \* vector_json: what the command was given
  answer,   \* how the command ended, for every file
  passed, failed, skipped,
  exit

progress == <<disk, edits, command>>
counts == <<passed, failed, skipped>>
reading == <<parsed, text, sent, answer>>
vars == <<progress, at, step, reading, counts, exit>>

Computed == "computed"      \* the string the algorithm yields
Strings == {Computed, "other", ""}
Forms == {"vector", "crlf", "not_json", "not_object", "not_utf8"}
Flaws == {"none", "input_token", "input_value", "meta_token"}

(* A file: its form, the members verify_impl looks for, the pinned pair,   *)
(* and where it breaks the rules of the algorithm: in a token or a value   *)
(* of the input, or in a token outside it.                                 *)
FileType ==
  [form : Forms, mustFail : BOOLEAN, hasInput : BOOLEAN, hasPreImage : BOOLEAN,
   hasCorrectDigest : BOOLEAN, preImage : Strings, digest : Strings, flaw : Flaws]

ASSUME FilesAssumption == Files \subseteq FileType
ASSUME CommandsAssumption == Commands \subseteq {"reference", "flag_reader", "any"}

(* How a command ends: its status, and what it printed.                    *)
Answer(status, output, preImage, digest) ==
  [status |-> status, output |-> output, preImage |-> preImage, digest |-> digest]
Refused == Answer("nonzero", "nothing", "", "")
Silent == Answer("zero", "nothing", "", "")
TimedOut == Answer("timeout", "nothing", "", "")
Printed(preImage, digest) == Answer("zero", "object", preImage, digest)
AnswerType ==
  [status : {"zero", "nonzero", "timeout"}, output : {"nothing", "not_json", "not_object", "object"},
   preImage : Strings, digest : Strings]

(* What is written to the command's stdin.                                 *)
MessageType == [isJson : BOOLEAN, flag : BOOLEAN, hasInput : BOOLEAN, flaw : Flaws]
WholeText(f) ==
  [isJson |-> f.form \in {"vector", "crlf"}, flag |-> f.mustFail,
   hasInput |-> f.hasInput, flaw |-> f.flaw]

(* Mutated forms: the whole text is sent; the object is parsed and         *)
(* serialized again, which repairs its tokens.                             *)
FlagSentAlong(f) == WholeText(f)
Reserialized(f) ==
  [isJson |-> TRUE, flag |-> FALSE, hasInput |-> f.hasInput,
   flaw |-> IF f.flaw = "input_value" THEN f.flaw ELSE "none"]

(* The raw text of input, exclusion_set and algorithm, cut out of the      *)
(* file's text: the flag and all metadata stay behind, tokens are kept.    *)
StrippedText(f) ==
  [isJson |-> TRUE, flag |-> FALSE, hasInput |-> f.hasInput,
   flaw |-> IF f.flaw = "meta_token" \/ ~f.hasInput THEN "none" ELSE f.flaw]

-----------------------------------------------------------------------------
(* reference-impl: the wire rules hold over everything it was sent, then   *)
(* the flag, then the missing input, then the value itself.                *)
ReferenceImpl(m) ==
  IF \/ ~m.isJson
     \/ m.flaw \in {"input_token", "meta_token"}
     \/ m.flag
     \/ m.hasInput /\ m.flaw = "input_value"
  THEN Refused
  ELSE IF m.hasInput THEN Printed(Computed, Computed) ELSE Silent

(* A command that reads the verdict off the flag and never looks further.  *)
FlagReader(m) == IF m.flag THEN Refused ELSE Printed(Computed, Computed)

UnusableAnswers ==
  {Refused, Silent, Answer("zero", "not_json", "", ""), Answer("zero", "not_object", "", "")}
PrintedAnswers == {Printed(p, d) : p \in Strings, d \in Strings}

(* How each kind of command may end on its own.                            *)
AnswersOf(c, m) ==
  CASE c = "reference" -> {ReferenceImpl(m)}
    [] c = "flag_reader" -> {FlagReader(m)}
    [] c = "any" -> UnusableAnswers \cup PrintedAnswers

-----------------------------------------------------------------------------
(* verify_impl's classification of a parsed vector.                        *)
IsRejection(v) == v.mustFail /\ v.hasInput /\ ~v.hasCorrectDigest /\ ~v.hasPreImage
IsWithheld(v) == v.mustFail /\ ~IsRejection(v)
IsCompared(v) == ~v.mustFail /\ v.hasInput /\ v.hasPreImage

(* A pinned member is compared only when it is not empty.                  *)
Agrees(pinned, got) == pinned = "" \/ got = pinned

(* Mutated form: the digest is not compared.                               *)
PreImageAgrees(v, a) == Agrees(v.preImage, a.preImage)

PairAgrees(v, a) == Agrees(v.preImage, a.preImage) /\ Agrees(v.digest, a.digest)

NextFile == at' = at + 1 /\ step' = "parse"

CountPassed == passed' = passed + 1 /\ UNCHANGED <<failed, skipped>>
CountFailed == failed' = failed + 1 /\ UNCHANGED <<passed, skipped>>
CountSkipped == skipped' = skipped + 1 /\ UNCHANGED <<passed, failed>>

(* A traceback ends the process with status 1.                             *)
Crashes == exit' = "crashed" /\ UNCHANGED <<at, step, counts>>

InFile(s) == exit = "running" /\ at <= Cases /\ step = s

(* The first read: a file that is not JSON is passed over uncounted.       *)
ParseFile ==
  /\ InFile("parse")
  /\ parsed' = [parsed EXCEPT ![at] = disk[at]]
  /\ CASE disk[at].form \in {"not_utf8", "not_object"} -> Crashes
       [] disk[at].form = "not_json" -> NextFile /\ UNCHANGED <<counts, exit>>
       [] OTHER -> step' = "text" /\ UNCHANGED <<at, counts, exit>>
  /\ UNCHANGED <<progress, text, sent, answer>>

(* The second read.                                                        *)
ReadText ==
  /\ InFile("text")
  /\ IF disk[at].form = "not_utf8"
     THEN Crashes /\ UNCHANGED text
     ELSE /\ text' = [text EXCEPT ![at] = disk[at]]
          /\ step' = "bytes"
          /\ UNCHANGED <<at, counts, exit>>
  /\ UNCHANGED <<progress, parsed, sent, answer>>

(* The third read, compared with the second, and the dispatch: skip, or    *)
(* start the command on the stripped or the whole text.                    *)
Dispatch ==
  /\ InFile("bytes")
  /\ LET v == parsed[at]
         t == text[at]
         Start(m) == /\ sent' = [sent EXCEPT ![at] = m]
                     /\ step' = "wait"
                     /\ UNCHANGED <<at, counts, exit>>
     IN
     CASE disk[at] # t \/ t.form = "crlf" -> Crashes /\ UNCHANGED sent
       [] disk[at] = t /\ t.form # "crlf" /\ IsWithheld(v) ->
            CountSkipped /\ NextFile /\ UNCHANGED <<sent, exit>>
       [] disk[at] = t /\ t.form # "crlf" /\ IsRejection(v) ->
            IF t.form = "vector" THEN Start(StrippedText(t)) ELSE Crashes /\ UNCHANGED sent
       [] disk[at] = t /\ t.form # "crlf" /\ IsCompared(v) -> Start(WholeText(t))
       [] OTHER -> CountSkipped /\ NextFile /\ UNCHANGED <<sent, exit>>
  /\ UNCHANGED <<progress, parsed, text, answer>>

(* What verify_impl makes of the way the command ended.                    *)
Judge(a) ==
  LET v == parsed[at] IN
  /\ answer' = [answer EXCEPT ![at] = a]
  /\ CASE IsRejection(v) ->
            /\ IF a.status = "zero" THEN CountFailed ELSE CountPassed
            /\ NextFile /\ UNCHANGED exit
       [] ~IsRejection(v) /\ a.status = "zero" /\ a.output = "not_object" -> Crashes
       [] OTHER ->
            /\ CASE a.status # "zero" -> CountFailed
                 [] a.status = "zero" /\ a.output = "nothing" -> CountSkipped
                 [] a.status = "zero" /\ a.output # "nothing" ->
                      IF a.output = "object" /\ PairAgrees(v, a) THEN CountPassed ELSE CountFailed
            /\ NextFile /\ UNCHANGED exit
  /\ UNCHANGED <<progress, parsed, text, sent>>

CommandEnds ==
  /\ InFile("wait")
  /\ \E a \in AnswersOf(command, sent[at]) : Judge(a)

(* Mutated form: no time limit.                                            *)
NoTimeLimit == FALSE /\ UNCHANGED vars

(* subprocess.run kills a command that has not ended in 30 seconds;        *)
(* _run_command then reports status -1 and no output.                      *)
CommandTimesOut ==
  /\ InFile("wait")
  /\ Judge(TimedOut)

(* Mutated form: a run with failures ends like one without.                *)
AlwaysGreen ==
  /\ exit = "running" /\ at > Cases
  /\ exit' = "green"
  /\ UNCHANGED <<progress, at, step, reading, counts>>

Finish ==
  /\ exit = "running" /\ at > Cases
  /\ exit' = IF failed > 0 THEN "red" ELSE "green"
  /\ UNCHANGED <<progress, at, step, reading, counts>>

(* Someone rewrites a vector file between two reads.                       *)
EditFile ==
  /\ exit = "running"
  /\ edits < MaxEdits
  /\ \E i \in 1..Cases, f \in Files : disk' = [disk EXCEPT ![i] = f]
  /\ edits' = edits + 1
  /\ UNCHANGED <<command, at, step, reading, counts, exit>>

Blank ==
  [form |-> "not_json", mustFail |-> FALSE, hasInput |-> FALSE, hasPreImage |-> FALSE,
   hasCorrectDigest |-> FALSE, preImage |-> "", digest |-> "", flaw |-> "none"]

Init ==
  /\ disk \in [1..Cases -> Files]
  /\ edits = 0
  /\ command \in Commands
  /\ at = 1
  /\ step = "parse"
  /\ parsed = [i \in 1..Cases |-> Blank]
  /\ text = [i \in 1..Cases |-> Blank]
  /\ sent = [i \in 1..Cases |-> StrippedText(Blank)]
  /\ answer = [i \in 1..Cases |-> Silent]
  /\ passed = 0 /\ failed = 0 /\ skipped = 0
  /\ exit = "running"

HarnessStep == ParseFile \/ ReadText \/ Dispatch \/ Finish

Next == HarnessStep \/ CommandEnds \/ CommandTimesOut \/ EditFile

(* The harness runs on, and the time limit passes; the command owes        *)
(* nothing and nobody has to edit a file.                                  *)
Fairness ==
  /\ WF_vars(HarnessStep)
  /\ WF_vars(CommandTimesOut)

Spec == Init /\ [][Next]_vars /\ Fairness

-----------------------------------------------------------------------------
TypeOK ==
  /\ disk \in [1..Cases -> Files]
  /\ edits \in Nat
  /\ command \in Commands
  /\ at \in 1..(Cases + 1)
  /\ step \in {"parse", "text", "bytes", "wait"}
  /\ parsed \in [1..Cases -> FileType]
  /\ text \in [1..Cases -> FileType]
  /\ sent \in [1..Cases -> MessageType]
  /\ answer \in [1..Cases -> AnswerType]
  /\ passed \in Nat /\ failed \in Nat /\ skipped \in Nat
  /\ exit \in {"running", "green", "red", "crashed"}

(* What a vector asks of the command, by what was parsed of it.            *)
Satisfied(v, a) ==
  v.form = "vector" =>
    /\ IsRejection(v) => a.status # "zero"
    /\ IsCompared(v) =>
         /\ a.status = "zero"
         /\ \/ a.output = "nothing"
            \/ /\ a.output = "object"
               /\ v.preImage # "" => a.preImage = v.preImage
               /\ v.digest # "" => a.digest = v.digest

(* A green exit of verify_impl means that every vector whose rejection the *)
(* algorithm decides was refused, and every vector with a pinned pair got  *)
(* that pair or no output at all: a failure early in the list is never     *)
(* lost by what follows it, also when files are rewritten on the way.      *)
GreenMeansSatisfied ==
  exit = "green" => \A i \in 1..Cases : Satisfied(parsed[i], answer[i])

(* A command that only reads the must_fail flag never gets a green run out *)
(* of a directory with one algorithm rejection: verify_impl never lets the *)
(* flag through to the command it could help.                              *)
FlagReaderIsCaught ==
  command = "flag_reader" /\ exit = "green" =>
    \A i \in 1..Cases : parsed[i].form = "vector" /\ IsRejection(parsed[i]) => answer[i] = TimedOut

(* A vector that says of its input what the algorithm does with it.        *)
IsTruthful(f) ==
  /\ f.form \in {"vector", "not_json"}
  /\ IsRejection(f) => f.flaw \in {"input_token", "input_value"}
  /\ IsCompared(f) => f.flaw = "none" /\ Agrees(f.preImage, Computed) /\ Agrees(f.digest, Computed)

(* The two directions agree: on a directory of truthful vectors that       *)
(* nobody rewrites, verify_impl never counts a failure of reference-impl   *)
(* unless the time limit cut it off: what reaches the command keeps the    *)
(* tokens it must refuse.                                                  *)
ReferenceIsNeverFailed ==
  /\ command = "reference"
  /\ edits = 0
  /\ \A i \in 1..Cases : IsTruthful(disk[i]) /\ answer[i] # TimedOut
  => failed = 0 /\ exit # "crashed"

CR == INSTANCE CountedRun WITH left <- Cases + 1 - at

(* verify_impl is a counted run: the loop counts no file twice, and its    *)
(* exit status is 0 only after the last file and without a failure.        *)
IsCountedRun == CR!Spec

(* Every run of verify_impl ends: a command that hangs is cut off, and the *)
(* loop goes on with the next file.                                        *)
RunEnds == <>(exit # "running")
=============================================================================
