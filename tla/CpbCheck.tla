------------------------------ MODULE CpbCheck ------------------------------
(***************************************************************************)
(* The command cpb-check (lib/cpb/_cli.py, lib/cpb/check.py): one record   *)
(* is scanned and judged, or the packaged vectors are.  The exit status is *)
(* all a CI gate sees of it.  At the end, what the scanner counts and the  *)
(* checker decides is held against definitions over the whole text and     *)
(* against what the canonicalizer makes of the record.                     *)
(***************************************************************************)
EXTENDS JsonConformance

CONSTANTS
  Vectors,  \* the files the packaged suite may hold
  Suite     \* bound: how many of them

VARIABLES
  args,     \* what the command was called with
  source,   \* what is found where the command looks
  suite,    \* the files of the packaged suite, in order of their names
  at, passed, failed, skipped,
  checked,  \* checked_by_verdict
  status    \* the exit status, once there is one

cliVars == <<args, source, suite, at, passed, failed, skipped, checked, status>>
vars == <<scannerVars, cliVars>>

Running == -1
RequiredVerdicts == {"conforming", "non-conforming"}
Verdicts == RequiredVerdicts \cup {"digest-mismatch"}

(* A vector: what loading it comes to, what it expects ("none" when it     *)
(* does not say), whether it carries a record, and what check makes of it. *)
VectorType ==
  [loads : {"object", "other_json", "error"}, expects : Verdicts \cup {"none"}, hasRecord : BOOLEAN,
   result : RequiredVerdicts \cup {"raises"}]

ASSUME VectorsAssumption == Vectors \subseteq VectorType /\ Suite \in Nat

(* check: the scanner's violations and those of the P rule.                *)
Verdict ==
  IF (\E c \in Codes : found[c] > 0) \/ PWalk(value) THEN "non-conforming" ELSE "conforming"

Exit(code) == status' = code
SameRun == UNCHANGED <<args, source, suite>>
SameTally == UNCHANGED <<at, passed, failed, skipped, checked>>

(* Help is not an error; nothing to check is.                              *)
Usage ==
  /\ status = Running
  /\ args \in {"help", "nothing"}
  /\ Exit(IF args = "help" THEN 0 ELSE 2)
  /\ SameRun /\ SameTally /\ UNCHANGED scannerVars

(* The record cannot be read, or its bytes are not UTF-8.                  *)
Unreadable ==
  /\ status = Running
  /\ args = "record" /\ source # "utf8"
  /\ Exit(2)
  /\ SameRun /\ SameTally /\ UNCHANGED scannerVars

Scan ==
  /\ status = Running
  /\ args = "record" /\ source = "utf8"
  /\ ScannerNext
  /\ UNCHANGED cliVars

Report ==
  /\ status = Running
  /\ args = "record" /\ outcome # "scanning"
  /\ Exit(IF outcome # "parsed" THEN 2 ELSE IF Verdict = "conforming" THEN 0 ELSE 1)
  /\ SameRun /\ SameTally /\ UNCHANGED scannerVars

(* _self_test on one file: load, expected verdict, record, check.  A file  *)
(* that holds JSON but no object ends the run with a traceback.            *)
SelfTestVector ==
  /\ status = Running
  /\ args = "self_test" /\ source = "directory" /\ at <= Len(suite)
  /\ LET f == suite[at]
         isChecked == f.loads = "object" /\ f.expects # "none" /\ f.hasRecord
         isRight == isChecked /\ f.result = f.expects
     IN
     IF f.loads = "other_json" THEN Exit(1) /\ SameTally
     ELSE /\ checked' = IF isChecked THEN [checked EXCEPT ![f.expects] = @ + 1] ELSE checked
          /\ passed' = IF isRight THEN passed + 1 ELSE passed
          /\ skipped' = IF f.loads = "object" /\ ~isChecked THEN skipped + 1 ELSE skipped
          /\ failed' = IF f.loads = "error" \/ (isChecked /\ ~isRight) THEN failed + 1 ELSE failed
          /\ at' = at + 1
          /\ UNCHANGED status
  /\ SameRun /\ UNCHANGED scannerVars

(* Mutated form: only a run that checked nothing fails.                    *)
NothingChecked(tally) == \A verdict \in RequiredVerdicts : tally[verdict] = 0

(* The end of _self_test: a verdict nobody expected, or no vector at all,  *)
(* fails the run like a failed vector does.                                *)
Unexercised(tally) == \E verdict \in RequiredVerdicts : tally[verdict] = 0

SelfTestEnds ==
  /\ status = Running
  /\ args = "self_test" /\ source = "directory" /\ at > Len(suite)
  /\ Exit(IF Unexercised(checked) \/ failed > 0 THEN 1 ELSE 0)
  /\ SameRun /\ SameTally /\ UNCHANGED scannerVars

(* The packaged vectors are not where they should be.                      *)
NoSuite ==
  /\ status = Running
  /\ args = "self_test" /\ source = "missing"
  /\ Exit(2)
  /\ SameRun /\ SameTally /\ UNCHANGED scannerVars

Init ==
  /\ ScannerInit
  /\ args \in {"help", "nothing", "record", "self_test"}
  /\ source \in CASE args = "record" -> {"utf8", "not_utf8", "os_error"}
                   [] args = "self_test" -> {"directory", "missing"}
                   [] OTHER -> {"nothing"}
  /\ suite \in IF source = "directory" THEN UNION {[1..n -> Vectors] : n \in 0..Suite} ELSE {<<>>}
  /\ at = 1
  /\ passed = 0 /\ failed = 0 /\ skipped = 0
  /\ checked = [verdict \in Verdicts |-> 0]
  /\ status = Running

Next == Usage \/ Unreadable \/ Scan \/ Report \/ SelfTestVector \/ SelfTestEnds \/ NoSuite

Spec == Init /\ [][Next]_vars

-----------------------------------------------------------------------------
(* Reference: brackets still open after the first n tokens.                *)
OpenAfter(t, n) ==
  LET Count(S) == {i \in 1..n : t[i] \in S} IN Cardinality(Count(Openers)) - Cardinality(Count(Closers))

(* Reference: where the names are, and the bracket that encloses each.     *)
NamePositions(t) == {i \in 1..(Len(t) - 1) : t[i + 1] = ":"}
Enclosing(t, i) ==
  CHOOSE o \in 1..(i - 1) :
    /\ t[o] \in Openers
    /\ OpenAfter(t, o) = OpenAfter(t, i - 1)
    /\ \A k \in o..(i - 1) : OpenAfter(t, k) >= OpenAfter(t, o)

(* Reference: the names that repeat, up to Same, an earlier one of their   *)
(* object.                                                                 *)
Repeats(t, Same(_, _)) ==
  {j \in NamePositions(t) :
     \E i \in NamePositions(t) :
       i < j /\ Enclosing(t, i) = Enclosing(t, j) /\ Same(Decoded[t[i]], Decoded[t[j]])}

SameName(a, b) == a = b

(* lex reports a duplicate_key once for every member whose name, after its *)
(* escapes are decoded, repeats an earlier one of the same object: also in *)
(* objects within arrays, and in values a later duplicate drops from the   *)
(* returned record.                                                        *)
RepeatedMembersAreReported ==
  outcome = "parsed" => found["duplicate_key"] = Cardinality(Repeats(text, SameName))

(* The depth counter is the number of brackets still open, so that records *)
(* with many containers side by side are not refused as too deep, and none *)
(* deeper than the limit is followed.                                      *)
DepthCountsOpenBrackets ==
  /\ outcome = "scanning" => depth = OpenAfter(text, Len(text)) /\ depth <= MaxDepth
  /\ outcome = "too_deep" => OpenAfter(text, Len(text)) > MaxDepth

(* check calls a record conforming exactly when it is its own normal form, *)
(* repeats no member and writes every number as a safe integer: the P walk *)
(* of the checker and normalize of the canonicalizer, which are separate   *)
(* code, draw the same line.                                               *)
ConformingMeansNormalForm ==
  outcome = "parsed" =>
    (Verdict = "conforming" <=>
       /\ Normalize(value) = value
       /\ Repeats(text, SameName) = {}
       /\ \A i \in DOMAIN text : text[i] \in NumberTokens => text[i] = "int")

(* A conforming record that is an object and can be encoded at all is one  *)
(* the canonicalizer digests: cpb-check never exits 0 for a record whose   *)
(* number or duplicate canonical_digest_json refuses.                      *)
ConformingIsDigestible ==
  /\ args = "record" /\ status = 0
  /\ value.kind = "object"
  /\ \A i \in DOMAIN text : text[i] \in Spellings => Decoded[text[i]] \notin Lone
  => ~DigestRefused(value, found)

(* Exit status 0 is earned: by a record that was read and conforms, or by  *)
(* a self-test in which every file loaded, none was checked wrong, and     *)
(* every required verdict was produced for a vector that expects it; never *)
(* by a call that named nothing to check.                                  *)
ExitZeroIsEarned ==
  status = 0 =>
    CASE args = "record" -> outcome = "parsed" /\ Verdict = "conforming"
      [] args = "self_test" ->
           /\ \A i \in DOMAIN suite :
                /\ suite[i].loads = "object"
                /\ suite[i].expects # "none" /\ suite[i].hasRecord => suite[i].result = suite[i].expects
           /\ \A verdict \in RequiredVerdicts :
                \E i \in DOMAIN suite : /\ suite[i].hasRecord
                                        /\ suite[i].expects = verdict /\ suite[i].result = verdict
      [] OTHER -> args = "help"

=============================================================================
