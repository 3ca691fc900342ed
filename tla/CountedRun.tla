----------------------------- MODULE CountedRun -----------------------------
(***************************************************************************)
(* What a run over a fixed list of conformance cases promises to the job   *)
(* that reads its exit status: no case is counted twice, the run is green  *)
(* only when every case has been gone through and none failed.  A run may  *)
(* refuse to be green for reasons of its own, and it may stop with a       *)
(* traceback at any case.                                                  *)
(***************************************************************************)
EXTENDS Integers

CONSTANT Cases  \* the number of cases

VARIABLES
  left,    \* how many cases are still to be gone through
  passed, failed, skipped,
  exit     \* "running", then how the process ended

vars == <<left, passed, failed, skipped, exit>>

Exits == {"running", "green", "red", "crashed"}

Init ==
  /\ left = Cases
  /\ passed = 0 /\ failed = 0 /\ skipped = 0
  /\ exit = "running"

(* One case is gone through and enters at most one of the counts.          *)
Count ==
  /\ exit = "running"
  /\ left > 0
  /\ left' = left - 1
  /\ \/ UNCHANGED <<passed, failed, skipped>>
     \/ passed' = passed + 1 /\ UNCHANGED <<failed, skipped>>
     \/ failed' = failed + 1 /\ UNCHANGED <<passed, skipped>>
     \/ skipped' = skipped + 1 /\ UNCHANGED <<passed, failed>>
  /\ UNCHANGED exit

Finish ==
  /\ exit = "running"
  /\ left = 0
  /\ exit' \in {"green", "red"}
  /\ exit' = "green" => failed = 0
  /\ UNCHANGED <<left, passed, failed, skipped>>

Crash ==
  /\ exit = "running"
  /\ exit' = "crashed"
  /\ UNCHANGED <<left, passed, failed, skipped>>

Next == Count \/ Finish \/ Crash

Spec == Init /\ [][Next]_vars
=============================================================================
