----------------------------- MODULE MCCpbCheck -----------------------------
(***************************************************************************)
(* Texts of up to MaxTokens tokens over four string tokens: a name, the    *)
(* same name with an escape, its decomposed form, and one with an unpaired *)
(* surrogate; suites of up to Suite vectors.  The escape is one that JSON  *)
(* does not have: the scanner decodes it like any other.                   *)
(***************************************************************************)
EXTENDS JsonGrammar

MCSpellings == {"composed", "misspelled", "lone"}
MCAllSpellings == MCSpellings \cup {"decomposed"}
MCMisspelled == {"misspelled"}
MCDecoded ==
  [s \in MCAllSpellings |-> IF s = "misspelled" THEN "composed" ELSE s]
MCNfc == [n \in {"composed", "decomposed", "lone"} |-> IF n = "decomposed" THEN "composed" ELSE n]
MCLone == {"lone"}

Vector(loads, expects, hasRecord, result) ==
  [loads |-> loads, expects |-> expects, hasRecord |-> hasRecord, result |-> result]

MCVectors ==
  {Vector("object", "conforming", TRUE, "conforming"),
   Vector("object", "non-conforming", TRUE, "non-conforming"),
   Vector("object", "non-conforming", TRUE, "conforming"),
   Vector("object", "non-conforming", TRUE, "raises"),
   Vector("object", "conforming", FALSE, "raises"),
   Vector("object", "none", TRUE, "conforming"),
   Vector("error", "none", FALSE, "raises"),
   Vector("other_json", "none", FALSE, "raises")}
=============================================================================
