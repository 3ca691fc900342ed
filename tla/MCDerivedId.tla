---------------------------- MODULE MCDerivedId ----------------------------
(***************************************************************************)
(* A record class whose id excludes the carried field, and one that        *)
(* forgets to; a second member that edits may change, empty or repeat.     *)
(***************************************************************************)
EXTENDS DerivedId

CONSTANTS this, that  \* two contents

MCMemberNames == {"id", "x"}
MCContents == {this, that}
MCExclusions == {{}, {"id"}}

Plain(content) == [kind |-> "plain", content |-> content]
Empty == [kind |-> "empty", content |-> this]
MCRecordChoices == {[m \in {"x"} |-> Plain(this)], [m \in {"x"} |-> Empty]}
MCEditChoices == {Plain(this), Plain(that), Empty, [kind |-> "float", content |-> this]}

MCCutoff == 24
\* Wall clocks on both sides of the cutoff, where the offset decides.
MCEvidenceTimes ==
  {Reply("datetime", 24, 2), Reply("datetime", 23, -1), Reply("datetime", 23, None)}
=============================================================================
