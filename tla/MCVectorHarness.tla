-------------------------- MODULE MCVectorHarness --------------------------
(***************************************************************************)
(* Directories of up to two or three files, each of one of the shapes the  *)
(* vector tree holds or an edit may leave behind, and three commands.      *)
(***************************************************************************)
EXTENDS VectorHarness

File(mustFail, hasPreImage, preImage, digest, flaw) ==
  [form |-> "vector", mustFail |-> mustFail, hasInput |-> TRUE, hasPreImage |-> hasPreImage,
   hasCorrectDigest |-> FALSE, preImage |-> preImage, digest |-> digest, flaw |-> flaw]

Passing == File(FALSE, TRUE, Computed, Computed, "none")

MCFiles ==
  {Passing,
   File(FALSE, TRUE, Computed, "", "none"),
   File(FALSE, TRUE, Computed, "other", "none"),
   File(TRUE, FALSE, "", "", "input_token"),
   File(TRUE, FALSE, "", "", "input_value"),
   [Passing EXCEPT !.mustFail = TRUE, !.hasCorrectDigest = TRUE],
   [Passing EXCEPT !.form = "not_json"],
   [Passing EXCEPT !.form = "crlf"]}

MCCommands == {"reference", "flag_reader", "any"}
=============================================================================
