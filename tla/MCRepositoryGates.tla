------------------------- MODULE MCRepositoryGates -------------------------
(***************************************************************************)
(* Every algorithm section of up to three lines, and some of four; types,  *)
(* vocabularies and legacy rows of every kind under a few sections; entries*)
(* of every kind over one or two vectors.                                  *)
(***************************************************************************)
EXTENDS RepositoryGates

MCLines ==
  {Row("a", "owner-confirmed"), Row("a", "Registered - by X"), Row("b", "withdrawn"),
   Note("consuming-profile"), Gap, Ragged("b")}
Sections ==
  UNION {[1..n -> MCLines] : n \in 0..3}
  \cup {<<Row("a", "owner-confirmed"), parting, lost, Note("consuming-profile")>> :
           parting \in {Gap, Note("discriminating-vector")},
           lost \in {Row("b", "withdrawn"), Ragged("b"), Row("a", "withdrawn")}}
OneRow == <<Row("a", "owner-confirmed")>>

Context(purpose, algorithm, representation) ==
  [purpose |-> purpose, algorithm |-> algorithm, representation |-> representation]
Type(status, rows) == [name |-> "t", status |-> status, rows |-> rows]
Good == Context("id", "a", "raw")
Subsections ==
  {<<>>} \cup {<<Type(status, rows)>> :
     status \in {"owner-confirmed", "withdrawn", "drifted"},
     rows \in {<<>>, <<Good>>, <<Good, Good>>, <<Context(None, "a", "raw")>>,
               <<Context("id", None, None)>>, <<Context("id", "b", "hex")>>,
               <<Good, Context(None, None, "raw")>>}}
  \cup {<<Type("withdrawn", <<Good>>), Type("owner-confirmed", <<Good>>)>>}

Vocabulary == {"owner-confirmed", "withdrawn"}
Text(lines, subsections, vocabulary, legacy) ==
  [lines |-> lines, subsections |-> subsections, vocabulary |-> vocabulary, legacy |-> legacy]
MCPublished == Text(OneRow, <<Type("owner-confirmed", <<Good>>)>>, Vocabulary, {})

MCTexts ==
  {Text(lines, <<Type("owner-confirmed", <<Good>>)>>, Vocabulary, {"a"}) : lines \in Sections}
  \cup {Text(OneRow, subsections, Vocabulary, {}) : subsections \in Subsections}
  \cup {Text(<<Row("a", status)>>, <<>>, vocabulary, legacy) :
          status \in {"owner-confirmed", "Registered - by X"},
          vocabulary \in {{}, Vocabulary, {"withdrawn"}}, legacy \in {None, {}, {"a"}}}

MCRevisions ==
  {MCPublished, Text(OneRow, <<>>, {"withdrawn"}, {}),
   Text(<<Row("a", "drifted")>>, <<>>, {"drifted"}, {"a"})}

-----------------------------------------------------------------------------
Vector == [json |-> "object", contrast |-> "none", carrier |-> "none", diverge |-> "none",
           mapping |-> "none", mustFail |-> FALSE, informative |-> FALSE, digest |-> "holds",
           hasInput |-> TRUE, hasPreImage |-> TRUE, algorithm |-> "none"]
Found == {"none", "holds", "fails"}
MCVectors ==
  {[Vector EXCEPT !.json = "bad"], [Vector EXCEPT !.json = "list"]}
  \cup {[Vector EXCEPT !.contrast = c] : c \in {"holds", "fails"}}
  \cup {[Vector EXCEPT !.carrier = c, !.hasPreImage = FALSE, !.hasInput = i] :
          c \in Found, i \in BOOLEAN}
  \cup {[Vector EXCEPT !.diverge = d, !.mapping = m, !.mustFail = f] :
          d \in Found, m \in Found, f \in BOOLEAN}
  \cup {[Vector EXCEPT !.mustFail = TRUE, !.informative = i, !.digest = d] :
          i \in BOOLEAN, d \in {"holds", "fails"}}
  \cup {[Vector EXCEPT !.algorithm = "jcs", !.hasPreImage = FALSE, !.digest = d] :
          d \in {"holds", "fails"}}
MCVectorSets == {[f \in {1, 2} |-> IF f = 1 THEN v ELSE w] : v, w \in MCVectors}
MCVectorRevisions == {[f \in {1} |-> Vector], [f \in {1} |-> [Vector EXCEPT !.digest = "fails"]]}

DeclaredEntry(rung, dir, external) ==
  [wellFormed |-> TRUE, rung |-> rung, dir |-> dir, external |-> external]
MCEntries ==
  {DeclaredEntry(rung, dir, external) :
     rung \in {"provisional", "owner_authored"}, dir \in {"none", "present", "missing"},
     external \in {"none", "pinned", "branch"}}
  \cup {[DeclaredEntry("provisional", "none", "none") EXCEPT !.wellFormed = FALSE]}
MCEntryLists == {Missing, <<>>} \cup {<<e>> : e \in MCEntries}
  \cup {<<DeclaredEntry("owner_authored", "present", "none"), e>> : e \in MCEntries}
=============================================================================
