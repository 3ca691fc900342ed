---------------------------- MODULE RegistryText ----------------------------
(***************************************************************************)
(* REGISTRY.md as .github/gen_registry.py reads it: the parsers, the       *)
(* validation and the document that is generated.  Pure operators.         *)
(*                                                                         *)
(* A text has the lines below the header of the algorithm table, up to the *)
(* end of its section; the subsections of the artifact types; the rows of  *)
(* the status vocabulary; and the rows said to predate it (None when that  *)
(* paragraph is missing).  A line is a pipe row ("row", or "ragged" when   *)
(* its cells do not match the headers), an annotation ("note", with its    *)
(* key), or any other ("gap").  The document is the one lib/cpb/registry.py*)
(* loads: a body and the hash it claims.                                   *)
(***************************************************************************)
EXTENDS Naturals, FiniteSets, Sequences

CONSTANTS
  Names,      \* algorithm names
  Types,      \* artifact type names
  None        \* an absent value

LegacyStatuses == {"Registered", "Reserved"}
LiveStatuses ==
  {"Registered", "owner-confirmed", "third-party-documented", "standards-referenced"}
Representations == {"bare-hex", "sha256-prefixed", "raw"}

Row(name, status) == [kind |-> "row", name |-> name, status |-> status, key |-> None]
Ragged(name) == [kind |-> "ragged", name |-> name, status |-> None, key |-> None]
Note(key) == [kind |-> "note", name |-> None, status |-> None, key |-> key]
Gap == [kind |-> "gap", name |-> None, status |-> None, key |-> None]
IsPipe(line) == line.kind \in {"row", "ragged"}

ASSUME NamesAssumption == None \notin Names

(* The lines of a section, as many as there are.                           *)
IsSection(lines) ==
  /\ lines \in Seq({lines[i] : i \in DOMAIN lines})
  /\ \A i \in DOMAIN lines : IsPipe(lines[i]) => lines[i].name \in Names

(* _normalize_status: a legacy name at the start of the cell is returned   *)
(* bare; any other status is left as it is.                                *)
NormalizeStatus(cell) ==
  CASE cell = "Registered - by X" -> "Registered"
    [] cell = "reserved (later)" -> "Reserved"
    [] OTHER -> cell

(* _parse_md_table: the pipe lines up to the first other line.             *)
FirstTable(lines) ==
  LET gaps == {i \in DOMAIN lines : ~IsPipe(lines[i])}
  IN  IF gaps = {} THEN lines
      ELSE SubSeq(lines, 1, (CHOOSE i \in gaps : \A j \in gaps : i <= j) - 1)

Repeated(names) == \E i, j \in DOMAIN names : i < j /\ names[i] = names[j]
NamesIn(rows) == [i \in DOMAIN rows |-> rows[i].name]

(* The exception that ends _parse_algorithm_registry or the artifact type  *)
(* parser, or "none".                                                      *)
AlgorithmError(lines) ==
  LET table == FirstTable(lines) IN
  CASE \E i \in DOMAIN table : table[i].kind = "ragged" -> "malformed row"
    [] (\A i \in DOMAIN table : table[i].kind # "ragged") /\ Repeated(NamesIn(table)) ->
         "duplicate token"
    [] OTHER -> "none"
TypeError(subsections) ==
  IF Repeated(NamesIn(subsections)) THEN "duplicate token" ELSE "none"

RegisteredNames(lines) == {FirstTable(lines)[i].name : i \in DOMAIN FirstTable(lines)}

(* Mutated form: a row that is no entry leaves the name before it standing.*)
NameLeftStanding(known, current, line) == IF line.name \in known THEN line.name ELSE current

(* The row an annotation is attributed to, after a pipe line.              *)
NextName(known, current, line) == IF line.name \in known THEN line.name ELSE None

(* What a line adds: a row the name later annotations go to, an annotation *)
(* that name with its key.                                                 *)
AfterLine(known, pass, line) ==
  CASE IsPipe(line) -> [current |-> NextName(known, pass.current, line), found |-> pass.found]
    [] line.kind = "note" /\ pass.current # None ->
         [current |-> pass.current, found |-> pass.found \cup {<<pass.current, line.key>>}]
    [] OTHER -> pass

(* The second pass of _parse_algorithm_registry, over the whole section:   *)
(* the annotations with the name each is attributed to.                    *)
Annotations(lines) ==
  LET pass[i \in 0..Len(lines)] ==
        IF i = 0 THEN [current |-> None, found |-> {}]
        ELSE AfterLine(RegisteredNames(lines), pass[i - 1], lines[i])
  IN pass[Len(lines)].found

StatusOf(lines, name) ==
  LET table == FirstTable(lines)
  IN  NormalizeStatus(table[CHOOSE i \in DOMAIN table : table[i].name = name].status)

AlgorithmEntry(lines, name) ==
  IF name \notin RegisteredNames(lines) THEN None
  ELSE [status |-> StatusOf(lines, name),
        notes |-> {a[2] : a \in {b \in Annotations(lines) : b[1] = name}}]

(* Rows that name neither a purpose nor an algorithm are left out.         *)
TypeEntry(subsections, name) ==
  IF \A i \in DOMAIN subsections : subsections[i].name # name THEN None
  ELSE LET sub == subsections[CHOOSE i \in DOMAIN subsections : subsections[i].name = name]
       IN  [status |-> NormalizeStatus(sub.status),
            contexts |-> SelectSeq(sub.rows, LAMBDA row : row.purpose # None \/ row.algorithm # None)]

(* generate                                                                *)
ParseError(text) ==
  IF AlgorithmError(text.lines) # "none" THEN AlgorithmError(text.lines)
  ELSE TypeError(text.subsections)
Body(text) ==
  [schema |-> "1",
   algorithms |-> [n \in Names |-> AlgorithmEntry(text.lines, n)],
   types |-> [t \in Types |-> TypeEntry(text.subsections, t)]]
Document(text) == [body |-> Body(text), sha |-> Body(text), repeats |-> FALSE]

(* _parse_status_vocabulary and _parse_legacy_rows refuse to guess.        *)
VocabularyMissing(text) == text.vocabulary = {} \/ text.legacy = None

(* _validate_structure: a status is one of the vocabulary verbatim, or a   *)
(* legacy spelling on a row that predates it.                              *)
StatusIsLegal(name, status, text) ==
  \/ status \in text.vocabulary \ LegacyStatuses
  \/ status \in LegacyStatuses /\ name \in text.legacy

ContextsAreValid(entry, known) ==
  /\ entry.contexts # <<>>
  /\ \A i \in DOMAIN entry.contexts :
       /\ entry.contexts[i].algorithm \in known \cup {None}
       /\ entry.contexts[i].representation \in Representations \cup {None}
  /\ entry.status \in LiveStatuses =>
       \A i, j \in DOMAIN entry.contexts :
         i # j => entry.contexts[i].purpose # entry.contexts[j].purpose

IsValid(body, text) ==
  LET known == {n \in Names : body.algorithms[n] # None} IN
  /\ \A n \in known : StatusIsLegal(n, body.algorithms[n].status, text)
  /\ \A t \in Types : body.types[t] # None =>
       /\ StatusIsLegal(t, body.types[t].status, text)
       /\ ContextsAreValid(body.types[t], known)

(* .github/test_gen_registry.py, which the workflow runs on REGISTRY.md: it *)
(* stops reading a table where the generator does, and wants a cell of each *)
(* registry and a body that is valid.                                      *)
CellsRoundTrip(text) ==
  /\ ParseError(text) = "none"
  /\ ~VocabularyMissing(text)
  /\ IsValid(Body(text), text)
  /\ \E n \in Names : Body(text).algorithms[n] # None
  /\ \E t \in Types : Body(text).types[t] # None /\ Body(text).types[t].contexts # <<>>

(* Mutated form: a context need not name its purpose.                      *)
SchemaWithoutPurpose(body) ==
  \A t \in Types : body.types[t] # None => body.types[t].contexts # <<>>

(* registry_schema.json, which the workflow applies to the committed       *)
(* document: every context names a purpose and an algorithm.               *)
SchemaAccepts(body) ==
  \A t \in Types : body.types[t] # None =>
    /\ body.types[t].contexts # <<>>
    /\ \A i \in DOMAIN body.types[t].contexts :
         /\ body.types[t].contexts[i].purpose # None
         /\ body.types[t].contexts[i].algorithm # None
         /\ body.types[t].contexts[i].representation \in Representations \cup {None}
=============================================================================
