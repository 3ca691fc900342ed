--------------------------- MODULE RegistryBuild ---------------------------
(***************************************************************************)
(* A run of .github/gen_registry.py (main), and the registry workflow that *)
(* runs it with --check and then applies the schema to the committed file. *)
(* REGISTRY.md is read twice, registry.json is written in place; authors   *)
(* edit either file at any time, and a run may be killed at any step.      *)
(***************************************************************************)
EXTENDS Integers, RegistryText

CONSTANTS
  Drafts,         \* what REGISTRY.md may hold at first
  Revisions,     \* what an author may replace it with
  Purposes,      \* purposes of digest contexts
  MaxEdits,      \* bound: edits of the two files
  MaxJobs        \* bound: runs

ASSUME TextsAssumption == \A text \in Drafts \cup Revisions : IsSection(text.lines)

VARIABLES
  md,        \* REGISTRY.md: a text, or None when there is no such file
  file,      \* registry.json
  job,       \* the run under way, or the last one
  basis,     \* history: when a run wrote the file, the texts it was generated
             \* from and validated under
  jobs,      \* history: runs started
  edits      \* history: edits made

buildVars == <<md, file, job, basis, jobs, edits>>

Modes == {"write", "print", "check", "workflow"}

(* registry.json: complete, cut off by a killed write, or complete but for *)
(* the line feed _render ends with.                                        *)
Saved(state, doc) == [state |-> state, doc |-> doc]
Whole(doc) == Saved("whole", doc)
Absent == Saved("absent", None)
Readable == file.state \in {"whole", "unterminated"}

(* exit = 3 stands for a run that was killed, -1 for one under way.        *)
Job(phase, mode, from, under, quiet, exit) ==
  [phase |-> phase, mode |-> mode, from |-> from, under |-> under,
   quiet |-> quiet, exit |-> exit]
NoJob == Job("ended", "print", None, None, TRUE, 3)
Ends(exit) == job' = [job EXCEPT !.phase = "ended", !.exit = exit]
IsRunning == job.phase # "ended"

Start(mode) ==
  /\ ~IsRunning /\ jobs < MaxJobs
  /\ jobs' = jobs + 1
  /\ job' = IF md = None THEN Job("ended", mode, None, None, TRUE, 2)
            ELSE Job("started", mode, None, None, TRUE, -1)
  /\ UNCHANGED <<md, file, basis, edits>>

(* The first read.                                                         *)
Generate ==
  /\ job.phase = "started"
  /\ IF md = None \/ ParseError(md) # "none" THEN Ends(1)
     ELSE job' = [job EXCEPT !.phase = "generated", !.from = md]
  /\ UNCHANGED <<md, file, basis, jobs, edits>>

(* The second read: what was generated from the first is held against the  *)
(* vocabulary and the legacy rows of this one.                             *)
Validate ==
  /\ job.phase = "generated"
  /\ IF md = None \/ VocabularyMissing(md) \/ ~IsValid(Body(job.from), md) THEN Ends(1)
     ELSE job' = [job EXCEPT !.phase = "valid", !.under = md]
  /\ UNCHANGED <<md, file, basis, jobs, edits>>

PrintOut ==
  /\ job.phase = "valid" /\ job.mode = "print"
  /\ Ends(0)
  /\ UNCHANGED <<md, file, basis, jobs, edits>>

(* --check: the committed text is the rendered one.                        *)
Compare ==
  /\ job.phase = "valid" /\ job.mode \in {"check", "workflow"}
  /\ IF file # Whole(Document(job.from)) THEN Ends(1)
     ELSE IF job.mode = "check" THEN Ends(0)
     ELSE job' = [job EXCEPT !.phase = "current"]
  /\ UNCHANGED <<md, file, basis, jobs, edits>>

(* The next steps of the workflow: the tests on REGISTRY.md, the schema and *)
(* the hash on the committed file.                                         *)
CheckCommitted ==
  /\ job.phase = "current"
  /\ Ends(IF /\ md # None /\ CellsRoundTrip(md)
             /\ Readable
             /\ SchemaAccepts(file.doc.body)
             /\ file.doc.sha = file.doc.body THEN 0 ELSE 1)
  /\ UNCHANGED <<md, file, basis, jobs, edits>>

(* Mutated form: what was generated is written before it is validated.     *)
HasGenerated == job.phase \in {"generated", "valid"}

MayWrite == job.phase = "valid"

(* write_text truncates the file, then fills it.                           *)
Truncate ==
  /\ MayWrite /\ job.mode = "write"
  /\ file' = Saved("partial", None)
  /\ basis' = [from |-> job.from, under |-> job.under]
  /\ job' = [job EXCEPT !.phase = "writing"]
  /\ UNCHANGED <<md, jobs, edits>>

Fill ==
  /\ job.phase = "writing"
  /\ file' = Whole(Document(job.from))
  /\ basis' = [from |-> job.from, under |-> job.under]
  /\ Ends(0)
  /\ UNCHANGED <<md, jobs, edits>>

Killed ==
  /\ IsRunning
  /\ Ends(3)
  /\ IF job.phase = "writing"
     THEN file' \in {file, Saved("unterminated", Document(job.from))}
     ELSE UNCHANGED file
  /\ UNCHANGED <<md, basis, jobs, edits>>

(* An author saves REGISTRY.md, or checks out another registry.json.       *)
EditText ==
  /\ edits < MaxEdits
  /\ edits' = edits + 1
  /\ md' \in Revisions \cup {None}
  /\ job' = [job EXCEPT !.quiet = FALSE]
  /\ UNCHANGED <<file, basis, jobs>>

CheckOutFile ==
  /\ edits < MaxEdits
  /\ edits' = edits + 1
  /\ \E t \in Revisions : file' \in {Whole(Document(t)), Absent}
  /\ basis' = None
  /\ job' = [job EXCEPT !.quiet = FALSE]
  /\ UNCHANGED <<md, jobs>>

BuildInit ==
  /\ md \in Drafts
  /\ file = Absent \/ (ParseError(md) = "none" /\ file = Whole(Document(md)))
  /\ job = NoJob
  /\ basis = None
  /\ jobs = 0
  /\ edits = 0

BuildNext ==
  \/ \E mode \in Modes : Start(mode)
  \/ Generate \/ Validate \/ PrintOut \/ Compare \/ CheckCommitted
  \/ Truncate \/ Fill \/ Killed
  \/ EditText \/ CheckOutFile

BuildSpec == BuildInit /\ [][BuildNext]_buildVars

-----------------------------------------------------------------------------
Loader == INSTANCE RegistrySnapshot WITH
  TypeNames <- Types, PurposeNames <- Purposes, AlgorithmTokens <- Names,
  MemberNames <- {}, Contents <- {},
  AlgorithmIds <- Names, Handles <- {}, Bodies <- {}, Documents <- {}, Pins <- {},
  ImplementationChoices <- {}, ContextSetChoices <- {}, PublishedSets <- {},
  source <- None, snap <- None, held <- None

IsGreen == job.phase = "ended" /\ job.exit = 0 /\ job.quiet

(* A run that ends green, and that nobody edited under, leaves a tree in   *)
(* order: what the workflow passed, or a write left behind, is the document*)
(* of the text beside it, legal under that text's own vocabulary; and what *)
(* the workflow passed, the library loads.  Generator, schema and loader   *)
(* are separate code.                                                      *)
GreenTreeIsSound ==
  IsGreen /\ job.mode # "print" =>
    /\ file = Whole(Document(md))
    /\ IsValid(file.doc.body, md)
    /\ job.mode = "workflow" => Loader!PassesIntegrity(file.doc, None)

(* Whatever was edited or killed when, a registry.json that a run wrote    *)
(* and that parses is the whole document of one text, valid under a text   *)
(* read after it.                                                          *)
WrittenWasValidated ==
  Readable /\ basis # None =>
    /\ file.doc = Document(basis.from)
    /\ basis.under # None /\ IsValid(file.doc.body, basis.under)

(* Reference: the annotations below line i that are above the next row.    *)
FollowedBy(lines, i) ==
  {lines[j].key : j \in {k \in DOMAIN lines :
     k > i /\ lines[k].kind = "note" /\ \A h \in (i + 1)..k : ~IsPipe(lines[h])}}

(* Reference: a row below the table, which is no entry, has the name.      *)
IsLost(lines, name) ==
  \E k \in DOMAIN lines :
    k > Len(FirstTable(lines)) /\ IsPipe(lines[k]) /\ lines[k].name = name

(* The annotations of an entry are those that follow its row, up to the    *)
(* next row and across other lines, and none that follows another row of   *)
(* the table or a row that was lost below it; only a lost row that repeats *)
(* the entry's name, which the duplicate check does not see, adds its own. *)
NotesStayWithTheirRow ==
  md # None /\ ParseError(md) = "none" =>
    \A i \in DOMAIN FirstTable(md.lines) :
      LET name == md.lines[i].name
          notes == AlgorithmEntry(md.lines, name).notes
      IN /\ FollowedBy(md.lines, i) \subseteq notes
         /\ ~IsLost(md.lines, name) => notes = FollowedBy(md.lines, i)

(* "For every non-empty cell in REGISTRY.md's tables, assert the value     *)
(* actually present in the generated registry.json"                        *)
(* (.github/test_gen_registry.py:5): a row that stands below an annotation *)
(* which immediately follows another row is in the document a green run    *)
(* certifies.                                                              *)
EveryRowIsAnEntry ==
  IsGreen /\ job.mode = "workflow" =>
    \A i \in DOMAIN md.lines :
      /\ md.lines[1].kind = "row" /\ md.lines[i].kind = "row"
      /\ \A h \in 1..i : md.lines[h].kind \in {"row", "note"}
      => file.doc.body.algorithms[md.lines[i].name] # None
=============================================================================
