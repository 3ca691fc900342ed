# Canonical Payload Binding: a TLA+ verification

This directory models the Python reference library of Canonical Payload Binding
(`src/lib/cpb`), the content-addressing layer under SCITT signed statements, and
the tools around it. It contains TLA+ modules, TLC configurations that check
them on small instances, and TLAPS proofs that hold for every value of the
constants. `PROJECT.json` says which lines each definition stands for, which
mutation of the code each property detects, and which hazards are covered.

The library is synchronous and keeps little state of its own. What is hard about
it is not a thread schedule: it is that *other people* hold the documents, the
records, the headers and the definitions between its calls, and that a call is a
long chain of checks in which the order and the early returns decide the verdict.

## The system

| Part | Code | State | Operations |
|---|---|---|---|
| Registry snapshots | `registry.py` | per object: its copy of the document, a verified flag, the trusted pin | `load`, `from_dict`, `lookup_algorithm`, `lookup_artifact_type`, `artifact_type_definition` |
| Artifact types | `typed_ref.py` 202-450, 656-745 | immutable definitions: contexts, their address, an anchor | `for_construction`, `from_contexts`, `_from_trusted_snapshot`, `_require_integrity`, `_select_context` |
| Typed references | `typed_ref.py` 454-937 | a call in progress | `make_typed_ref_json`, `verify_typed_ref_json`, `verify_cbor_typed_ref`, `verify_typed_ref` |
| Vintage gate | `vintage.py` | none; calls an external callback | `require_pre_cutoff_jcs_n_vintage` |
| Derived identifiers | `derive_id.py` | none; the record is the caller's | `derive_id`, `verify_carried_id`, diagnostics |
| Canonicalization | `canonicalize.py` | none | raw gate, `normalize`, `jcs`, `jcs_n`, digests |
| Signed Statements | `cose_refs.py` 418-1145 | none; the statement travels | header, `crit`, baseline, mode and `cpb-refs` validation, extraction, `Sig_structure` |
| CBOR codec | `cose_refs.py` 144-415 | position, depth, item budget | decode, encode |
| JSON scanner | `_lex.py` | position, depth, violations | `lex` |
| Checker and CLI | `check.py`, `_cli.py` | verdict counters | `check`, self-test |
| Harness | `vectors/harness.py` | counters; runs external commands with a time limit | `verify-impl`, `reference-impl` |
| Vector checker | `.github/check_vectors.py` | counters, coverage | one pass over a vector tree |
| Registry tools | `.github/gen_registry.py`, `.github/validate_registry_entries.py` | files | generate, `--check`, validate entries |
| Lints, site, drafts | `.github/*lint*.py`, `site/`, `spec/` | none | text processing |

How they meet: typed references and derived identifiers both go through the raw
gate of the canonicalizer (which runs the scanner) and, for the withdrawn
algorithm `jcs-n`, through the vintage gate, which calls back into a consuming
profile's code. Definitions come from a profile's published pin or from a
registry snapshot built of the `registry.json` that the registry generator
writes. Signed Statements carry typed references in the protected `cpb-refs`
header. The harness, the self-test and the vector checker judge implementations
of the same algorithms by their exit status.

What is hard, and so what the properties are about:

* state handed over and changed later: the parsed document, a returned entry, a
  definition that outlives the snapshot object it came from, evidence made for
  another record;
* order of checks: raw gate, context selection, representation, digest
  comparison, vintage, withdrawal;
* boundaries: UTC offsets around the cutoff, null against absent, equal purposes;
* transport: unprotected headers and payloads that anyone may change;
* two readers of one text: the scanner beside `json.loads`, the checker beside the
  canonicalizer, the decoder beside the encoder, the generator beside the schema
  and the loader;
* in the tools: time limits, files that are read twice or written in place while
  somebody edits them, runs that are killed, and counters that vouch for what was
  never exercised.

## Modules

| Module | Models | Notes |
|---|---|---|
| `JsonGate` | `canonicalize.py` at the grain the callers see | texts are members with a kind (plain, empty, float, unsafe), repeated names and a form; the digest of an object is what remains of it |
| `ArtifactTypes` | definitions, integrity, context selection | operators only |
| `RegistrySnapshot` | `registry.py` and the caller around it | `source` is the caller's document, `snap` the snapshot objects, `held` what the library last handed out |
| `Vintage` | `vintage.py` | time is hours of UTC; a reply is an exception, no datetime, or a wall clock with an offset |
| `CitedArtifact` | what a typed reference promises | the abstract specification: which requests are justified, not how that is found out |
| `TypedRefVerification` | the calls of `typed_ref.py`, over `RegistrySnapshot` | `job` is the call in progress, one action per function it runs through; `emitted` the last constructed reference |
| `DerivedId` | `derive_id.py` and the record's way | `record`, `issued` ids with what they were derived from, `checked` the last verdict |
| `CoseStatement` | `cose_refs.py` from the decoded statement on | `statement` in transit, `result` of the last call, `accepted` all acceptances |
| `CountedRun` | what the harness promises | the abstract specification: a run that counts its cases and ends with an exit status that follows from the counts |
| `VectorHarness` | `vectors/harness.py`, `verify_impl` and the commands it runs | `files` are on disk and may be rewritten, `stage` and `index` say where the run is, the command is a process of its own |
| `JsonScanner` | `_lex.py` | a pushdown machine that draws the text token by token; `stack` holds the open containers, `violations` what was reported |
| `JsonConformance` | the P rule of `check.py`, `normalize` and what the serializer refuses | what the library decides of the value that the scanner returned: the values at each depth and recursive functions on them |
| `CpbCheck` | `_cli.py` over the scanner | one call of `cpb-check` on a text, or of its self-test on packaged vectors; holds the checker against the canonicalizer |
| `JsonGrammar` | the grammar of JSON and names equal after NFC, beside `CpbCheck` | reference definitions, the grammar as RECURSIVE operators; model-checked only |
| `CborDecoder` | `cose_refs.py` 144-415 | one item head at a time, with a stack, the depth, the item budget and the strictness of the call; what it promises of keys and levels |
| `CborGrammar` | the encoder, the vector checker's own decoder of fixtures (`check_vectors.py` 557-670), and a reference definition of an item | recursive operators; model-checked only |
| `RegistryText` | the two parsers of `gen_registry.py`, its validation, its test of the cells and the schema | `REGISTRY.md` is a sequence of lines of few kinds; operators only |
| `RegistryBuild` | the modes of `gen_registry.py` and the registry workflow | `md` and `file` are the two files, `job` the run; authors edit, and a run may be killed |
| `EntryGate` | `validate_registry_entries.py` with `check_vectors.py` as its subprocess | `grading` is the run, `vectors` the directory that may change under it |
| `RepositoryGates` | the two workflows side by side | composes the two modules above; path filters keep them apart |
| `RegistryProofs`, `CallProofs`, `CoseProofs`, `HarnessProofs`, `IdProofs`, `CheckProofs`, `CborProofs`, `GateProofs` | | the theorems |
| `MCLibrary` | | the instances of `RegistrySnapshot` and `TypedRefVerification`: one run of three scenarios |
| `MCDerivedId`, `MCCoseStatement`, `MCVectorHarness`, `MCCpbCheck`, `MCCborDecoder`, `MCRepositoryGates` | | the instances of the other modules |

`TypedRefVerification` extends `RegistrySnapshot` and `Vintage`, so the registry and
the calls share one state; `CitedArtifact` is instantiated in it with a refinement
mapping (`pending` is the request of `job` while it is not decided, and the verdict
is read off the outcome of a finished call). `VectorHarness` implements `CountedRun`
in the same way. `RegistryBuild` instantiates `RegistrySnapshot` to ask whether the
library would load what the workflow passed.

The scanner and the decoder read their input as they go: the next token or head is
chosen when the code asks for it, and the input so far is part of the state. So a
run explores every input up to its bound, and the checks on a finished input
compare what the machine did with a definition of the whole input.

Correspondence with the code:

* A library call that raises changes nothing the model keeps, so in
  `RegistrySnapshot`, `DerivedId` (derivation) and `CoseStatement` a call is a
  guard and an effect; where the *verdict* matters (`Verify`, `Validate`,
  `ExtractRefs`, the stages of a typed-reference call) the exception is part of
  the state.
* `load` and `from_dict` copy the tree (`deepcopy`), so `snap` holds values and
  `source` may change freely. The mutant `SharedTree` is the version without the
  copy.
* A typed-reference call is one action per function it runs through, and the
  actions of the registry and its caller may come between them: another thread,
  or the evidence callback, which is foreign code, may do all of this while the
  call runs.
* Error names are the code's exception classes. The order of the checks of
  `cose_refs.py` is the order in the lists given to `FirstError`; checks next to
  each other that raise the same class are one conjunction.
* In `CoseStatement` a bucket is a sequence of pairs, as in `CborMap`, with
  repeated labels possible and `Get` taking the first. A header value is "good"
  or not as far as the code tells; references, critical labels, hash algorithms
  and payload sizes are kept.

* `verify_impl` reads a vector file three times (parsed, as text, as bytes). Each
  read is a step, and a file may be rewritten between two of them. The command is
  started in one step and answers, or is cut off by the time limit, in another.
* In `CpbCheck` the scanner and `json.loads` read one text; the scanner's actions
  are those of `_lex.py` and a text ends when its value is complete, when it is
  cut off, or at the first thing that is no JSON.
* `gen_registry.py` reads `REGISTRY.md` once to generate and once to validate, and
  writes `registry.json` by truncating and filling it. These are steps of their
  own, and between them an author may save either file or the run may be killed.
  A killed write leaves an empty or partial file, or one that lacks only the final
  line feed.
* `validate_registry_entries.py` runs the checker and then counts the two sides of
  the same directory itself: two steps, with an edit possible between them.

## Abstractions

* SHA-256 is injective: the hash of a body is the body, the digest of an object
  is what is hashed. Nothing here says anything about collisions.
* Nobody writes down an id before it was derived (`HashAssumption` in `DerivedId`):
  what is typed into a record is an opaque content, and an id comes into a record
  only where the issuer or a copier puts one that was derived.
* rfc8785, SHA-256, the evidence callback, and what happens to a record, a
  document or a statement between calls are outside the library; definitions
  that stand for them are marked external.
* A JSON value has a kind and a content. Values nested in a member are not
  modelled: a member that normalizes away is of kind "empty" whatever depth that
  comes from. A float is a number token with a fraction; a malformed text has no
  members.
* Arguments of the wrong Python type raise `TypeError` before anything happens
  and are not modelled; neither are messages.
* Within the scanner a token is a punctuation mark, a literal, a string of one of
  four spellings (one plain, one the same name written with an escape, which the
  scanner decodes although JSON does not have it, one that differs in its
  normalization form only, one with an unpaired surrogate) or a number of one of the
  classes that the checks tell apart, numbers in digits that are not ASCII among them.
  An integer token of more digits than Python converts raises `ValueError`. White space,
  positions and paths are left out.
* A CBOR head has a kind, a length or content, and a form (shortest, longer than
  needed, indefinite). Arguments above one byte, UTF-8 validity and the values of
  floats other than NaN are abstracted: a head the code refuses whatever follows is
  "broken". Two-byte simple values below 32 are accepted outside strict mode, and
  NaN keys may repeat: the decoder's model does as the code does, the reference
  definition of an item does as RFC 8949 says. Keys that Python would hold equal
  across types (an integer and a float) are not told apart from others.
* A line of `REGISTRY.md` is a row, a row with missing cells, an annotation or
  something else; of a row the name and status, of a context the purpose, algorithm
  and representation are kept.
* What one check of `check_vectors.py` finds in a vector is part of the vector. How
  a vector is counted, and what the counts decide, is modelled.
* A carried digest that is spelled wrongly has the form "not-a-digest".
* Exceptions that no property tells apart are one: the class that `_validate_label_map`
  raises for the claims (`cose_refs.py` 799), an unknown mode or an option of the wrong
  type (900-904), a `crit` value that is no array, and a wrong chunk in an indefinite
  string, which the code refuses before depth and budget (257-260) and the model after.
* Refusals at the edge of other libraries are left out: `astimezone` at the first and
  last year (`vintage.py` 68), floats which the serializer refuses under `jcs`, output
  of a harness command that is no UTF-8, and text after the end of a vector file's
  object, which the reader of a member span would not notice.
* In the tables of `REGISTRY.md` beside that of the algorithms, rows with missing
  cells or an empty name are left out: they end the generator or are skipped. The
  schema, the tests and the hash comparison read the finished `registry.json` in one
  step, and the entry validator its entry file in one (the code reads both more
  than once). A run that is killed after its write keeps no record of what it read.

## Runs

| Run | Instance | Question |
|---|---|---|
| `library` | one handle and one caller, in three scenarios (below) | do answers and definitions follow the pinned body, and does the staged code give exactly the promised verdict? |
| `derived_id` | two members, two contents, two exclusion sets, one id | does an id verify exactly while what it covers is unchanged? |
| `statement` | nineteen protected headers (both modes, both at once, neither, and each flaw), nine pairs a relay may add, at most two of them, three payload sizes, seven ways to call | do all relying parties agree, whatever happens to the unsigned parts? |
| `harness` | directories of up to two files out of eight, three commands, one edit | does exit status 0 mean that every vector was satisfied, and does the run end? |
| `cpb_check` | every text of up to ten tokens and two levels; suites of up to three vectors out of eight | is what is called conforming a JSON object in normal form that the library digests, and is status 0 earned? |
| `decoder` | every input of up to six heads, seven in a protected header (drawn from thirteen for items, six for statements, six for protected headers), three levels, six items | does the decoder accept the items, up to one spelling of simple values, within exactly its limits, and what the fixture decoder accepts? |
| `gates` | about 300 registry texts, seven revisions of the two files, two runs, one edit, kills; 900 vector directories, entry lists of up to two | is a tree that the workflows pass sound? |
| `duplicate_names` | `cpb_check` with a decomposed name | (finding) |
| `loose_escapes` | `cpb_check`, texts of up to five tokens | (finding) |
| `short_simples` | `decoder` with the heads of the protected headers | (finding) |
| `registry_rows`, `entries_exercised` | `gates` | (findings) |

The scenarios of `library` are fixed in the initial state, and each has documents,
pins, context sets, texts, references and evidence of its own:

* *registry*: no calls. Seven bodies (three of them trusted pins, three that no
  check accepts, one forged), ten documents, among them one with a false hash, one
  without and one with a repeated member, seven sequences of implementations, seven
  context sets. The lookups are in this scenario only.
* *calls*: profile definitions only, and no snapshot. Four context sets, one of which
  repeats a purpose; six references and the constructed one; five texts, one of them
  malformed; six kinds of evidence on both sides of the cutoff. The caller holds on
  to its definition while a call runs.
* *system*: few calls, with two bodies, live and withdrawn, a snapshot that is
  reloaded, a document that is edited and definitions that are resolved while a
  call runs.

`MCNext` leaves out the steps that lead out of the scenario. They are restrictions
of this run only: the theorems about these modules are about `Spec` and `SystemSpec`,
where everything may come together. All other runs check the specification of their
module as it is, and every run explores its instance completely. The bounds that
appear in guards are

* `MaxIssues` (ids derived in one behaviour of `DerivedId`) and `MaxUnprotected`
  (pairs a relay has added);
* `Cases` (vector files) and `MaxEdits` in the harness;
* `MaxTokens`, `MaxDepth` (300 in the code), `MaxWrong` (a text that goes
  wrong does so within so many tokens) and `Suite` (packaged vectors) in `CpbCheck`;
* `MaxHeads`, `MaxDepth` (16) and `MaxItems` (4096) in the decoder;
* `MaxEdits`, `MaxJobs` and `MaxVectorEdits` in the two workflows.

Everything else is finite because the sets of documents, texts and options are. Why
they suffice: each property of the registry speaks of one object and one value
handed out, and an object keeps nothing of its predecessors, so a second handle only
adds products of the same states (the proofs cover any number); a rule of context
selection needs at most two contexts of one purpose and one of another; a header
rule speaks of at most two labels, and a relay can strip and add again; an id
relates one record to one other. A count that vouches for what was not exercised
needs one vector that was and one that was not. Ten tokens hold an object with two
members, also when one of them is an empty container, objects of one member within
each other, or three levels, one above the limit. An object of two members takes
more when it lies in another container or holds a member of a member; that names are
counted per object at any nesting is what the proof of `RepeatedMembersAreReported`
adds. Six heads use up the item budget and nest one level too many, and a protected
header of seven would overrun it. The depth and budget limits are constants of the
modules, so that small values stand for the large ones of the code: what the code
does at the limit depends only on the comparison. One edit lies between any two
reads, a second would only hide it; the second run sees what the first one left
behind. The refused cases are in the instances too: each property has a mutation of
the code, listed in `PROJECT.json`, under which TLC finds it violated in the same
instance.

What the runs show. `library`: a verified object answers from a body that hashes
to its address and its pin; lookups report "verified" exactly for live ids;
anchored definitions list the registered contexts with nothing left out; the
code's chain of early returns implements `CitedArtifact`, both ways: nothing
unjustified is verified, and nothing justified is refused; what was constructed
verifies; the gate comes before the withdrawal; a verdict through a snapshot rests
on a pinned live registration although the handle has been reloaded since.
`derived_id`: ids bind and keep their record, never cover
themselves, and withdrawn ones rest on evidence for that very content.
`statement`: all acceptances of one statement agree, the unprotected header never
helps, and the payload that was checked is the one that is signed.

`harness`: whatever is rewritten under it, a green run satisfied every vector by
what was parsed of it (a pinned pair was answered or nothing was, a rejection was a
refusal or the time limit); a command that only looks at the must-fail flag is
caught unless it is cut off, the reference never blamed for a truthful vector; the
run is a `CountedRun` and ends. `cpb_check`: every repeated member name is reported,
on every path; but for what single tokens look like, and for integers too long to
convert, the scanner accepts exactly the texts of the JSON grammar, and a text that
is no JSON for one of its numbers is reported (one that is no JSON for an escape is
not, see Findings); its depth is the number of open brackets, on error paths too;
what is conforming is in normal form and, for an object without lone surrogates, has
a digest; status 0 is earned. `decoder`: accepted input is one item, well-formed
when each simple value below 32 in two bytes is put into one (see Findings), in
strict mode its one deterministic encoding, and refused at exactly the limits; map
keys are distinct; the second decoder, by which the vector checker grades carrier
fixtures, reads the same values and refuses the same inputs, but for simple values.
`gates`: a tree that a run passed and nobody edited meanwhile is the document of its
text, valid under its own vocabulary, and loadable; a document that a run wrote was
valid under a text read after it, whatever was edited or killed; an entry's
annotations are those that follow the row it comes from, up to the next row (other
lines may stand between), and no others unless they follow a row of the same name
which is in no document; failures are counted although one vector may be counted
twice; green entries are backed.

What they show besides: a command that hangs on a must-fail vector passes it,
because a timeout has the status of a refusal (so `GreenMeansSatisfied` asks for a
refusal or a timeout); "conforming" does not mean "digestible" for a top level that
is no object, or a text with an unpaired surrogate (`ConformingIsDigestible` is
stated for the others). Some hazards of the list have no property, because what the
code does about them is what it says it does: that timeout, a run in which every
vector was skipped and which ends with status 0 like one that passed, an edit of
`REGISTRY.md` between its two reads, which validates another text than the one that
is written, and the vector checker, which the entry validator runs without a time
limit.

Fairness. Library calls are terminating, synchronous functions and nothing obliges
a caller to make a next call, so those modules state no liveness. The harness does
promise something: `RunEnds`, that the process exits whatever its commands do. It
assumes weak fairness of `HarnessStep`, because the harness is one sequential
process that is always able to take its next step, and of `CommandTimesOut`,
because `subprocess.run(timeout=30)` kills the command; the command itself is
assumed nothing, it may hang on every vector. The generator and the entry
validator run without any time limit, so no such property holds of them.

## Findings

Five runs check what a document or a comment says and find the code does
otherwise; each is quoted in `PROJECT.json` with its lines.

* `duplicate_names`: the vectors' declaration says duplicate keys are detected
  after NFC normalization, and `harness.py` does so. The scanner compares decoded
  names as they are, and says so; a record with two such members is conforming.
* `loose_escapes`: the scanner converts the four characters after `\u` with
  `int(hex4, 16)`, which takes `0x41`, `1_23`, `+123` or a leading blank as well. Such
  a text is no JSON and `json.loads` refuses it, but the scanner reports nothing and
  `cpb-check` calls it conforming. The digits of a number may be other than ASCII in
  the same way, since the pattern says `\d`; such a number is reported.
* `short_simples`: a simple value below 32 in two bytes is decoded unless the caller
  asks for deterministic encoding. RFC 8949 says that it is not well-formed in any
  case, and the decoder says that what it takes is well-formed.
* `registry_rows`: a row of the algorithms table that stands below an annotated row
  is left out of `registry.json`, silently: the table parser ends at the first
  line that is no pipe row, while its caller describes annotations as lines that
  immediately follow a row. The test that holds every cell of the tables against
  the document ends its tables at the same line.
* `entries_exercised`: a vector with only an input or only a pre-image counts as
  one side of a two-sided set, and the vector checker skips it. An entry is
  admitted as vector-backed with a side that was never exercised.

## Proofs

`RegistryProofs` proves the five properties of `RegistrySnapshot` for any sets of
handles, bodies, documents, pins, implementations and context sets. The
invariant `RegistryInv` is the conjunction of the type invariant and the four
properties: authenticity of the trees (`VerifiedTreesStayAuthentic`) is what makes
a later answer or definition right, so they are inductive only together. It is
split into what it says of snapshot objects (`SnapshotsOK`) and of the value
handed out (`HandedOK`), because each step disturbs only one of the two.
Completeness of definitions rests on lemmas about the operators: what `_build`
returns passes its own check (`BuiltIsBound`), a row contributes a context with its
own metadata (`RowContexts`), and a whole entry becomes a definition that lists it
in order (`SnapshotDefinition`).

`CoseProofs` proves the three properties of `CoseStatement` for any headers,
labels' values, payloads, options and limits, and any number of added pairs. A
list of checks passes when each check does (`FirstErrorIsNone`, from the
well-foundedness of the naturals). Each validation is then shown to pass without
the unprotected header if it passes with it (`BareHeaders`, `BareBaseline`,
`BareMode`, `BareRefs`). `UnprotectedNeverHelps` is not inductive by itself: the
invariant `CoseInv` adds that the last answer is the one the statement as it now
is gets, and that each acceptance so far fits the protected header, which no
relay can change.

`HarnessProofs` proves the safety properties of the harness and its refinement of
`CountedRun`, for any set of files and commands, any number of cases and of edits.
The type invariant says of each stage what has been read and answered.
`GreenMeansSatisfied` speaks of the finished run, so its invariant says that while
no failure is counted every case that is behind the run was satisfied by what was
read of it, and what has been read of the present one fits the stage. The flag
reader is caught by a second invariant of the same shape: the text that the
command is given never holds the flag (`StrippedOfTheFlag`). A step of the detailed
specification is a step of `CountedRun` or changes none of its variables
(`NextRefines`).

`IdProofs` proves the four properties of `DerivedId`, for any records,
edits and evidence and any number of ids. Two pre-images are equal exactly when the
same members are visible (`VisibleIsHashed`); the invariant says what an issued id
was derived from, and that the last verdict is the one the record in transit gets.
`SelfReferenceNeverVerifies` rests on ids being made one after another: an id is
derived from contents and from ids that were there before it. `IdsOf` says which ids
there can be after so many derivations. An id that is there at all has a first number
of derivations after which it is, so it covers only ids with a smaller one and never
itself (`NoIdCoversItself`). The invariant `MadeOK` says that whatever is in the record
or was issued is a typed content or an id from no more derivations than there were.

`GateProofs` shows of the entry workflow, vector by vector, that a failure is counted
exactly when a check refutes it (`OutcomesOfVector`), then for the counts of a directory
(`FailuresAreCounted`, with the library's facts on cardinality), and by an invariant
of the entry validator that an entry it has passed is backed: without edits, what
was run is still what is counted. A step of one of the two workflows leaves the other
alone, so this holds of both side by side.

Of the generator it proves `WrittenWasValidated` for any texts, any number of runs and
edits, and a kill at any step. It is not inductive: `SafeInv` adds that a run past
its validation holds a text that is valid under the one it read second
(`RunIsValidated`), and that a run which is writing owns the file it truncated,
unless somebody put another in its place (`WritesItsOwn`), without which filling
the file after a checkout could vouch for what was never validated.

`GreenTreeIsSound` is proved of the same runs. What the workflow passed loads because
what the generator and the schema ask of a document is what the snapshot loader asks
(`ValidLoads`); that it is still on disk when the run ends needs two facts more, which
`SoundInv` adds to `SafeInv`: a run during which nobody edited has read one text both
times and stands before the files it started with (`QuietRun`), and only the writing
mode writes (`OnlyWritersWrite`).

`NotesStayWithTheirRow` is about what the second pass over `REGISTRY.md` computes, a
recursive function on the prefixes of the text. `PassExists` shows that it unfolds
line by line, and `PassIsRight` that after each line the name it holds on to is the
one that line would annotate and that what it has found is right for the prefix, by
taking the first prefix for which this would fail. The pass goes by names, the
property by rows: `NotesOfARow` joins them, from the table being the first lines of the
section (`TableRows`) and its names being different, so that only a row below the table
can share a name with an entry's row (`IsLost`). That the text is a finite list of
lines whose rows carry names (`IsSection`) is kept by every step of the workflows
(`TextFits`).

`CallProofs` proves the five safety properties of `TypedRefVerification` and its
refinement of `CitedArtifact`, for any registry, any definitions, references, texts
and evidence, with the registry and the documents changing while a call runs. First
the operators: what context selection returns is what the reference means
(`SelectionIsMeaning`), the raw gate refuses exactly what cannot be reproduced
(`GateIsReproducibility`), digests agree exactly when what remains of the texts does
(`DigestIsRemains`), the vintage gate passes exactly the evidence dated before the
cutoff (`GateIsVintage`). So what `CitedArtifact` says in one formula is equivalent to
the checks in their order (`JustifiedIsChecked`, `ConstructibleIsChecked`). The
invariant `SystemInv` joins the one of the registry with what each stage has
established of its request (`StageFits`), with the outcome of a finished call being
the promised one (`Decided`), and with the last emitted reference being one the
library made (`EmittedFits`). Safety follows from it, and the refinement is a step
simulation: the stages between the request and the outcome are stutters.

`HarnessProofs` shows that the reference command is not blamed for a truthful vector
(`ReferenceIsNeverFailed`). Its invariant `HonestInv` speaks of runs without an edit
or a time limit so far: what has been read is what is on disk, no case ahead has been
answered, and nothing has failed.

`CheckProofs` is about the scanner and the exit status, for texts of any length and
any nesting limit, any spellings and any suite. The scanner's counters and stack are
related to the text alone: `OpenAfter` counts brackets, and a bracket encloses a
token when it is open there. The invariant `ScanInv` says that the stack is the
sequence of the open brackets, that the set a frame has seen is the set of names
which its bracket encloses directly (`StackFits`), that at a colon the last token is
the name (`NameIsLast`), that each repeated name was counted once (`Counted`), and
what the depth counter is on each path (`Descended`). `DepthCountsOpenBrackets` and
`RepeatedMembersAreReported` follow. `ExitZeroIsEarned` rests on what the tallies
say of the vectors behind the run (`TallyFits`).

The checker and the canonicalizer walk the value that the scanner returns, so
`ConformingMeansNormalForm` and `ConformingIsDigestible` need to know what that
value is made of. The invariant `ValueInv` says of each open container and of what
was returned that no value in it lies deeper than the limit leaves room for, that it
has only names and spellings that were read, and that each number in it was recorded
as what it is (`StackHolds`). `LevelsWithin` then relates the levels of a value to
those of what it holds, `NormalIs` unfolds the normal form of a value along them,
and `WalkMeansNormal` shows by the depth that is left that the walk finds nothing
exactly when the normal form is the value itself.

`CborProofs` proves `KeysAreDistinct`, `LimitsAreExact` and `ItemsAreCounted` for
inputs of any length, any nesting limit and any budget. The first two speak of the
items at each depth within a value (`Level`, by a recursive function). `LevelBelow`
unfolds it from outside, and `LevelsWithin` from inside: what is at a depth below an
item is what is one depth less below those it holds. The decoder builds values from
inside, so the invariant `DecodeInv` says of the k-th suspended activation that each
item it has received so far fits in the levels that are left below the k-th, and
that the keys it has received differ (`StackFits`); whatever is returned to an
activation keeps this (`Delivered`). A refusal for size comes at a limit because
every head but the break of a string was charged to the budget (`Charged`).

`ItemsAreCounted` counts occurrences, so an item is told from its equals by its
place, the way to it from the outside (`Places`, of which `Level` forgets the way).
The invariant `Counted` says that the places held by the suspended activations
(`Pending`), and those of what was returned, are no more than the heads charged for.
Where an item is returned its places move under the activation that receives it, and
there are as many afterwards as before (`PendingReturned`); one new place comes with
each item that is opened or complete, for which a head was charged (`OneMore`).

Assumptions are those named in the modules: `None` is none of the values it is
compared with, the sets of inputs contain values of their types, bounds are
naturals, a string token is no other token, `None` is no outcome of a call, and
published and drafted texts are lines whose rows carry
names, and no content is an id before it was derived. TLC evaluates them in
every run of those modules.

Model-checked and not proved:

* `AcceptsJsonUpToTokens`, which compares the scanner with the grammar of JSON
  (`JsonGrammar`), and `StrictInputIsItsEncoding`, `AcceptsCborUpToSimples` and
  `FixtureDecoderAgrees`, which compare the decoder with an encoder, a grammar and a
  second decoder (`CborGrammar`). These are definitions by RECURSIVE operators over
  parts of the input, what they compute for every input is an induction over data,
  and in a module with such operators the prover does no arithmetic;
* liveness (`RunEnds`), for which the prover would have to reason about `ENABLED`.

## Not modelled

The components with status `not_modelled` in `PROJECT.json`: the vector generator,
the lints, the site generator and the documents, which transform text and keep no
state. Of the parts that are modelled:

* the certificate, media-type and URI grammars of `cose_refs.py`, which are lists of
  character classes, and `evaluate_*`, which return digests without any claim;
* the per-category checks of `check_vectors.py`, which make up most of its 3,572
  lines: each compares the fields of one vector with recomputed values, in a fixed
  order and with no state, so what it finds is an attribute of the vector; its
  self-tests, which are taken to pass, and its coverage warnings, which change no
  verdict;
* in the registry workflow, the tests that quote the present document (the present
  legacy rows, one row of the present table); a pre-image column is taken to be
  there;
* `generate-stub` and the usage messages of the harness;
* how long the subprocess of the entry validator takes (it has no time limit).

## Plan

In this order, the most important behaviour first; all of it is done.

1. `RegistrySnapshot` with `ArtifactTypes`, its run and its proofs.
2. `TypedRefVerification` with `Vintage`, refining `CitedArtifact`.
3. `DerivedId`.
4. `CoseStatement` with its proofs.
5. The composition of 1 and 2, checked with both in `library`.
6. `VectorHarness`, refining `CountedRun`, with liveness and proofs.
7. `CborDecoder` against `CborGrammar`.
8. `JsonScanner`, `JsonConformance`, `CpbCheck`, and `JsonGrammar` as their reference.
9. `RegistryText` and `RegistryBuild`, with the snapshot a verifier then loads.
10. `EntryGate`, and the two workflows in `RepositoryGates`.
11. The theorems of each component in a module of its own, after its run.

What is left compares a machine with a RECURSIVE definition (see above). It would be
proved from a grammar that is stated level by level, as `Level` and `IdsOf` are: first
that what the scanner accepts is JSON, by what each open bracket has taken so far, then
that a text has at most one reading, without which a refusal says nothing.
