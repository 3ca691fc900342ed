-------------------------- MODULE RegistrySnapshot --------------------------
(***************************************************************************)
(* Registry snapshots as a verifier holds them (lib/cpb/registry.py).  A   *)
(* caller owns a mutable document (a parsed dict, or registry.json on      *)
(* disk), builds snapshot objects from it with or without an independently *)
(* trusted pin, looks ids up, edits what it was handed back, and resolves  *)
(* artifact-type definitions.                                              *)
(*                                                                         *)
(* A document is its body, the snapshot_sha256 it claims, and whether its  *)
(* text repeats a member.  SHA-256 is injective: the hash of a body is the *)
(* body.                                                                   *)
(***************************************************************************)
EXTENDS ArtifactTypes

CONSTANTS
  Handles,          \* variables of the caller that hold a snapshot object
  AlgorithmIds,     \* algorithm ids that may be looked up
  Bodies,           \* the document bodies in circulation
  Documents,        \* the documents the caller may hold
  Pins,             \* snapshot hashes the caller trusts independently
  ImplementationChoices,  \* implementation sequences it may supply
  ContextSetChoices,      \* context sequences the caller may declare itself
  PublishedSets           \* those whose address a profile published as its pin

LiveStatuses ==
  {"Registered", "owner-confirmed", "third-party-documented", "standards-referenced"}
HeldStatuses == {"Reserved", "provisional", "withdrawn"}
Statuses == LiveStatuses \cup HeldStatuses

IsLive(entry) == entry # None /\ entry.status \in LiveStatuses

(* Registry rows are prose-derived: each field may be missing.             *)
Rows ==
  [purpose: PurposeNames \cup {None}, algorithm: AlgorithmTokens \cup {None},
   representation: Representations \cup {None}]

AlgorithmEntries == [status: Statuses]
TypeEntries == [status: Statuses, contexts: Seq(Rows)]

IsBody(b) ==
  /\ b.schema \in {"1", "2"}
  /\ \A a \in AlgorithmIds : b.algorithms[a] # None => b.algorithms[a] \in AlgorithmEntries
  /\ \A t \in TypeNames : b.types[t] # None => b.types[t] \in TypeEntries

ASSUME BodiesAssumption == \A b \in Bodies : IsBody(b)
ASSUME DocumentsAssumption ==
  Documents \subseteq [body: Bodies, sha: Bodies \cup {None}, repeats: BOOLEAN]
ASSUME PinsAssumption == Pins \subseteq Bodies
ASSUME ChoicesAssumption ==
  /\ ImplementationChoices \subseteq Seq(Contexts)
  /\ ContextSetChoices \subseteq Seq(Contexts)
  /\ PublishedSets \subseteq ContextSetChoices

VARIABLES
  source,    \* the document the caller holds and may edit
  snap,      \* handle -> None or [doc, verified, trusted]
  held       \* what the library last handed the caller: None, the answer of a
             \* lookup, or an artifact-type definition

registryVars == <<source, snap, held>>

-----------------------------------------------------------------------------
(* Building a snapshot object.                                             *)

BodyHash(body) == body

LiveTypesResolve(body) ==
  \A t \in TypeNames : body.types[t] # None =>
    /\ body.types[t].contexts # <<>>
    /\ IsLive(body.types[t]) =>
         LET rows == body.types[t].contexts IN
         /\ \A i \in DOMAIN rows : rows[i].purpose # None
         /\ \A i, j \in DOMAIN rows : i # j => rows[i].purpose # rows[j].purpose

(* Mutated form: the pin is not compared.                                  *)
PassesIntegrityUnpinned(doc, pin) ==
  /\ doc.body.schema = "1"
  /\ doc.sha = BodyHash(doc.body)
  /\ LiveTypesResolve(doc.body)

(* _verify_integrity passes; pin = None when the caller supplied none.     *)
PassesIntegrity(doc, pin) ==
  /\ doc.body.schema = "1"
  /\ doc.sha = BodyHash(doc.body)
  /\ pin = None \/ pin = BodyHash(doc.body)
  /\ LiveTypesResolve(doc.body)

(* Mutated form: what the document claims of itself passes for the pin.    *)
ObjectTrustingTheClaim(doc, verified, pin) ==
  [doc |-> doc, verified |-> verified, trusted |-> doc.sha]

(* __init__ deep-copies the tree; the checks set the two flags last.       *)
SnapshotObject(doc, verified, pin) ==
  [doc |-> doc, verified |-> verified, trusted |-> IF verified THEN pin ELSE None]

(* Mutated form: the tree is shared with the caller, not copied.           *)
SharedTree(h) == source

(* The tree a snapshot object answers from: its own copy.                  *)
Tree(h) == snap[h].doc

CallerEditsSource ==
  /\ \E d \in Documents : source' = d
  /\ UNCHANGED <<snap, held>>

(* load parses the text (a repeated member is an error there) and always   *)
(* verifies.  On an exception the handle keeps what it held.               *)
Load(h, pin) ==
  /\ ~source.repeats
  /\ PassesIntegrity(source, pin)
  /\ snap' = [snap EXCEPT ![h] = SnapshotObject(source, TRUE, pin)]
  /\ UNCHANGED <<source, held>>

FromDict(h, verify, pin) ==
  /\ verify => PassesIntegrity(source, pin)
  /\ snap' = [snap EXCEPT ![h] = SnapshotObject(source, verify, pin)]
  /\ UNCHANGED <<source, held>>

-----------------------------------------------------------------------------
(* Lookups.                                                                *)

(* Mutated form: an entry answers for its id whatever its status.          *)
VerdictOfAnyEntry(entry, pinned) ==
  IF entry # None THEN "verified"
  ELSE IF pinned THEN "id-unknown-to-snapshot" ELSE "unknown-id"

Verdict(entry, pinned) ==
  CASE entry # None /\ IsLive(entry) -> "verified"
    [] entry # None /\ ~IsLive(entry) -> "reserved"
    [] entry = None /\ pinned -> "id-unknown-to-snapshot"
    [] entry = None /\ ~pinned -> "unknown-id"

IsUsable(h) == snap[h] # None /\ snap[h].verified

(* The answer handed out; trusted records the pin of the object asked.     *)
Answer(h, table, id, pinned, entry) ==
  [kind |-> "answer", trusted |-> snap[h].trusted, table |-> table, id |-> id,
   pinned |-> pinned, verdict |-> Verdict(entry, pinned), entry |-> entry]

LookupAlgorithm(h, id, pinned) ==
  /\ IsUsable(h)
  /\ held' = Answer(h, "algorithms", id, pinned, Tree(h).body.algorithms[id])
  /\ UNCHANGED <<source, snap>>

LookupArtifactType(h, type, pinned) ==
  /\ IsUsable(h)
  /\ held' = Answer(h, "types", type, pinned, Tree(h).body.types[type])
  /\ UNCHANGED <<source, snap>>

Holds(kind) == held # None /\ held.kind = kind

(* The entry handed out is a deep copy: editing it touches nothing else.   *)
CallerEditsReturned ==
  /\ Holds("answer")
  /\ held.entry # None
  /\ \E s \in Statuses : held' = [held EXCEPT !.entry.status = s]
  /\ UNCHANGED <<source, snap>>

-----------------------------------------------------------------------------
(* Definitions.                                                            *)

Handed(defn) == [kind |-> "definition", defn |-> defn]

(* The implementations name the type, one per purpose, and no purpose the  *)
(* entry lacks.                                                            *)
ImplementationsFit(type, rows, impls) ==
  /\ \A i \in DOMAIN impls : impls[i].name = type
  /\ \A i, j \in DOMAIN impls : i # j => impls[i].purpose # impls[j].purpose
  /\ \A i \in DOMAIN impls : \E k \in DOMAIN rows : rows[k].purpose = impls[i].purpose

ImplementationsOf(row, impls) ==
  {impls[i] : i \in {k \in DOMAIN impls : impls[k].purpose = row.purpose}}

RowIsComplete(row) ==
  /\ row.purpose # None
  /\ row.algorithm # None
  /\ row.representation # None

(* Mutated form: the representation of an implementation is its own choice. *)
RowAlgorithmAgrees(row, impls) ==
  \A c \in ImplementationsOf(row, impls) : c.algorithm = row.algorithm

(* An implementation must agree with the row it executes.                  *)
RowIsExecutedAsRegistered(row, impls) ==
  \A c \in ImplementationsOf(row, impls) :
    c.algorithm = row.algorithm /\ c.representation = row.representation

(* The context a row contributes: the implementation when there is one,    *)
(* else metadata that no one can execute.                                  *)
ContextOf(type, row, impls) ==
  IF ImplementationsOf(row, impls) # {}
  THEN CHOOSE c \in ImplementationsOf(row, impls) : TRUE
  ELSE [name |-> type, algorithm |-> row.algorithm, representation |-> row.representation,
        purpose |-> row.purpose, exclusion |-> None]

ContextsOf(type, rows, impls) ==
  [i \in 1 .. Len(rows) |-> ContextOf(type, rows[i], impls)]

ArtifactTypeDefinition(h, type, impls) ==
  /\ IsUsable(h)
  /\ snap[h].trusted # None
  /\ Verdict(Tree(h).body.types[type], TRUE) = "verified"
  /\ LET rows == Tree(h).body.types[type].contexts IN
     /\ ImplementationsFit(type, rows, impls)
     /\ \A i \in DOMAIN rows :
          RowIsComplete(rows[i]) /\ RowIsExecutedAsRegistered(rows[i], impls)
     /\ held' =
          Handed(DefinitionFromSnapshot(ContextsOf(type, rows, impls), snap[h].trusted))
  /\ UNCHANGED <<source, snap>>

ForConstruction(contexts) ==
  /\ DefinitionForConstruction(contexts) # None
  /\ held' = Handed(DefinitionForConstruction(contexts))
  /\ UNCHANGED <<source, snap>>

(* published: the complete set whose address the caller trusts.            *)
FromContexts(contexts, published) ==
  /\ DefinitionFromContexts(contexts, ContextSetHash(published)) # None
  /\ held' = Handed(DefinitionFromContexts(contexts, ContextSetHash(published)))
  /\ UNCHANGED <<source, snap>>

-----------------------------------------------------------------------------
Init ==
  /\ source \in Documents
  /\ snap = [h \in Handles |-> None]
  /\ held = None

SnapshotStep(h) ==
  \/ \E pin \in Pins \cup {None} : Load(h, pin)
  \/ \E verify \in BOOLEAN, pin \in Pins \cup {None} : FromDict(h, verify, pin)
  \/ \E id \in AlgorithmIds, pinned \in BOOLEAN : LookupAlgorithm(h, id, pinned)
  \/ \E type \in TypeNames, pinned \in BOOLEAN : LookupArtifactType(h, type, pinned)
  \/ \E type \in TypeNames, impls \in ImplementationChoices :
       ArtifactTypeDefinition(h, type, impls)

CallerStep ==
  \/ CallerEditsSource
  \/ CallerEditsReturned
  \/ \E contexts \in ContextSetChoices : ForConstruction(contexts)
  \/ \E contexts \in ContextSetChoices, published \in PublishedSets :
       FromContexts(contexts, published)

Next == CallerStep \/ \E h \in Handles : SnapshotStep(h)

Spec == Init /\ [][Next]_registryVars

-----------------------------------------------------------------------------
(* Properties.                                                             *)

Snapshots == [doc: Documents, verified: BOOLEAN, trusted: Pins \cup {None}]

Answers ==
  [kind: {"answer"}, trusted: Pins \cup {None}, table: {"algorithms", "types"},
   id: AlgorithmIds \cup TypeNames, pinned: BOOLEAN,
   verdict: {"verified", "reserved", "id-unknown-to-snapshot", "unknown-id"},
   entry: AlgorithmEntries \cup TypeEntries \cup {None}]

IsAnchor(anchor) ==
  anchor = None \/ anchor.kind \in {"context-set-sha256", "registry-snapshot-sha256"}

IsDefinition(d) ==
  /\ d.name \in TypeNames
  /\ d.contexts \in Seq(Contexts)
  /\ IsAnchor(d.anchor)

(* The shape of the state: every variable is None or a value the library's *)
(* classes can hold.                                                       *)
TypeOK ==
  /\ source \in Documents
  /\ snap \in [Handles -> Snapshots \cup {None}]
  /\ \/ held = None
     \/ held \in Answers
     \/ held.kind = "definition" /\ IsDefinition(held.defn)

(* What a snapshot object that passed verification answers from hashes to  *)
(* the address it reports, and to the pin when it was given one, whatever  *)
(* the caller has since done to the document it was built from and to the  *)
(* entries it was handed (registry.py __init__, _verify_integrity).        *)
VerifiedTreesStayAuthentic ==
  \A h \in Handles : IsUsable(h) =>
    /\ BodyHash(Tree(h).body) = snap[h].doc.sha
    /\ snap[h].trusted # None => BodyHash(Tree(h).body) = snap[h].trusted
    /\ LiveTypesResolve(Tree(h).body)

EntryIn(body, table, id) ==
  IF table = "algorithms" THEN body.algorithms[id] ELSE body.types[id]

(* A lookup on a pinned object answers what the pinned body says: verified *)
(* exactly for the ids it registers as live, reserved exactly for those it *)
(* holds, and a flat denial only when the caller asked for one.            *)
AnswersFollowThePin ==
  Holds("answer") /\ held.trusted # None =>
    LET entry == EntryIn(held.trusted, held.table, held.id) IN
    /\ held.verdict = "verified" <=> IsLive(entry)
    /\ held.verdict = "reserved" <=> entry # None /\ ~IsLive(entry)
    /\ held.verdict = "unknown-id" => entry = None /\ ~held.pinned

(* defn lists the contexts body registers for its type, in order.          *)
IsCompleteFor(defn, body) ==
  LET entry == body.types[defn.name]
  IN  /\ body \in Pins
      /\ IsLive(entry)
      /\ Len(defn.contexts) = Len(entry.contexts)
      /\ \A i \in 1 .. Len(entry.contexts) :
           LET c == defn.contexts[i]
               row == entry.contexts[i]
           IN  /\ c.name = defn.name
               /\ c.purpose = row.purpose
               /\ c.algorithm = row.algorithm
               /\ c.representation = row.representation
      /\ ~RepeatsPurpose(defn.contexts, defn.name)

IsAnchoredBy(defn, kind) == defn.anchor # None /\ defn.anchor.kind = kind

(* A definition anchored at a registry snapshot holds, in order and with   *)
(* nothing left out, every context the trusted body registers for a live   *)
(* type, each with the registered metadata; one context per purpose        *)
(* (artifact_type_definition).                                             *)
AnchoredDefinitionsAreComplete ==
  Holds("definition") /\ IsAnchoredBy(held.defn, "registry-snapshot-sha256") =>
    IsCompleteFor(held.defn, held.defn.anchor.digest)

(* Every definition the caller can hold passes the check the verification  *)
(* calls repeat, and one bound to a profile's pin is the complete set that *)
(* was published under that pin (from_contexts, _build).                   *)
DefinitionsAreBoundToTheirPin ==
  Holds("definition") =>
    /\ HasIntegrity(held.defn, FALSE)
    /\ IsAnchoredBy(held.defn, "context-set-sha256") =>
         \E published \in PublishedSets :
           ContextSetHash(held.defn.contexts) = ContextSetHash(published)
=============================================================================
