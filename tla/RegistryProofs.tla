--------------------------- MODULE RegistryProofs ---------------------------
(***************************************************************************)
(* The invariants of RegistrySnapshot, for any handles, bodies, documents, *)
(* pins, implementations and context sets.                                 *)
(***************************************************************************)
EXTENDS RegistrySnapshot, TLAPS

(* A definition that _build returns describes one type and passes its own  *)
(* integrity check.                                                        *)
LEMMA BuiltIsBound ==
  ASSUME NEW contexts, NEW pin, NEW anchor, Built(contexts, pin, anchor) # None
  PROVE  /\ DescribesOneType(contexts)
         /\ HasIntegrity(Built(contexts, pin, anchor), FALSE)
         /\ Built(contexts, pin, anchor)
              = [name |-> contexts[1].name, contexts |-> contexts, pin |-> pin,
                 anchor |-> anchor]
BY DEF Built

(* A sequence of contexts that describes one type has a type name.         *)
LEMMA OneTypeIsNamed ==
  ASSUME NEW contexts \in Seq(Contexts), DescribesOneType(contexts)
  PROVE  contexts[1].name \in TypeNames /\ 1 \in DOMAIN contexts
<1>1. Len(contexts) # 0 /\ Len(contexts) \in Nat /\ DOMAIN contexts = 1 .. Len(contexts)
  BY DEF DescribesOneType
<1>2. 1 \in DOMAIN contexts
  BY <1>1
<1>3. contexts[1] \in Contexts
  BY <1>1, <1>2
<1> QED BY <1>2, <1>3 DEF Contexts

(* What an accepted document holds.                                        *)
LEMMA PassedIsAuthentic ==
  ASSUME NEW doc, NEW pin, PassesIntegrity(doc, pin)
  PROVE  /\ BodyHash(doc.body) = doc.sha
         /\ pin # None => BodyHash(doc.body) = pin
         /\ LiveTypesResolve(doc.body)
BY DEF PassesIntegrity

-----------------------------------------------------------------------------
(* The definition resolved from a snapshot.                                *)

LEMMA RowContexts ==
  ASSUME NEW type \in TypeNames, NEW rows \in Seq(Rows), NEW impls \in Seq(Contexts),
         ImplementationsFit(type, rows, impls),
         NEW i \in DOMAIN rows,
         RowIsComplete(rows[i]),
         RowIsExecutedAsRegistered(rows[i], impls)
  PROVE  LET c == ContextOf(type, rows[i], impls) IN
         /\ c \in Contexts
         /\ c.name = type
         /\ c.purpose = rows[i].purpose
         /\ c.algorithm = rows[i].algorithm
         /\ c.representation = rows[i].representation
<1> DEFINE row == rows[i]
           c == ContextOf(type, row, impls)
<1>1. row \in Rows
  OBVIOUS
<1>2. CASE ImplementationsOf(row, impls) # {}
  <2>1. c \in ImplementationsOf(row, impls)
    BY <1>2 DEF ContextOf
  <2>2. PICK k \in DOMAIN impls : c = impls[k] /\ impls[k].purpose = row.purpose
    BY <2>1 DEF ImplementationsOf
  <2>3. c \in Contexts /\ c.name = type /\ c.purpose = row.purpose
    BY <2>2 DEF ImplementationsFit
  <2>4. c.algorithm = row.algorithm /\ c.representation = row.representation
    BY <2>1 DEF RowIsExecutedAsRegistered
  <2> QED BY <2>3, <2>4
<1>3. CASE ImplementationsOf(row, impls) = {}
  <2>1. c = [name |-> type, algorithm |-> row.algorithm,
             representation |-> row.representation, purpose |-> row.purpose,
             exclusion |-> None]
    BY <1>3 DEF ContextOf
  <2>2. c \in Contexts
    BY <1>1, <2>1 DEF Contexts, Rows, RowIsComplete
  <2> QED BY <2>1, <2>2
<1> QED BY <1>2, <1>3

(* The guards of artifact_type_definition on the rows of an entry.         *)
RowsResolve(type, rows, impls) ==
  /\ rows # <<>>
  /\ ImplementationsFit(type, rows, impls)
  /\ \A i \in DOMAIN rows :
       RowIsComplete(rows[i]) /\ RowIsExecutedAsRegistered(rows[i], impls)

(* contexts gives every row its context, in order.                         *)
ListsRows(contexts, type, rows) ==
  /\ Len(contexts) = Len(rows)
  /\ \A i \in 1 .. Len(rows) :
       /\ contexts[i].name = type
       /\ contexts[i].purpose = rows[i].purpose
       /\ contexts[i].algorithm = rows[i].algorithm
       /\ contexts[i].representation = rows[i].representation

SnapshotDefn(type, contexts, sha) ==
  [name |-> type, contexts |-> contexts, pin |-> ContextSetHash(contexts),
   anchor |-> SnapshotAnchor(sha)]

LEMMA SnapshotDefinition ==
  ASSUME NEW type \in TypeNames, NEW rows \in Seq(Rows), NEW impls \in Seq(Contexts),
         NEW sha, RowsResolve(type, rows, impls)
  PROVE  /\ ContextsOf(type, rows, impls) \in Seq(Contexts)
         /\ ListsRows(ContextsOf(type, rows, impls), type, rows)
         /\ HasIntegrity(SnapshotDefn(type, ContextsOf(type, rows, impls), sha), FALSE)
         /\ DefinitionFromSnapshot(ContextsOf(type, rows, impls), sha)
              = SnapshotDefn(type, ContextsOf(type, rows, impls), sha)
<1> DEFINE contexts == ContextsOf(type, rows, impls)
           D == SnapshotDefn(type, contexts, sha)
<1>1. Len(rows) \in Nat /\ DOMAIN rows = 1 .. Len(rows) /\ Len(rows) # 0
  BY DEF RowsResolve
<1>2. \A i \in 1 .. Len(rows) :
        /\ contexts[i] = ContextOf(type, rows[i], impls)
        /\ contexts[i] \in Contexts
        /\ contexts[i].name = type
        /\ contexts[i].purpose = rows[i].purpose
        /\ contexts[i].algorithm = rows[i].algorithm
        /\ contexts[i].representation = rows[i].representation
  BY <1>1, RowContexts DEF ContextsOf, RowsResolve
<1>3. contexts \in [1 .. Len(rows) -> Contexts]
  BY <1>2 DEF ContextsOf
<1>4. contexts \in Seq(Contexts) /\ Len(contexts) = Len(rows)
      /\ DOMAIN contexts = 1 .. Len(rows)
  BY <1>1, <1>3
<1>5. DescribesOneType(contexts) /\ contexts[1].name = type
  BY <1>1, <1>2, <1>4 DEF DescribesOneType
<1>6. HasIntegrity(D, FALSE)
  BY <1>2, <1>4, <1>5 DEF HasIntegrity, SnapshotAnchor, SnapshotDefn
<1>7. DefinitionFromSnapshot(contexts, sha) = D
  BY <1>5, <1>6 DEF DefinitionFromSnapshot, Built, SnapshotDefn
<1>8. ListsRows(contexts, type, rows)
  BY <1>2, <1>4 DEF ListsRows
<1> QED BY <1>4, <1>6, <1>7, <1>8

-----------------------------------------------------------------------------
(* Type correctness.                                                       *)

(* What TypeOK asks of the last value handed to the caller.                *)
HeldOK ==
  \/ held = None
  \/ held \in Answers
  \/ held.kind = "definition" /\ IsDefinition(held.defn)

LEMMA EntriesAreTyped ==
  ASSUME TypeOK, NEW h \in Handles, IsUsable(h)
  PROVE  /\ Tree(h).body \in Bodies
         /\ snap[h].trusted \in Pins \cup {None}
         /\ \A id \in AlgorithmIds :
              Tree(h).body.algorithms[id] \in AlgorithmEntries \cup {None}
         /\ \A type \in TypeNames :
              Tree(h).body.types[type] \in TypeEntries \cup {None}
<1>1. snap[h] \in Snapshots
  BY DEF TypeOK, IsUsable
<1>2. Tree(h).body \in Bodies /\ snap[h].trusted \in Pins \cup {None}
  BY <1>1, DocumentsAssumption DEF Snapshots, Tree
<1> QED BY <1>2, BodiesAssumption DEF IsBody

LEMMA AnswersAreTyped ==
  ASSUME NEW h, NEW table \in {"algorithms", "types"},
         NEW id \in AlgorithmIds \cup TypeNames, NEW pinned \in BOOLEAN,
         NEW entry \in AlgorithmEntries \cup TypeEntries \cup {None},
         snap[h].trusted \in Pins \cup {None}
  PROVE  Answer(h, table, id, pinned, entry) \in Answers
<1>1. Verdict(entry, pinned)
        \in {"verified", "reserved", "id-unknown-to-snapshot", "unknown-id"}
  BY DEF Verdict
<1> QED BY <1>1 DEF Answer, Answers

(* A definition built from well-formed contexts is well formed.            *)
LEMMA BuiltIsTyped ==
  ASSUME NEW contexts \in Seq(Contexts), NEW pin, NEW anchor, IsAnchor(anchor),
         NEW defn, defn = Built(contexts, pin, anchor), defn # None
  PROVE  /\ IsDefinition(defn)
         /\ defn.contexts = contexts /\ defn.pin = pin /\ defn.anchor = anchor
<1>1. contexts[1].name \in TypeNames
  BY BuiltIsBound, OneTypeIsNamed
<1>2. defn = [name |-> contexts[1].name, contexts |-> contexts, pin |-> pin,
              anchor |-> anchor]
  BY BuiltIsBound
<1> QED BY <1>1, <1>2 DEF IsDefinition

(* What a successful resolution from a snapshot hands out.                 *)
LEMMA ResolvedDefinition ==
  ASSUME TypeOK, VerifiedTreesStayAuthentic,
         NEW h \in Handles, NEW type \in TypeNames, NEW impls \in ImplementationChoices,
         ArtifactTypeDefinition(h, type, impls)
  PROVE  \E contexts \in Seq(Contexts), sha \in Pins :
           /\ held' = Handed(SnapshotDefn(type, contexts, sha))
           /\ HasIntegrity(SnapshotDefn(type, contexts, sha), FALSE)
           /\ IsCompleteFor(SnapshotDefn(type, contexts, sha), sha)
<1> DEFINE entry == Tree(h).body.types[type]
<1>1. /\ IsUsable(h) /\ snap[h].trusted # None /\ Verdict(entry, TRUE) = "verified"
      /\ ImplementationsFit(type, entry.contexts, impls)
      /\ \A i \in DOMAIN entry.contexts :
           RowIsComplete(entry.contexts[i])
           /\ RowIsExecutedAsRegistered(entry.contexts[i], impls)
      /\ held' = Handed(DefinitionFromSnapshot(
                   ContextsOf(type, entry.contexts, impls), snap[h].trusted))
  BY DEF ArtifactTypeDefinition
<1>2. IsLive(entry) /\ entry # None
  BY <1>1 DEF Verdict, IsLive
<1>3. entry \in TypeEntries /\ snap[h].trusted \in Pins
  BY <1>1, <1>2, EntriesAreTyped
<1>4. PICK rows \in Seq(Rows), sha \in Pins :
        rows = entry.contexts /\ sha = snap[h].trusted
  BY <1>3 DEF TypeEntries
<1>5. Tree(h).body = sha /\ LiveTypesResolve(Tree(h).body)
  BY <1>1, <1>4 DEF VerifiedTreesStayAuthentic, BodyHash
<1>6. /\ rows # <<>>
      /\ \A i, j \in DOMAIN rows : i # j => rows[i].purpose # rows[j].purpose
  BY <1>2, <1>4, <1>5 DEF LiveTypesResolve
<1>7. RowsResolve(type, rows, impls) /\ impls \in Seq(Contexts)
  BY <1>1, <1>4, <1>6, ChoicesAssumption DEF RowsResolve
<1>8. PICK contexts \in Seq(Contexts) :
        /\ contexts = ContextsOf(type, rows, impls)
        /\ ListsRows(contexts, type, rows)
        /\ HasIntegrity(SnapshotDefn(type, contexts, sha), FALSE)
        /\ DefinitionFromSnapshot(contexts, sha) = SnapshotDefn(type, contexts, sha)
  BY <1>7, SnapshotDefinition
<1>9. ~RepeatsPurpose(contexts, type)
  <2>1. DOMAIN contexts = 1 .. Len(rows) /\ DOMAIN rows = 1 .. Len(rows)
    BY <1>8 DEF ListsRows
  <2> QED BY <1>6, <1>8, <2>1 DEF RepeatsPurpose, Candidates, ListsRows
<1>10. held' = Handed(SnapshotDefn(type, contexts, sha))
  BY <1>1, <1>4, <1>8
<1>11. IsCompleteFor(SnapshotDefn(type, contexts, sha), sha)
  <2> DEFINE D == SnapshotDefn(type, contexts, sha)
  <2>1. D.name = type /\ D.contexts = contexts
    BY DEF SnapshotDefn
  <2>2. sha.types[type] = entry
    BY <1>5
  <2>3. sha.types[type].contexts = rows /\ IsLive(sha.types[type])
    BY <1>2, <1>4, <2>2
  <2> HIDE DEF entry
  <2> QED BY <1>8, <1>9, <2>1, <2>3 DEF IsCompleteFor, ListsRows
<1> QED BY <1>8, <1>10, <1>11

-----------------------------------------------------------------------------
(* The inductive invariant.  Authenticity of the verified trees is what    *)
(* makes the answers and the definitions taken from them right, so the     *)
(* conjuncts are proved together.                                          *)

RegistryInv ==
  /\ TypeOK
  /\ VerifiedTreesStayAuthentic
  /\ AnswersFollowThePin
  /\ AnchoredDefinitionsAreComplete
  /\ DefinitionsAreBoundToTheirPin

LEMMA InitEstablishes == Init => RegistryInv
BY DEF Init, RegistryInv, TypeOK, VerifiedTreesStayAuthentic, AnswersFollowThePin,
       AnchoredDefinitionsAreComplete, DefinitionsAreBoundToTheirPin, IsUsable, Holds

(* The invariant splits into what it says of the snapshot objects and what *)
(* it says of the value handed out.                                        *)
SnapshotsOK ==
  /\ source \in Documents
  /\ snap \in [Handles -> Snapshots \cup {None}]
  /\ VerifiedTreesStayAuthentic

HandedOK ==
  /\ HeldOK
  /\ AnswersFollowThePin
  /\ AnchoredDefinitionsAreComplete
  /\ DefinitionsAreBoundToTheirPin

LEMMA Split == RegistryInv <=> SnapshotsOK /\ HandedOK
BY DEF RegistryInv, SnapshotsOK, HandedOK, TypeOK, HeldOK

LEMMA HandedUnchanged ==
  ASSUME HandedOK, UNCHANGED held PROVE HandedOK'
BY DEF HandedOK, HeldOK, AnswersFollowThePin, AnchoredDefinitionsAreComplete,
       DefinitionsAreBoundToTheirPin, Holds

LEMMA SnapshotsUnchanged ==
  ASSUME SnapshotsOK, source' \in Documents, UNCHANGED snap PROVE SnapshotsOK'
BY DEF SnapshotsOK, VerifiedTreesStayAuthentic, IsUsable, Tree

(* A handle that takes a new object: unverified, or checked when built.    *)
LEMMA SnapshotsReplaced ==
  ASSUME SnapshotsOK, NEW h \in Handles, NEW verified \in BOOLEAN,
         NEW pin \in Pins \cup {None},
         verified => PassesIntegrity(source, pin),
         snap' = [snap EXCEPT ![h] = SnapshotObject(source, verified, pin)],
         UNCHANGED source
  PROVE  SnapshotsOK'
<1>1. SnapshotObject(source, verified, pin) \in Snapshots
  BY DEF SnapshotObject, Snapshots, SnapshotsOK
<1>2. snap' \in [Handles -> Snapshots \cup {None}]
  BY <1>1 DEF SnapshotsOK
<1>3. VerifiedTreesStayAuthentic'
  <2> SUFFICES ASSUME NEW g \in Handles, IsUsable(g)'
      PROVE  /\ BodyHash(Tree(g)'.body) = snap'[g].doc.sha
             /\ snap'[g].trusted # None => BodyHash(Tree(g)'.body) = snap'[g].trusted
             /\ LiveTypesResolve(Tree(g)'.body)
    BY DEF VerifiedTreesStayAuthentic
  <2>1. CASE g # h
    <3>1. snap'[g] = snap[g]
      BY <2>1 DEF SnapshotsOK
    <3>2. IsUsable(g) /\ Tree(g)' = Tree(g)
      BY <3>1 DEF IsUsable, Tree
    <3> QED BY <3>1, <3>2 DEF SnapshotsOK, VerifiedTreesStayAuthentic
  <2>2. CASE g = h
    <3>1. snap'[g] = SnapshotObject(source, verified, pin)
      BY <2>2 DEF SnapshotsOK
    <3>2. verified /\ Tree(g)' = source
      BY <3>1 DEF IsUsable, Tree, SnapshotObject
    <3>3. snap'[g].doc = source /\ snap'[g].trusted = pin
      BY <3>1, <3>2 DEF SnapshotObject
    <3> QED BY <3>2, <3>3, PassedIsAuthentic
  <2> QED BY <2>1, <2>2
<1> QED BY <1>2, <1>3 DEF SnapshotsOK

(* A lookup's answer is right whatever was handed out before.              *)
LEMMA AnswerIsRight ==
  ASSUME RegistryInv, NEW h \in Handles, IsUsable(h), NEW table \in {"algorithms", "types"},
         NEW id, table = "algorithms" => id \in AlgorithmIds,
         table = "types" => id \in TypeNames, NEW pinned \in BOOLEAN,
         held' = Answer(h, table, id, pinned, EntryIn(Tree(h).body, table, id))
  PROVE  HandedOK'
<1> DEFINE entry == EntryIn(Tree(h).body, table, id)
<1>1. entry \in AlgorithmEntries \cup TypeEntries \cup {None}
      /\ snap[h].trusted \in Pins \cup {None}
  BY EntriesAreTyped DEF EntryIn, RegistryInv
<1>2. held' \in Answers
  BY <1>1, AnswersAreTyped
<1>3. /\ held'.kind = "answer" /\ held'.trusted = snap[h].trusted
      /\ held'.table = table /\ held'.id = id /\ held'.pinned = pinned
      /\ held'.verdict = Verdict(entry, pinned)
  BY DEF Answer
<1>4. snap[h].trusted # None => Tree(h).body = snap[h].trusted
  BY DEF RegistryInv, VerifiedTreesStayAuthentic, BodyHash
<1>5. AnswersFollowThePin'
  <2> SUFFICES ASSUME snap[h].trusted # None
      PROVE  /\ Verdict(entry, pinned) = "verified" <=> IsLive(entry)
             /\ Verdict(entry, pinned) = "reserved" <=> entry # None /\ ~IsLive(entry)
             /\ Verdict(entry, pinned) = "unknown-id" => entry = None /\ ~pinned
    BY <1>3, <1>4 DEF AnswersFollowThePin
  <2>1. CASE entry = None
    BY <2>1 DEF Verdict, IsLive
  <2>2. CASE entry # None
    <3> HIDE DEF entry
    <3> QED BY <2>2 DEF Verdict
  <2> QED BY <2>1, <2>2
<1> QED BY <1>2, <1>3, <1>5 DEF HandedOK, HeldOK, AnchoredDefinitionsAreComplete,
        DefinitionsAreBoundToTheirPin, Holds

(* Editing the copy of an entry leaves the answer as it was judged.        *)
LEMMA EditedAnswer ==
  ASSUME RegistryInv, CallerEditsReturned PROVE HandedOK'
<1>1. PICK s \in Statuses : held' = [held EXCEPT !.entry.status = s]
  BY DEF CallerEditsReturned
<1>2. held \in Answers /\ held.entry # None /\ held.kind = "answer" /\ held # None
  BY DEF CallerEditsReturned, Holds, RegistryInv, TypeOK
<1>3. held.entry \in AlgorithmEntries \cup TypeEntries
  BY <1>2 DEF Answers
<1>4. [held.entry EXCEPT !.status = s] \in AlgorithmEntries \cup TypeEntries
  BY <1>3 DEF AlgorithmEntries, TypeEntries
<1>5. held' = [held EXCEPT !.entry = [held.entry EXCEPT !.status = s]]
  BY <1>1
<1>6. held' \in Answers
  BY <1>2, <1>4, <1>5 DEF Answers
<1>7. /\ held'.kind = "answer" /\ held'.trusted = held.trusted
      /\ held'.table = held.table /\ held'.id = held.id
      /\ held'.pinned = held.pinned /\ held'.verdict = held.verdict
  BY <1>2, <1>5 DEF Answers
<1>8. AnswersFollowThePin'
  BY <1>2, <1>7 DEF AnswersFollowThePin, RegistryInv, Holds
<1> QED BY <1>6, <1>7, <1>8 DEF HandedOK, HeldOK, AnchoredDefinitionsAreComplete,
        DefinitionsAreBoundToTheirPin, Holds

(* A definition the caller is handed meets what the properties ask of it.  *)
LEMMA DefinitionIsRight ==
  ASSUME NEW defn, held' = Handed(defn), IsDefinition(defn), HasIntegrity(defn, FALSE),
         IsAnchoredBy(defn, "registry-snapshot-sha256")
           => IsCompleteFor(defn, defn.anchor.digest),
         IsAnchoredBy(defn, "context-set-sha256") =>
           \E published \in PublishedSets :
             ContextSetHash(defn.contexts) = ContextSetHash(published)
  PROVE  HandedOK'
<1>1. held'.kind = "definition" /\ held'.defn = defn
  BY DEF Handed
<1>2. HeldOK'
  BY <1>1 DEF HeldOK
<1>3. AnswersFollowThePin'
  BY <1>1 DEF AnswersFollowThePin, Holds
<1>4. AnchoredDefinitionsAreComplete'
  BY <1>1 DEF AnchoredDefinitionsAreComplete, Holds
<1>5. DefinitionsAreBoundToTheirPin'
  BY <1>1 DEF DefinitionsAreBoundToTheirPin, Holds
<1> QED BY <1>2, <1>3, <1>4, <1>5 DEF HandedOK

LEMMA ResolvedIsRight ==
  ASSUME RegistryInv, NEW h \in Handles, NEW type \in TypeNames,
         NEW impls \in ImplementationChoices, ArtifactTypeDefinition(h, type, impls)
  PROVE  HandedOK'
<1>1. PICK contexts \in Seq(Contexts), sha \in Pins :
        /\ held' = Handed(SnapshotDefn(type, contexts, sha))
        /\ HasIntegrity(SnapshotDefn(type, contexts, sha), FALSE)
        /\ IsCompleteFor(SnapshotDefn(type, contexts, sha), sha)
  BY ResolvedDefinition DEF RegistryInv
<1> DEFINE D == SnapshotDefn(type, contexts, sha)
<1>2. /\ D.name = type /\ D.contexts = contexts
      /\ D.anchor = SnapshotAnchor(sha)
      /\ D.anchor.kind = "registry-snapshot-sha256" /\ D.anchor.digest = sha
  BY DEF SnapshotDefn, SnapshotAnchor
<1>3. IsDefinition(D)
  BY <1>2 DEF IsDefinition, IsAnchor
<1>4. ~IsAnchoredBy(D, "context-set-sha256")
  BY <1>2 DEF IsAnchoredBy
<1> HIDE DEF D
<1> QED BY <1>1, <1>2, <1>3, <1>4, DefinitionIsRight DEF D

LEMMA ConstructedIsRight ==
  ASSUME NEW contexts \in ContextSetChoices, ForConstruction(contexts)
  PROVE  HandedOK'
<1> DEFINE D == DefinitionForConstruction(contexts)
<1>1. contexts \in Seq(Contexts) /\ held' = Handed(D) /\ D # None
  BY ChoicesAssumption DEF ForConstruction
<1>2. D = Built(contexts, ContextSetHash(contexts), None)
  BY DEF DefinitionForConstruction
<1>3. HasIntegrity(D, FALSE)
  BY <1>1, <1>2, BuiltIsBound
<1>4. IsDefinition(D) /\ D.anchor = None
  <2>1. IsAnchor(None)
    BY DEF IsAnchor
  <2> HIDE DEF D
  <2> QED BY <1>1, <1>2, <2>1, BuiltIsTyped
<1>5. ~IsAnchoredBy(D, "registry-snapshot-sha256") /\ ~IsAnchoredBy(D, "context-set-sha256")
  BY <1>4 DEF IsAnchoredBy
<1> HIDE DEF D
<1> QED BY <1>1, <1>3, <1>4, <1>5, DefinitionIsRight

LEMMA PinnedIsRight ==
  ASSUME NEW contexts \in ContextSetChoices, NEW published \in PublishedSets,
         FromContexts(contexts, published)
  PROVE  HandedOK'
<1> DEFINE pin == ContextSetHash(published)
           D == DefinitionFromContexts(contexts, pin)
<1>1. contexts \in Seq(Contexts) /\ held' = Handed(D) /\ D # None
  BY ChoicesAssumption DEF FromContexts
<1>2. D = Built(contexts, pin, ContextSetAnchor(pin))
  BY DEF DefinitionFromContexts
<1>3. IsAnchor(ContextSetAnchor(pin))
  BY DEF IsAnchor, ContextSetAnchor
<1>4. HasIntegrity(D, FALSE)
  BY <1>1, <1>2, BuiltIsBound
<1>5. /\ IsDefinition(D) /\ D.contexts = contexts
      /\ D.pin = pin /\ D.anchor = ContextSetAnchor(pin)
  <2> HIDE DEF D, pin
  <2> QED BY <1>1, <1>2, <1>3, BuiltIsTyped
<1>6. ~IsAnchoredBy(D, "registry-snapshot-sha256")
  BY <1>5 DEF IsAnchoredBy, ContextSetAnchor
<1> HIDE DEF D
<1>7. ContextSetHash(D.contexts) = ContextSetHash(published)
  BY <1>4, <1>5 DEF HasIntegrity
<1> QED BY <1>1, <1>4, <1>5, <1>6, <1>7, DefinitionIsRight

-----------------------------------------------------------------------------
LEMMA StepPreserves ==
  ASSUME RegistryInv, [Next]_registryVars
  PROVE  RegistryInv'
<1>1. SnapshotsOK /\ HandedOK
  BY Split
<1>2. SnapshotsOK' /\ HandedOK' => RegistryInv'
  BY Split, PTL
<1>3. CASE UNCHANGED registryVars
  BY <1>1, <1>2, <1>3, HandedUnchanged, SnapshotsUnchanged DEF registryVars, SnapshotsOK
<1>4. CASE CallerEditsSource
  BY <1>1, <1>2, <1>4, HandedUnchanged, SnapshotsUnchanged DEF CallerEditsSource
<1>5. CASE CallerEditsReturned
  <2>1. SnapshotsOK'
    BY <1>1, <1>5, SnapshotsUnchanged DEF CallerEditsReturned, SnapshotsOK
  <2> QED BY <1>2, <1>5, <2>1, EditedAnswer
<1>6. ASSUME NEW contexts \in ContextSetChoices, ForConstruction(contexts)
      PROVE  RegistryInv'
  <2>1. SnapshotsOK'
    BY <1>1, <1>6, SnapshotsUnchanged DEF ForConstruction, SnapshotsOK
  <2> QED BY <1>2, <1>6, <2>1, ConstructedIsRight
<1>7. ASSUME NEW contexts \in ContextSetChoices, NEW published \in PublishedSets,
             FromContexts(contexts, published)
      PROVE  RegistryInv'
  <2>1. SnapshotsOK'
    BY <1>1, <1>7, SnapshotsUnchanged DEF FromContexts, SnapshotsOK
  <2> QED BY <1>2, <1>7, <2>1, PinnedIsRight
<1>8. ASSUME NEW h \in Handles, SnapshotStep(h)
      PROVE  RegistryInv'
  <2>1. ASSUME NEW pin \in Pins \cup {None}, Load(h, pin)
        PROVE  RegistryInv'
    BY <1>1, <1>2, <2>1, HandedUnchanged, SnapshotsReplaced DEF Load
  <2>2. ASSUME NEW verify \in BOOLEAN, NEW pin \in Pins \cup {None},
               FromDict(h, verify, pin)
        PROVE  RegistryInv'
    BY <1>1, <1>2, <2>2, HandedUnchanged, SnapshotsReplaced DEF FromDict
  <2>3. ASSUME NEW id \in AlgorithmIds, NEW pinned \in BOOLEAN,
               LookupAlgorithm(h, id, pinned)
        PROVE  RegistryInv'
    <3>1. SnapshotsOK'
      BY <1>1, <2>3, SnapshotsUnchanged DEF LookupAlgorithm, SnapshotsOK
    <3>2. HandedOK'
      <4>1. held' = Answer(h, "algorithms", id, pinned,
                           EntryIn(Tree(h).body, "algorithms", id))
        BY <2>3 DEF LookupAlgorithm, EntryIn
      <4> QED BY <2>3, <4>1, AnswerIsRight DEF LookupAlgorithm
    <3> QED BY <1>2, <3>1, <3>2
  <2>4. ASSUME NEW type \in TypeNames, NEW pinned \in BOOLEAN,
               LookupArtifactType(h, type, pinned)
        PROVE  RegistryInv'
    <3>1. SnapshotsOK'
      BY <1>1, <2>4, SnapshotsUnchanged DEF LookupArtifactType, SnapshotsOK
    <3>2. HandedOK'
      <4>1. held' = Answer(h, "types", type, pinned,
                           EntryIn(Tree(h).body, "types", type))
        BY <2>4 DEF LookupArtifactType, EntryIn
      <4> QED BY <2>4, <4>1, AnswerIsRight DEF LookupArtifactType
    <3> QED BY <1>2, <3>1, <3>2
  <2>5. ASSUME NEW type \in TypeNames, NEW impls \in ImplementationChoices,
               ArtifactTypeDefinition(h, type, impls)
        PROVE  RegistryInv'
    <3>1. SnapshotsOK'
      BY <1>1, <2>5, SnapshotsUnchanged DEF ArtifactTypeDefinition, SnapshotsOK
    <3> QED BY <1>2, <2>5, <3>1, ResolvedIsRight
  <2> QED BY <1>8, <2>1, <2>2, <2>3, <2>4, <2>5 DEF SnapshotStep
<1> QED BY <1>3, <1>4, <1>5, <1>6, <1>7, <1>8 DEF Next, CallerStep

(* Every state the registry and its caller can reach satisfies the         *)
(* inductive invariant: RegistrySnapshot of lib/cpb/registry.py, however   *)
(* many handles, bodies, pins and context sets there are.                  *)
THEOREM RegistryInvariant == Spec => []RegistryInv
BY InitEstablishes, StepPreserves, PTL DEF Spec

(* The state has its type.                                                 *)
THEOREM TypeCorrect == Spec => []TypeOK
<1>1. RegistryInv => TypeOK
  BY DEF RegistryInv
<1> QED BY <1>1, RegistryInvariant, PTL

(* What a verified snapshot object answers from stays what was verified    *)
(* and pinned (registry.py _verify_integrity).                             *)
THEOREM TreesStayAuthentic == Spec => []VerifiedTreesStayAuthentic
<1>1. RegistryInv => VerifiedTreesStayAuthentic
  BY DEF RegistryInv
<1> QED BY <1>1, RegistryInvariant, PTL

(* A lookup against a pin answers what the pinned body registers           *)
(* (registry.py lookup_algorithm, lookup_artifact_type).                   *)
THEOREM AnswersAreRight == Spec => []AnswersFollowThePin
<1>1. RegistryInv => AnswersFollowThePin
  BY DEF RegistryInv
<1> QED BY <1>1, RegistryInvariant, PTL

(* A definition anchored at a snapshot is the complete registered set      *)
(* (registry.py artifact_type_definition).                                 *)
THEOREM DefinitionsAreComplete == Spec => []AnchoredDefinitionsAreComplete
<1>1. RegistryInv => AnchoredDefinitionsAreComplete
  BY DEF RegistryInv
<1> QED BY <1>1, RegistryInvariant, PTL

(* Every definition in the caller's hands is integrity-bound               *)
(* (typed_ref.py ArtifactTypeDefinition).                                  *)
THEOREM DefinitionsAreBound == Spec => []DefinitionsAreBoundToTheirPin
<1>1. RegistryInv => DefinitionsAreBoundToTheirPin
  BY DEF RegistryInv
<1> QED BY <1>1, RegistryInvariant, PTL
=============================================================================
