--------------------------- MODULE ArtifactTypes ---------------------------
(***************************************************************************)
(* Artifact-type definitions: an artifact type owns a set of digest        *)
(* contexts, and a definition is the atomic, integrity-bound assertion of  *)
(* the complete set (lib/cpb/typed_ref.py).  The module has no state: it   *)
(* holds the operators the registry and the verification modules share.    *)
(*                                                                         *)
(* SHA-256 is taken to be injective.  The content address of a context set *)
(* is therefore the value that is hashed: the multiset of its contexts.    *)
(***************************************************************************)
EXTENDS Naturals, Sequences, JsonGate

CONSTANTS
  TypeNames,       \* artifact type names
  PurposeNames,    \* purpose labels of digest contexts
  AlgorithmTokens  \* canonicalization tokens, those the library cannot run included

ASSUME NoneAssumption ==
  /\ None \notin TypeNames
  /\ None \notin PurposeNames
  /\ None \notin AlgorithmTokens
  /\ \A names \in SUBSET MemberNames : None # names

-----------------------------------------------------------------------------
(* Digest contexts.  exclusion = None: resolution metadata only.           *)

Representations == {"bare-hex", "sha256-prefixed", "raw"}

Contexts ==
  [name: TypeNames, algorithm: AlgorithmTokens, representation: Representations,
   purpose: PurposeNames, exclusion: (SUBSET MemberNames) \cup {None}]

(* The address of a context set: the order of the rows is not bound, a     *)
(* repeated row is.                                                        *)
ContextSetHash(contexts) ==
  [c \in Range(contexts) |-> Cardinality({i \in DOMAIN contexts : contexts[i] = c})]

-----------------------------------------------------------------------------
(* Definitions.  An anchor says which independently trusted pin the        *)
(* definition is bound to; a definition without one cannot be verified     *)
(* against.                                                                *)

ContextSetAnchor(pin) == [kind |-> "context-set-sha256", digest |-> pin]
SnapshotAnchor(sha) == [kind |-> "registry-snapshot-sha256", digest |-> sha]

DescribesOneType(contexts) ==
  /\ contexts # <<>>
  /\ \A i, j \in DOMAIN contexts : contexts[i].name = contexts[j].name

(* Mutated form: the set is not compared with its address.                 *)
HasShapeOnly(defn, needsAnchor) ==
  /\ DescribesOneType(defn.contexts)
  /\ \A i \in DOMAIN defn.contexts : defn.contexts[i].name = defn.name
  /\ (defn.anchor # None /\ defn.anchor.kind = "context-set-sha256")
       => defn.anchor.digest = defn.pin
  /\ needsAnchor => defn.anchor # None

HasIntegrity(defn, needsAnchor) ==
  /\ DescribesOneType(defn.contexts)
  /\ \A i \in DOMAIN defn.contexts : defn.contexts[i].name = defn.name
  /\ ContextSetHash(defn.contexts) = defn.pin
  /\ (defn.anchor # None /\ defn.anchor.kind = "context-set-sha256")
       => defn.anchor.digest = defn.pin
  /\ needsAnchor => defn.anchor # None

(* _build: the object is returned only when it passes its own check.       *)
Built(contexts, pin, anchor) ==
  LET defn == [name |-> contexts[1].name, contexts |-> contexts, pin |-> pin,
               anchor |-> anchor]
  IN  IF DescribesOneType(contexts) /\ HasIntegrity(defn, FALSE) THEN defn ELSE None

DefinitionForConstruction(contexts) == Built(contexts, ContextSetHash(contexts), None)

DefinitionFromContexts(contexts, pin) == Built(contexts, pin, ContextSetAnchor(pin))

DefinitionFromSnapshot(contexts, sha) ==
  Built(contexts, ContextSetHash(contexts), SnapshotAnchor(sha))

-----------------------------------------------------------------------------
(* Context resolution: type and purpose select exactly one context.        *)

Candidates(contexts, type) == {i \in DOMAIN contexts : contexts[i].name = type}

RepeatsPurpose(contexts, type) ==
  \E i, j \in Candidates(contexts, type) :
    i # j /\ contexts[i].purpose = contexts[j].purpose

(* The contexts a reference may mean: all candidates when it carries no    *)
(* purpose, those with its purpose otherwise.                              *)
Matching(contexts, type, purpose) ==
  {i \in Candidates(contexts, type) : purpose = None \/ contexts[i].purpose = purpose}

(* Mutated form: repeated purposes are noticed only when they collide.     *)
ResolvesUnlessAmbiguous(contexts, type, purpose) ==
  \E i \in DOMAIN contexts : Matching(contexts, type, purpose) = {i}

Resolves(contexts, type, purpose) ==
  /\ ~RepeatsPurpose(contexts, type)
  /\ \E i \in DOMAIN contexts : Matching(contexts, type, purpose) = {i}

Selected(contexts, type, purpose) ==
  contexts[CHOOSE i \in DOMAIN contexts : Matching(contexts, type, purpose) = {i}]

(* Why resolution fails: the exception _select_context raises.             *)
SelectionError(contexts, type, purpose) ==
  CASE \/ Candidates(contexts, type) = {}
       \/ RepeatsPurpose(contexts, type) -> "DigestContextResolutionError"
    [] OTHER -> IF purpose = None THEN "PurposeRequiredError" ELSE "PurposeMismatchError"

(* The algorithms this library can run on a whole JSON object.             *)
IsExecutable(context) ==
  /\ context.algorithm \in SupportedAlgorithms
  /\ context.exclusion # None
=============================================================================
