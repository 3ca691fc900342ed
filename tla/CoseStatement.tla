--------------------------- MODULE CoseStatement ---------------------------
(***************************************************************************)
(* CPB Signed Statements (lib/cpb/cose_refs.py, from the decoded           *)
(* COSE_Sign1 on).  An issuer signs a protected header and a payload; the  *)
(* unprotected header and the place of the payload are anybody's to change *)
(* on the way; a relying party validates what arrives under a statement    *)
(* mode and takes the typed references it carries.                         *)
(*                                                                         *)
(* A header bucket is the sequence of its pairs, as CborMap keeps it, so   *)
(* that one built by hand may repeat a label.  Values are told apart only  *)
(* as far as the validation does: "good" is a value it accepts.            *)
(***************************************************************************)
EXTENDS Naturals, Sequences, FiniteSets, Functions

CONSTANTS
  None,
  MaxRefs,              \* MAX_REFS, 64 in the code
  References,           \* values an element of cpb-refs may have
  MalformedReferences,  \* those that are not a typed reference
  ProtectedChoices,     \* protected headers an issuer may sign
  UnprotectedPairs,     \* header pairs anyone may add to the unprotected bucket
  Payloads,             \* payloads, each with its size
  OptionChoices,        \* how a relying party may call the validation
  MaxUnprotected        \* bound: pairs in the unprotected bucket

Labels ==
  {"refs", "crit", "alg", "content-type", "cwt", "kid", "x5t", "x5chain", "hash-alg",
   "preimage-type", "location", "extension", "not-a-label"}

IsLabel(label) == label # "not-a-label"

Pair(label, value) == [label |-> label, value |-> value]

Modes == {"full-content", "hash-envelope"}

Options ==
  [mode: Modes, required: BOOLEAN, critical: BOOLEAN, understood: SUBSET Labels,
   detached: Payloads \cup {None}, hashAlg: {"sha-256", "sha-384", None}, hashSize: Nat \cup {None}]

Errors ==
  {"DuplicateCborKeyError", "CoseHeaderError", "CriticalHeaderError", "SignedStatementError",
   "CpbRefsLocationError", "CpbRefsError"}

ASSUME NoneAssumption == None \notin Errors \cup Modes

ASSUME StatementAssumption ==
  /\ MalformedReferences \subseteq References
  /\ \A p \in Payloads : p.size \in Nat
  /\ OptionChoices \subseteq Options
  /\ MaxRefs \in Nat \ {0}
  /\ MaxUnprotected \in Nat

VARIABLES
  statement,  \* the COSE_Sign1 in transit: [protected, unprotected, payload]
  result,     \* how the last call on it ended: None or [call, options, error]
  accepted    \* all its acceptances so far: [mode, refs], mode None for an extraction

statementVars == <<statement, result, accepted>>

-----------------------------------------------------------------------------
(* CborMap.                                                                *)

Has(bucket, label) == \E i \in DOMAIN bucket : bucket[i].label = label

(* The first pair wins.                                                    *)
Get(bucket, label) ==
  IF Has(bucket, label)
  THEN bucket[CHOOSE i \in DOMAIN bucket :
         /\ bucket[i].label = label
         /\ \A j \in 1 .. i - 1 : bucket[j].label # label].value
  ELSE None

IsMissingOr(bucket, label, values) == Has(bucket, label) => Get(bucket, label) \in values

-----------------------------------------------------------------------------
(* A validation is a list of checks; the first that fails is raised.       *)

Unless(holds, error) == IF holds THEN None ELSE error

FirstError(errors) ==
  LET raised == {i \in DOMAIN errors : errors[i] # None} IN
  IF raised = {} THEN None
  ELSE errors[CHOOSE i \in raised : \A j \in raised : i <= j]

HasRepeats(seq) == \E i, j \in DOMAIN seq : i # j /\ seq[i] = seq[j]

(* _validate_label_map: the first label that is none, or is a repetition.  *)
LabelMapError(bucket) ==
  FirstError([i \in DOMAIN bucket |->
    IF ~IsLabel(bucket[i].label) THEN "CoseHeaderError"
    ELSE Unless(\A j \in 1 .. i - 1 : bucket[j].label # bucket[i].label,
                "DuplicateCborKeyError")])

Crit(cose) == IF Has(cose.protected, "crit") THEN Get(cose.protected, "crit") ELSE <<>>

BucketsAreDisjoint(cose) ==
  \A i \in DOMAIN cose.protected : ~Has(cose.unprotected, cose.protected[i].label)

(* An array, not empty, of labels that are there and not repeated.         *)
CritIsSound(cose) ==
  Has(cose.protected, "crit") =>
    /\ Crit(cose) # <<>>
    /\ \A label \in Range(Crit(cose)) : IsLabel(label) /\ Has(cose.protected, label)
    /\ ~HasRepeats(Crit(cose))

(* validate_cose_headers, then validate_critical_headers.                  *)
HeadersError(cose, understood) ==
  FirstError(<<
    LabelMapError(cose.protected),
    LabelMapError(cose.unprotected),
    Unless(BucketsAreDisjoint(cose), "CoseHeaderError"),
    Unless(~Has(cose.unprotected, "crit"), "CriticalHeaderError"),
    Unless(CritIsSound(cose), "CriticalHeaderError"),
    Unless(Range(Crit(cose)) \subseteq understood, "CriticalHeaderError") >>)

-----------------------------------------------------------------------------
(* validate_rfc9943_baseline.  CWT Claims are "good", or lack iss or sub,  *)
(* or have an issuer too long to go with a certificate.                    *)

(* A mutant: a certificate found in either bucket identifies the issuer.   *)
HasCertificate(cose) ==
  \E bucket \in {cose.protected, cose.unprotected} : Has(bucket, "x5t") \/ Has(bucket, "x5chain")

HasProtectedCertificate(cose) == Has(cose.protected, "x5t") \/ Has(cose.protected, "x5chain")

BaselineError(cose) ==
  Unless(
    /\ IsMissingOr(cose.protected, "alg", {"good"})
    /\ Has(cose.protected, "cwt")
    /\ Get(cose.protected, "cwt") \in {"good", "long-issuer"}
    /\ IsMissingOr(cose.protected, "kid", {"good"})
    /\ \A bucket \in {cose.protected, cose.unprotected}, label \in {"x5t", "x5chain"} :
         IsMissingOr(bucket, label, {"good"})
    /\ HasProtectedCertificate(cose) => Get(cose.protected, "cwt") # "long-issuer"
    /\ Has(cose.unprotected, "x5chain") => Has(cose.protected, "x5t") \/ Has(cose.protected, "kid")
    /\ HasProtectedCertificate(cose) \/ Has(cose.protected, "kid"),
    "SignedStatementError")

-----------------------------------------------------------------------------
(* validate_cpb_statement_mode.                                            *)

HashLabels == {"hash-alg", "preimage-type", "location"}

EffectivePayload(cose, detached) == IF cose.payload # None THEN cose.payload ELSE detached

FullContentHolds(cose) ==
  /\ \A label \in HashLabels : ~Has(cose.protected, label) /\ ~Has(cose.unprotected, label)
  /\ Has(cose.protected, "content-type")
  /\ ~Has(cose.unprotected, "content-type")
  /\ Get(cose.protected, "content-type") = "good"

DigestFits(digest, size) == digest.size > 0 /\ size \in {None, digest.size}

HashLabelsHold(cose, options) ==
  /\ \A label \in HashLabels : ~Has(cose.unprotected, label)
  /\ Get(cose.protected, "hash-alg") \in {"sha-256", "sha-384"}
  /\ options.hashAlg \in {None, Get(cose.protected, "hash-alg")}
  /\ Get(cose.protected, "preimage-type") = "good"
  /\ IsMissingOr(cose.protected, "location", {"good"})
  /\ EffectivePayload(cose, options.detached) # None
       => DigestFits(EffectivePayload(cose, options.detached), options.hashSize)

HashEnvelopeHolds(cose, options) ==
  /\ ~Has(cose.protected, "content-type") /\ ~Has(cose.unprotected, "content-type")
  /\ HashLabelsHold(cose, options)

(* A mutant: each mode looks only at the labels that it needs itself.      *)
LaxModeError(cose, options) ==
  Unless(
    /\ cose.payload = None \/ options.detached = None
    /\ options.mode = "full-content" => Get(cose.protected, "content-type") = "good"
    /\ options.mode = "hash-envelope" => HashLabelsHold(cose, options),
    "SignedStatementError")

(* A mutant: the payload the caller supplied is not compared to the one    *)
(* that is attached.                                                       *)
EitherPayloadModeError(cose, options) ==
  Unless(
    /\ options.mode = "full-content" => FullContentHolds(cose)
    /\ options.mode = "hash-envelope" => HashEnvelopeHolds(cose, options),
    "SignedStatementError")

ModeError(cose, options) ==
  Unless(
    /\ cose.payload = None \/ options.detached = None
    /\ options.mode = "full-content" => FullContentHolds(cose)
    /\ options.mode = "hash-envelope" => HashEnvelopeHolds(cose, options),
    "SignedStatementError")

-----------------------------------------------------------------------------
(* _extract_cpb_refs_from_cose.                                            *)

Refs(cose) == IF Has(cose.protected, "refs") THEN Get(cose.protected, "refs") ELSE <<>>

RefsError(cose, required, critical) ==
  FirstError(<<
    Unless(required => Has(cose.protected, "refs"), "CpbRefsLocationError"),
    Unless(
      Has(cose.protected, "refs") =>
        /\ critical => "refs" \in Range(Crit(cose))
        /\ Len(Refs(cose)) \in 1 .. MaxRefs
        /\ Range(Refs(cose)) \cap MalformedReferences = {}
        /\ ~HasRepeats(Refs(cose)),
      "CpbRefsError") >>)

ProcessedLabels ==
  {"refs", "crit", "content-type", "cwt", "hash-alg", "preimage-type", "location"}

StatementError(cose, options) ==
  FirstError(<<
    Unless(~Has(cose.unprotected, "refs"), "CpbRefsLocationError"),
    HeadersError(cose, options.understood \cup ProcessedLabels),
    BaselineError(cose),
    ModeError(cose, options),
    RefsError(cose, options.required, options.critical) >>)

(* extract_cpb_refs: neither baseline nor mode.                            *)
ExtractError(cose, options) ==
  FirstError(<<
    Unless(~Has(cose.unprotected, "refs"), "CpbRefsLocationError"),
    HeadersError(cose, options.understood \cup {"refs"}),
    RefsError(cose, options.required, options.critical) >>)

(* The payload that cose_signature1_structure signs, None when it raises.  *)
SignedPayload(cose, detached) == EffectivePayload(cose, detached)

Answer(call, options, error, mode) ==
  /\ result' = [call |-> call, options |-> options, error |-> error]
  /\ accepted' = IF error = None
                 THEN accepted \cup {[mode |-> mode, refs |-> Refs(statement)]} ELSE accepted
  /\ UNCHANGED statement

(* validate_cpb_signed_statement.                                          *)
Validate(options) ==
  Answer("validate", options, StatementError(statement, options), options.mode)

ExtractRefs(options) == Answer("extract", options, ExtractError(statement, options), None)

-----------------------------------------------------------------------------
(* The way from the issuer to a relying party: not the library's code.     *)

Relay(unprotected, payload) ==
  /\ statement' = [statement EXCEPT !.unprotected = unprotected, !.payload = payload]
  /\ result' = None
  /\ UNCHANGED accepted

RelayAddsPair ==
  /\ Len(statement.unprotected) < MaxUnprotected
  /\ \E pair \in UnprotectedPairs :
       Relay(Append(statement.unprotected, pair), statement.payload)

RelayStripsUnprotected == Relay(<<>>, statement.payload)

RelayMovesPayload ==
  \E payload \in Payloads \cup {None} : Relay(statement.unprotected, payload)

Init ==
  /\ statement \in [protected: ProtectedChoices, unprotected: {<<>>}, payload: Payloads \cup {None}]
  /\ result = None
  /\ accepted = {}

Next ==
  \/ \E options \in OptionChoices : Validate(options) \/ ExtractRefs(options)
  \/ RelayAddsPair
  \/ RelayStripsUnprotected
  \/ RelayMovesPayload

Spec == Init /\ [][Next]_statementVars

-----------------------------------------------------------------------------
(* Properties.                                                             *)

IsAccepted == result # None /\ result.error = None

(* Whatever happens on the way to the parts nobody signed, all the calls   *)
(* that accept a statement, by validation or by extraction alone, agree on *)
(* its references, and all the validations on its mode: no statement is    *)
(* full content to one relying party and a hash envelope to another        *)
(* (validate_cpb_statement_mode, _extract_cpb_refs_from_cose).             *)
AcceptedAlikeEverywhere ==
  \A a, b \in accepted :
    /\ a.refs = b.refs
    /\ None \in {a.mode, b.mode} \/ a.mode = b.mode

(* Nothing in the unprotected header turns a refusal into an acceptance:   *)
(* what is accepted with it is accepted without it, under the same options *)
(* (validate_cose_headers, validate_rfc9943_baseline and the two modes).   *)
UnprotectedNeverHelps ==
  IsAccepted =>
    LET bare == [statement EXCEPT !.unprotected = <<>>] IN
    None = IF result.call = "validate" THEN StatementError(bare, result.options)
                                       ELSE ExtractError(bare, result.options)

(* The payload whose size the hash mode has checked is the one that the    *)
(* signature covers, and what the caller obtained from elsewhere is never  *)
(* dropped in favour of an attached one                                    *)
(* (_effective_payload against cose_signature1_structure).                 *)
CheckedPayloadIsSigned ==
  (IsAccepted /\ result.call = "validate") =>
    LET options == result.options
        signed  == SignedPayload(statement, options.detached)
    IN
    /\ options.detached # None => signed = options.detached
    /\ (options.mode = "hash-envelope" /\ options.hashSize # None /\ signed # None)
         => signed.size = options.hashSize
=============================================================================
