------------------------------ MODULE JsonGate ------------------------------
(***************************************************************************)
(* What the library keeps of a JSON artifact between the wire and the      *)
(* digest (lib/cpb/canonicalize.py), at the granularity the verification   *)
(* calls tell apart: the top-level members, the kind of each value, and    *)
(* the names the text repeats.  Nested values show in the kind only.      *)
(***************************************************************************)
EXTENDS Functions, FiniteSets

CONSTANTS
  None,        \* Python's None
  MemberNames, \* top-level member names of a JSON artifact
  Contents     \* what tells two values of one kind apart

(* "plain": a value normalization leaves as it is; "empty": one jcs-n      *)
(* normalizes away (null, [], {}, or an object left with no member);       *)
(* "float": a number with a fraction; "unsafe": an integer beyond 2^53-1.  *)
Kinds == {"plain", "empty", "float", "unsafe"}

Values == [kind: Kinds, content: Contents]

Objects == UNION {[names -> Values] : names \in SUBSET MemberNames}

(* A raw text, as the duplicate-preserving lexer reads it.                 *)
Texts ==
  [form: {"object", "not-an-object", "malformed"}, members: Objects,
   repeated: SUBSET MemberNames]

SupportedAlgorithms == {"jcs", "jcs-n"}

WireViolations(text) ==
  {code \in {"duplicate_key", "number_token_form", "unsafe_integer"} :
     CASE code = "duplicate_key" -> text.repeated # {}
       [] code = "number_token_form" -> \E v \in Range(text.members) : v.kind = "float"
       [] code = "unsafe_integer" -> \E v \in Range(text.members) : v.kind = "unsafe"}

ApplicableViolations(text, algorithm) ==
  {code \in WireViolations(text) : code = "duplicate_key" \/ algorithm = "jcs-n"}

(* _parse_json_object: the exception it raises, or None.  The violations   *)
(* are judged over the whole text, before any member is excluded.          *)
ParseError(text, algorithm) ==
  IF algorithm \notin SupportedAlgorithms \/ text.form = "malformed" THEN "ValueError"
  ELSE IF ApplicableViolations(text, algorithm) # {} THEN "JsonWireFormatError"
  ELSE IF text.form # "object" THEN "TypeError"
  ELSE None

(* Mutated form: the exclusion set is not applied.                         *)
EveryMember(members, exclusion) == DOMAIN members

(* The members that are hashed: exclusion first, then normalization.       *)
Kept(members, exclusion) == DOMAIN members \ exclusion

(* Mutated form: every algorithm normalizes, not the withdrawn one alone.  *)
NormalizedMembers(members, exclusion, algorithm) ==
  Restrict(members, {m \in Kept(members, exclusion) : members[m].kind # "empty"})

HashedMembers(members, exclusion, algorithm) ==
  Restrict(members,
           {m \in Kept(members, exclusion) : algorithm = "jcs-n" => members[m].kind # "empty"})

(* The serializers' own refusals: rfc8785 rejects an integer it cannot     *)
(* reproduce, jcs-n every float as well.                                   *)
SerializeError(members, exclusion, algorithm) ==
  IF \E m \in Kept(members, exclusion) :
       \/ members[m].kind = "unsafe"
       \/ members[m].kind = "float" /\ algorithm = "jcs-n"
  THEN "UnreproducibleNumberError" ELSE None

(* canonical_digest_json: the exception, or None when there is a digest.   *)
(* SHA-256 is injective, so the digest is HashedMembers itself.            *)
DigestError(text, exclusion, algorithm) ==
  IF ParseError(text, algorithm) # None
  THEN ParseError(text, algorithm)
  ELSE SerializeError(text.members, exclusion, algorithm)
=============================================================================
