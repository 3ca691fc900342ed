----------------------------- MODULE DerivedId -----------------------------
(***************************************************************************)
(* Derived identifiers (lib/cpb/derive_id.py).  An issuer derives an id    *)
(* from a record, writes it into a field of the record, and the record     *)
(* travels: anyone may edit it, repeat a member, or move an id into        *)
(* another record.  A verifier recomputes the id from what arrives.        *)
(***************************************************************************)
EXTENDS Vintage

CONSTANTS
  CarriedField,  \* the member that carries the id
  Exclusions,    \* exclusion sets a payload class may declare
  RecordChoices, \* records an issuer starts from
  EditChoices,   \* values someone may write into a member
  EvidenceTimes, \* replies an evidence callback may give
  MaxIssues      \* bound: ids issued in one behaviour

ASSUME RecordsAssumption ==
  /\ CarriedField \in MemberNames
  /\ RecordChoices \subseteq Objects
  /\ EditChoices \subseteq Values
  /\ Exclusions \subseteq SUBSET MemberNames
  /\ MaxIssues \in Nat

ASSUME EvidenceAssumption ==
  /\ Cutoff \in Int
  /\ \A reply \in EvidenceTimes :
       reply.kind = "datetime" => reply.clock \in Int /\ reply.offset \in Int \cup {None}

(* The ids that records can have whose members hold contents, or ids made  *)
(* in no more than n steps before them.                                    *)
Bodies(contents) ==
  UNION {[names -> [kind: Kinds, content: contents]] : names \in SUBSET MemberNames}
IdsOf[n \in Nat] ==
  IF n = 0 THEN {} ELSE IdsOf[n - 1] \cup Bodies(Contents \cup IdsOf[n - 1])

(* A hash is nobody's content before it has been computed: what is typed   *)
(* into a record is no id, an id enters one only once it was derived.      *)
ASSUME HashAssumption ==
  \A n \in 0..(MaxIssues + 1) : Contents \cap IdsOf[n] = {}

(* None is no exception.                                                   *)
ASSUME NoErrorAssumption ==
  None \notin {"ValueError", "JsonWireFormatError", "TypeError", "UnreproducibleNumberError",
               "WithdrawnAlgorithmError", "CarriedIdMismatch", "VintageEvidenceError"}

VARIABLES
  record,   \* the record in transit: [members, repeated]
  issued,   \* the ids derived so far, each with what it was derived from
  checked   \* what a verification just answered, with its inputs, or None

idVars == <<record, issued, checked>>

-----------------------------------------------------------------------------
Text(rec) == [form |-> "object", members |-> rec.members, repeated |-> rec.repeated]

(* derive_id: digest first, then the refusal of the withdrawn algorithm.   *)
DeriveError(rec, exclusion, algorithm) ==
  IF DigestError(Text(rec), exclusion, algorithm) # None
  THEN DigestError(Text(rec), exclusion, algorithm)
  ELSE IF algorithm = "jcs-n" THEN "WithdrawnAlgorithmError"
  ELSE None

Derive(exclusion, algorithm) ==
  /\ DeriveError(record, exclusion, algorithm) = None
  /\ Cardinality(issued) < MaxIssues
  /\ issued' = issued \cup
       {[id |-> HashedMembers(record.members, exclusion, algorithm),
         members |-> record.members, exclusion |-> exclusion]}
  /\ checked' = None
  /\ UNCHANGED record

(* A member that holds an id: a string, which every algorithm keeps.       *)
IdValue(id) == [kind |-> "plain", content |-> id]

WithMember(members, m, value) ==
  [n \in DOMAIN members \cup {m} |-> IF n = m THEN value ELSE members[n]]

(* Mutated form: an id carried as null counts as one that is not carried.  *)
MismatchUnlessNull(members, recomputed) ==
  /\ CarriedField \in DOMAIN members
  /\ members[CarriedField].kind # "empty"
  /\ members[CarriedField] # IdValue(recomputed)

(* The carried id is compared only when the field is there.                *)
CarriesAnother(members, recomputed) ==
  /\ CarriedField \in DOMAIN members
  /\ members[CarriedField] # IdValue(recomputed)

(* verify_carried_id: gate, digest, carried value, and only then vintage.  *)
VerifyError(rec, exclusion, algorithm, vintage) ==
  LET recomputed == HashedMembers(rec.members, exclusion, algorithm) IN
  IF DigestError(Text(rec), exclusion, algorithm) # None
  THEN DigestError(Text(rec), exclusion, algorithm)
  ELSE IF CarriesAnother(rec.members, recomputed) THEN "CarriedIdMismatch"
  ELSE IF algorithm = "jcs-n" /\ ~IsPreCutoff(vintage, recomputed)
  THEN "VintageEvidenceError"
  ELSE None

Verify(exclusion, algorithm, vintage) ==
  /\ checked' = [exclusion |-> exclusion, algorithm |-> algorithm, vintage |-> vintage,
                 error |-> VerifyError(record, exclusion, algorithm, vintage)]
  /\ UNCHANGED <<record, issued>>

-----------------------------------------------------------------------------
(* Outside the library: the issuer stamps the record, and others edit it.  *)

Stamp ==
  /\ \E i \in issued :
       record' = [record EXCEPT !.members = WithMember(@, CarriedField, IdValue(i.id))]
  /\ checked' = None
  /\ UNCHANGED issued

Edit(m) ==
  /\ \/ \E value \in EditChoices :
          record' = [record EXCEPT !.members = WithMember(@, m, value)]
     \/ /\ m \in DOMAIN record.members
        /\ record' = [members |-> Restrict(record.members, DOMAIN record.members \ {m}),
                      repeated |-> record.repeated \ {m}]
     \/ /\ m \in DOMAIN record.members
        /\ record' = [record EXCEPT !.repeated = @ \cup {m}]
  /\ checked' = None
  /\ UNCHANGED issued

NoVintage == [evidence |-> None, hasVerifier |-> TRUE]

(* Evidence for the record as it stands, or for another one.               *)
Vintages ==
  {NoVintage} \cup
  {[evidence |-> [binds |-> HashedMembers(members, exclusion, "jcs-n"), reply |-> reply],
    hasVerifier |-> TRUE] :
     members \in RecordChoices \cup {record.members}, exclusion \in Exclusions,
     reply \in EvidenceTimes}

Init ==
  /\ record \in [members: RecordChoices, repeated: {{}}]
  /\ issued = {}
  /\ checked = None

Next ==
  \/ \E exclusion \in Exclusions, algorithm \in SupportedAlgorithms :
       Derive(exclusion, algorithm)
  \/ Stamp
  \/ \E m \in MemberNames : Edit(m)
  \/ \E exclusion \in Exclusions : Verify(exclusion, "jcs", NoVintage)
  \/ \E exclusion \in Exclusions, vintage \in Vintages :
       Verify(exclusion, "jcs-n", vintage)

Spec == Init /\ [][Next]_idVars

-----------------------------------------------------------------------------
(* Properties.                                                             *)

IsVerified == checked # None /\ checked.error = None

CarriesId == CarriedField \in DOMAIN record.members

Carries(issue) == CarriesId /\ record.members[CarriedField] = IdValue(issue.id)

(* What a member says under an algorithm: jcs-n does not see empty values. *)
Visible(members, exclusion, algorithm) ==
  {<<m, members[m]>> : m \in {n \in DOMAIN members \ exclusion :
     algorithm = "jcs-n" => members[n].kind # "empty"}}

StillSays(issue) ==
  /\ record.repeated = {}
  /\ Visible(record.members, checked.exclusion, checked.algorithm)
       = Visible(issue.members, issue.exclusion, "jcs")

(* A record that carries an id issued for its class is verified only while *)
(* its members outside the exclusion set are those the id was derived from *)
(* and none is stated twice, wherever the id was copied to and whatever    *)
(* was edited; the withdrawn algorithm overlooks members without content   *)
(* (verify_carried_id, derive_id).                                         *)
IssuedIdsBindTheirRecord ==
  \A issue \in issued :
    IsVerified /\ Carries(issue) /\ checked.exclusion = issue.exclusion
      => StillSays(issue)

(* Conversely an id is good for as long as nothing it covers has changed:  *)
(* edits of excluded members, the carried field's own included, never      *)
(* break it (verify_carried_id, derive_id).                                *)
IssuedIdsKeepVerifying ==
  \A issue \in issued :
    /\ checked # None
    /\ checked.algorithm = "jcs"
    /\ checked.exclusion = issue.exclusion
    /\ Carries(issue)
    /\ StillSays(issue)
    => IsVerified

(* No record verifies whose class leaves the carried field among the       *)
(* hashed members: no id can cover itself ("Must include carried_field     *)
(* when the field is self-referential").                                   *)
SelfReferenceNeverVerifies ==
  IsVerified /\ CarriesId => CarriedField \in checked.exclusion

(* A verification under the withdrawn algorithm rests on evidence for the  *)
(* very content it accepted, dated before the cutoff: evidence for another *)
(* record or another exclusion set does not carry over.                    *)
WithdrawnRestsOnItsEvidence ==
  IsVerified /\ checked.algorithm = "jcs-n" =>
    LET evidence == checked.vintage.evidence IN
    /\ evidence # None
    /\ {<<m, evidence.binds[m]>> : m \in DOMAIN evidence.binds}
         = Visible(record.members, checked.exclusion, "jcs-n")
    /\ evidence.reply.offset # None
    /\ evidence.reply.clock < Cutoff + evidence.reply.offset
=============================================================================
