----------------------------- MODULE CoseProofs -----------------------------
(***************************************************************************)
(* The invariants of CoseStatement, for any headers, pairs, payloads,      *)
(* options and limits, and however often a statement is changed and        *)
(* validated.                                                              *)
(***************************************************************************)
EXTENDS CoseStatement, TLAPS, WellFoundedInduction

-----------------------------------------------------------------------------
(* Lists of checks.                                                        *)

LEMMA UnlessHolds ==
  ASSUME NEW holds \in BOOLEAN, NEW error \in Errors
  PROVE  Unless(holds, error) = None <=> holds
BY NoneAssumption DEF Unless

(* A set of indices that is not empty has a first one.                     *)
LEMMA FirstIndex ==
  ASSUME NEW indices, indices \subseteq Nat, indices # {}
  PROVE  \E i \in indices : \A j \in indices : i <= j
<1>1. PICK i \in indices : \A j \in indices : ~ (<<j, i>> \in OpToRel(<, Nat))
  BY NatLessThanWellFounded, WFMin
<1>2. \A j \in indices : <<j, i>> \notin OpToRel(<, Nat) => i <= j
  BY DEF OpToRel
<1> QED BY <1>1, <1>2

(* A list of checks passes exactly when each of them does.                 *)
LEMMA FirstErrorIsNone ==
  ASSUME NEW errors, DOMAIN errors \subseteq Nat
  PROVE  FirstError(errors) = None <=> \A i \in DOMAIN errors : errors[i] = None
<1> DEFINE raised == {i \in DOMAIN errors : errors[i] # None}
           first == CHOOSE i \in raised : \A j \in raised : i <= j
<1>1. raised # {} => first \in raised
  BY FirstIndex
<1>2. FirstError(errors) = IF raised = {} THEN None ELSE errors[first]
  BY DEF FirstError
<1> QED BY <1>1, <1>2

LEMMA ListOfTwo ==
  ASSUME NEW a, NEW b
  PROVE  FirstError(<<a, b>>) = None <=> a = None /\ b = None
<1>1. DOMAIN <<a, b>> = {1, 2}
  OBVIOUS
<1> QED BY <1>1, FirstErrorIsNone

LEMMA ListOfThree ==
  ASSUME NEW a, NEW b, NEW c
  PROVE  FirstError(<<a, b, c>>) = None <=> a = None /\ b = None /\ c = None
<1>1. DOMAIN <<a, b, c>> = {1, 2, 3}
  OBVIOUS
<1> QED BY <1>1, FirstErrorIsNone

LEMMA ListOfFive ==
  ASSUME NEW a, NEW b, NEW c, NEW d, NEW e
  PROVE  FirstError(<<a, b, c, d, e>>) = None
           <=> a = None /\ b = None /\ c = None /\ d = None /\ e = None
<1>1. DOMAIN <<a, b, c, d, e>> = {1, 2, 3, 4, 5}
  OBVIOUS
<1> QED BY <1>1, FirstErrorIsNone

LEMMA ListOfSix ==
  ASSUME NEW a, NEW b, NEW c, NEW d, NEW e, NEW f
  PROVE  FirstError(<<a, b, c, d, e, f>>) = None
           <=> a = None /\ b = None /\ c = None /\ d = None /\ e = None /\ f = None
<1>1. DOMAIN <<a, b, c, d, e, f>> = {1, 2, 3, 4, 5, 6}
  OBVIOUS
<1> QED BY <1>1, FirstErrorIsNone

-----------------------------------------------------------------------------
(* Each validation, applied to the same statement without its unprotected  *)
(* header.                                                                 *)

IsBareOf(bare, cose) ==
  /\ bare.protected = cose.protected
  /\ bare.unprotected = <<>>
  /\ bare.payload = cose.payload

LEMMA NothingIsThere ==
  ASSUME NEW label PROVE ~Has(<<>>, label)
BY DEF Has

LEMMA BareHeaders ==
  ASSUME NEW cose, NEW bare, IsBareOf(bare, cose), NEW understood,
         HeadersError(cose, understood) = None
  PROVE  HeadersError(bare, understood) = None
<1>1. /\ LabelMapError(cose.protected) = None
      /\ Unless(CritIsSound(cose), "CriticalHeaderError") = None
      /\ Unless(Range(Crit(cose)) \subseteq understood, "CriticalHeaderError") = None
  BY ListOfSix DEF HeadersError
<1>2. bare.protected = cose.protected /\ bare.unprotected = <<>>
  BY DEF IsBareOf
<1>3. LabelMapError(bare.unprotected) = None
  <2>1. DOMAIN <<>> = {}
    OBVIOUS
  <2> QED BY <1>2, <2>1, FirstErrorIsNone DEF LabelMapError
<1>4. Crit(bare) = Crit(cose)
  BY <1>2 DEF Crit
<1>5. CritIsSound(bare) = CritIsSound(cose)
  BY <1>2, <1>4 DEF CritIsSound
<1>6. BucketsAreDisjoint(bare) /\ ~Has(bare.unprotected, "crit")
  BY <1>2, NothingIsThere DEF BucketsAreDisjoint
<1>7. /\ Unless(BucketsAreDisjoint(bare), "CoseHeaderError") = None
      /\ Unless(~Has(bare.unprotected, "crit"), "CriticalHeaderError") = None
  BY <1>6 DEF Unless
<1> QED BY <1>1, <1>2, <1>3, <1>4, <1>5, <1>7, ListOfSix DEF HeadersError

LEMMA BareBaseline ==
  ASSUME NEW cose, NEW bare, IsBareOf(bare, cose), BaselineError(cose) = None
  PROVE  BaselineError(bare) = None
<1>1. bare.protected = cose.protected /\ bare.unprotected = <<>>
  BY DEF IsBareOf
<1>2. HasProtectedCertificate(bare) = HasProtectedCertificate(cose)
  BY <1>1 DEF HasProtectedCertificate
<1>3. \A label, values : IsMissingOr(bare.unprotected, label, values)
  BY <1>1, NothingIsThere DEF IsMissingOr
<1>4. ~Has(bare.unprotected, "x5chain")
  BY <1>1, NothingIsThere
<1> QED BY <1>1, <1>2, <1>3, <1>4, NoneAssumption DEF BaselineError, Unless, Errors

LEMMA BareMode ==
  ASSUME NEW cose, NEW bare, IsBareOf(bare, cose), NEW options,
         ModeError(cose, options) = None
  PROVE  ModeError(bare, options) = None
<1>1. /\ bare.protected = cose.protected
      /\ bare.unprotected = <<>>
      /\ bare.payload = cose.payload
  BY DEF IsBareOf
<1>2. \A label : ~Has(bare.unprotected, label)
  BY <1>1, NothingIsThere
<1>3. FullContentHolds(cose) => FullContentHolds(bare)
  BY <1>1, <1>2 DEF FullContentHolds
<1>4. EffectivePayload(bare, options.detached) = EffectivePayload(cose, options.detached)
  BY <1>1 DEF EffectivePayload
<1>5. HashLabelsHold(cose, options) => HashLabelsHold(bare, options)
  BY <1>1, <1>2, <1>4 DEF HashLabelsHold
<1>6. HashEnvelopeHolds(cose, options) => HashEnvelopeHolds(bare, options)
  BY <1>1, <1>2, <1>5 DEF HashEnvelopeHolds
<1> QED BY <1>1, <1>3, <1>6, NoneAssumption DEF ModeError, Unless, Errors

LEMMA BareRefs ==
  ASSUME NEW cose, NEW bare, IsBareOf(bare, cose), NEW required, NEW critical
  PROVE  RefsError(bare, required, critical) = RefsError(cose, required, critical)
<1>1. bare.protected = cose.protected
  BY DEF IsBareOf
<1>2. Crit(bare) = Crit(cose) /\ Refs(bare) = Refs(cose)
  BY <1>1 DEF Crit, Refs
<1> QED BY <1>1, <1>2 DEF RefsError

(* What is accepted is accepted without the unprotected header.            *)
LEMMA BareStatement ==
  ASSUME NEW cose, NEW bare, IsBareOf(bare, cose), NEW options,
         StatementError(cose, options) = None
  PROVE  StatementError(bare, options) = None
<1>1. /\ HeadersError(cose, options.understood \cup ProcessedLabels) = None
      /\ BaselineError(cose) = None
      /\ ModeError(cose, options) = None
      /\ RefsError(cose, options.required, options.critical) = None
  BY ListOfFive DEF StatementError
<1>2. Unless(~Has(bare.unprotected, "refs"), "CpbRefsLocationError") = None
  BY NothingIsThere DEF IsBareOf, Unless
<1>3. /\ HeadersError(bare, options.understood \cup ProcessedLabels) = None
      /\ BaselineError(bare) = None
      /\ ModeError(bare, options) = None
      /\ RefsError(bare, options.required, options.critical) = None
  BY <1>1, BareHeaders, BareBaseline, BareMode, BareRefs
<1> QED BY <1>2, <1>3, ListOfFive DEF StatementError

LEMMA BareExtraction ==
  ASSUME NEW cose, NEW bare, IsBareOf(bare, cose), NEW options,
         ExtractError(cose, options) = None
  PROVE  ExtractError(bare, options) = None
<1>1. /\ HeadersError(cose, options.understood \cup {"refs"}) = None
      /\ RefsError(cose, options.required, options.critical) = None
  BY ListOfThree DEF ExtractError
<1>2. Unless(~Has(bare.unprotected, "refs"), "CpbRefsLocationError") = None
  BY NothingIsThere DEF IsBareOf, Unless
<1>3. /\ HeadersError(bare, options.understood \cup {"refs"}) = None
      /\ RefsError(bare, options.required, options.critical) = None
  BY <1>1, BareHeaders, BareRefs
<1> QED BY <1>2, <1>3, ListOfThree DEF ExtractError

-----------------------------------------------------------------------------
(* The inductive invariant.  The last answer is the one the statement as   *)
(* it now is gets (a relay discards it); and every acceptance so far took  *)
(* its references and its mode from the protected header, which no step    *)
(* changes.                                                                *)

StatementTypeOK ==
  statement \in [protected: ProtectedChoices, unprotected: Seq(UnprotectedPairs),
                 payload: Payloads \cup {None}]

AnswerTo(call, cose, options) ==
  IF call = "validate" THEN StatementError(cose, options) ELSE ExtractError(cose, options)

ResultIsCurrent ==
  result # None =>
    /\ result.call \in {"validate", "extract"}
    /\ result.error = AnswerTo(result.call, statement, result.options)

ModeFits(mode, cose) ==
  /\ mode \in Modes \cup {None}
  /\ mode = "full-content" => Has(cose.protected, "content-type")
  /\ mode = "hash-envelope" => ~Has(cose.protected, "content-type")

AcceptancesFit ==
  \A a \in accepted : a.refs = Refs(statement) /\ ModeFits(a.mode, statement)

CoseInv == StatementTypeOK /\ ResultIsCurrent /\ AcceptancesFit

LEMMA InitEstablishes == Init => CoseInv
<1> SUFFICES ASSUME Init PROVE CoseInv
  OBVIOUS
<1>1. StatementTypeOK
  <2>1. {<<>>} \subseteq Seq(UnprotectedPairs)
    OBVIOUS
  <2> QED BY <2>1 DEF Init, StatementTypeOK
<1>2. ResultIsCurrent /\ AcceptancesFit
  BY DEF Init, ResultIsCurrent, AcceptancesFit
<1> QED BY <1>1, <1>2 DEF CoseInv

(* A statement is validated under a mode only if its header allows it.     *)
LEMMA AcceptedModeFits ==
  ASSUME NEW cose, NEW options, options.mode \in Modes,
         StatementError(cose, options) = None
  PROVE  ModeFits(options.mode, cose)
<1>1. ModeError(cose, options) = None
  BY ListOfFive DEF StatementError
<1>2. /\ options.mode = "full-content" => FullContentHolds(cose)
      /\ options.mode = "hash-envelope" => HashEnvelopeHolds(cose, options)
  BY <1>1, NoneAssumption DEF ModeError, Unless, Errors
<1> QED BY <1>2 DEF ModeFits, FullContentHolds, HashEnvelopeHolds

(* Both calls: the answer is current, and an acceptance fits.              *)
LEMMA AnswerPreserves ==
  ASSUME CoseInv, NEW call \in {"validate", "extract"}, NEW options, NEW mode,
         Answer(call, options, AnswerTo(call, statement, options), mode),
         AnswerTo(call, statement, options) = None => ModeFits(mode, statement)
  PROVE  CoseInv'
<1> DEFINE error == AnswerTo(call, statement, options)
<1>1. /\ result' = [call |-> call, options |-> options, error |-> error]
      /\ accepted' = IF error = None
                     THEN accepted \cup {[mode |-> mode, refs |-> Refs(statement)]}
                     ELSE accepted
      /\ statement' = statement
  BY DEF Answer
<1>2. StatementTypeOK'
  BY <1>1 DEF CoseInv, StatementTypeOK
<1>3. ResultIsCurrent'
  BY <1>1 DEF ResultIsCurrent
<1>4. AcceptancesFit'
  <2>1. \A a \in accepted : a.refs = Refs(statement) /\ ModeFits(a.mode, statement)
    BY DEF CoseInv, AcceptancesFit
  <2>2. \A a \in accepted' : a.refs = Refs(statement) /\ ModeFits(a.mode, statement)
    BY <1>1, <2>1
  <2> QED BY <1>1, <2>2 DEF AcceptancesFit
<1> QED BY <1>2, <1>3, <1>4 DEF CoseInv

(* A relay leaves the protected header alone and voids the last answer.    *)
LEMMA RelayPreserves ==
  ASSUME CoseInv, NEW unprotected \in Seq(UnprotectedPairs),
         NEW payload \in Payloads \cup {None}, Relay(unprotected, payload)
  PROVE  CoseInv'
<1>1. /\ statement' = [statement EXCEPT !.unprotected = unprotected, !.payload = payload]
      /\ result' = None
      /\ accepted' = accepted
  BY DEF Relay
<1>2. StatementTypeOK' /\ statement'.protected = statement.protected
  BY <1>1 DEF CoseInv, StatementTypeOK
<1>3. ResultIsCurrent'
  BY <1>1 DEF ResultIsCurrent
<1>4. AcceptancesFit'
  <2>1. Refs(statement') = Refs(statement)
    BY <1>2 DEF Refs
  <2>2. \A mode : ModeFits(mode, statement') = ModeFits(mode, statement)
    BY <1>2 DEF ModeFits
  <2> QED BY <1>1, <2>1, <2>2 DEF CoseInv, AcceptancesFit
<1> QED BY <1>2, <1>3, <1>4 DEF CoseInv

LEMMA StepPreserves ==
  ASSUME CoseInv, [Next]_statementVars
  PROVE  CoseInv'
<1>1. /\ statement.unprotected \in Seq(UnprotectedPairs)
      /\ statement.payload \in Payloads \cup {None}
  BY DEF CoseInv, StatementTypeOK
<1>2. ASSUME NEW options \in OptionChoices, Validate(options)
      PROVE  CoseInv'
  <2>1. options.mode \in Modes
    BY StatementAssumption DEF Options
  <2>2. AnswerTo("validate", statement, options) = StatementError(statement, options)
    BY DEF AnswerTo
  <2>3. AnswerTo("validate", statement, options) = None => ModeFits(options.mode, statement)
    BY <2>1, <2>2, AcceptedModeFits
  <2>4. Answer("validate", options, AnswerTo("validate", statement, options), options.mode)
    BY <1>2, <2>2 DEF Validate
  <2> QED BY <2>3, <2>4, AnswerPreserves
<1>3. ASSUME NEW options \in OptionChoices, ExtractRefs(options)
      PROVE  CoseInv'
  <2>1. AnswerTo("extract", statement, options) = ExtractError(statement, options)
    BY DEF AnswerTo
  <2>2. ModeFits(None, statement)
    BY NoneAssumption DEF ModeFits, Modes
  <2>3. Answer("extract", options, AnswerTo("extract", statement, options), None)
    BY <1>3, <2>1 DEF ExtractRefs
  <2> QED BY <2>2, <2>3, AnswerPreserves
<1>4. CASE RelayAddsPair
  <2>1. PICK pair \in UnprotectedPairs :
          Relay(Append(statement.unprotected, pair), statement.payload)
    BY <1>4 DEF RelayAddsPair
  <2>2. Append(statement.unprotected, pair) \in Seq(UnprotectedPairs)
    BY <1>1
  <2> QED BY <1>1, <2>1, <2>2, RelayPreserves
<1>5. CASE RelayStripsUnprotected
  <2>1. <<>> \in Seq(UnprotectedPairs)
    OBVIOUS
  <2> QED BY <1>1, <1>5, <2>1, RelayPreserves DEF RelayStripsUnprotected
<1>6. CASE RelayMovesPayload
  BY <1>1, <1>6, RelayPreserves DEF RelayMovesPayload
<1>7. CASE UNCHANGED statementVars
  <2>1. statement' = statement /\ result' = result /\ accepted' = accepted
    BY <1>7 DEF statementVars
  <2> QED BY <2>1 DEF CoseInv, StatementTypeOK, ResultIsCurrent, AcceptancesFit
<1> QED BY <1>2, <1>3, <1>4, <1>5, <1>6, <1>7 DEF Next

-----------------------------------------------------------------------------
(* Theorems.                                                               *)

(* The last answer is current and every acceptance fits the signed header, *)
(* whatever calls and relays came before (lib/cpb/cose_refs.py).           *)
THEOREM CoseInvariant == Spec => []CoseInv
BY InitEstablishes, StepPreserves, PTL DEF Spec

(* All the acceptances of a statement agree on its references and on its   *)
(* mode (validate_cpb_statement_mode, _extract_cpb_refs_from_cose).        *)
THEOREM AcceptedAlike == Spec => []AcceptedAlikeEverywhere
<1>1. CoseInv => AcceptedAlikeEverywhere
  BY DEF CoseInv, AcceptancesFit, AcceptedAlikeEverywhere, ModeFits, Modes
<1> QED BY <1>1, CoseInvariant, PTL

(* What is accepted with an unprotected header is accepted without one     *)
(* (validate_cose_headers, validate_rfc9943_baseline and the two modes).   *)
THEOREM UnprotectedIsNoHelp == Spec => []UnprotectedNeverHelps
<1>1. ASSUME CoseInv PROVE UnprotectedNeverHelps
  <2> SUFFICES ASSUME IsAccepted PROVE UnprotectedNeverHelps
    BY DEF UnprotectedNeverHelps
  <2> DEFINE bare == [statement EXCEPT !.unprotected = <<>>]
  <2>1. IsBareOf(bare, statement)
    BY <1>1 DEF CoseInv, StatementTypeOK, IsBareOf
  <2>2. /\ result.call \in {"validate", "extract"}
        /\ AnswerTo(result.call, statement, result.options) = None
    BY <1>1 DEF CoseInv, ResultIsCurrent, IsAccepted
  <2>3. CASE result.call = "validate"
    <3>1. StatementError(bare, result.options) = None
      BY <2>1, <2>2, <2>3, BareStatement DEF AnswerTo
    <3> QED BY <2>3, <3>1 DEF UnprotectedNeverHelps
  <2>4. CASE result.call = "extract"
    <3>1. ExtractError(bare, result.options) = None
      BY <2>1, <2>2, <2>4, BareExtraction DEF AnswerTo
    <3> QED BY <2>4, <3>1 DEF UnprotectedNeverHelps
  <2> QED BY <2>2, <2>3, <2>4
<1> QED BY <1>1, CoseInvariant, PTL

(* The payload a validation checked is the one the signature covers        *)
(* (_effective_payload, cose_signature1_structure).                        *)
THEOREM CheckedIsSigned == Spec => []CheckedPayloadIsSigned
<1>1. ASSUME CoseInv PROVE CheckedPayloadIsSigned
  <2> SUFFICES ASSUME IsAccepted, result.call = "validate" PROVE CheckedPayloadIsSigned
    BY DEF CheckedPayloadIsSigned
  <2> DEFINE options == result.options
  <2>1. StatementError(statement, options) = None
    BY <1>1 DEF CoseInv, ResultIsCurrent, IsAccepted, AnswerTo
  <2>2. ModeError(statement, options) = None
    BY <2>1, ListOfFive DEF StatementError
  <2>3. /\ statement.payload = None \/ options.detached = None
        /\ options.mode = "hash-envelope" => HashEnvelopeHolds(statement, options)
    BY <2>2, NoneAssumption DEF ModeError, Unless, Errors
  <2> QED BY <2>3
          DEF CheckedPayloadIsSigned, SignedPayload, EffectivePayload, HashEnvelopeHolds,
              HashLabelsHold, DigestFits
<1> QED BY <1>1, CoseInvariant, PTL
=============================================================================
