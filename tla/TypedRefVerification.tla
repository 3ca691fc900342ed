------------------------ MODULE TypedRefVerification ------------------------
(***************************************************************************)
(* The typed-reference calls of lib/cpb/typed_ref.py, over the definitions *)
(* RegistrySnapshot hands out: verify_typed_ref_json, verify_cbor_typed_ref*)
(* and make_typed_ref_json.  A call runs through the library's functions   *)
(* in their order, one step per function, and any of them may raise.       *)
(* Between the steps the rest of the program goes on: snapshots are        *)
(* reloaded, documents edited, other definitions resolved.                 *)
(***************************************************************************)
EXTENDS RegistrySnapshot, Vintage

CONSTANTS
  ReferenceChoices,  \* references the caller may present
  TextChoices,       \* raw artifact texts
  VintageChoices     \* what it may pass as vintage evidence and callback

Forms == Representations \cup {"not-a-digest"}

References ==
  [type: TypeNames, digestAlg: {"SHA-256", "sha-256"}, form: Forms, digest: Objects,
   purpose: PurposeNames \cup {None}]

ASSUME CallAssumption ==
  /\ ReferenceChoices \subseteq References
  /\ TextChoices \subseteq Texts
  /\ Cutoff \in Nat
  /\ \A v \in VintageChoices :
       /\ v.hasVerifier \in BOOLEAN
       /\ v.evidence # None =>
            /\ v.evidence.binds \in Objects
            /\ v.evidence.reply.clock \in Int
            /\ v.evidence.reply.offset # None => v.evidence.reply.offset \in Int

(* How a call ends: the exceptions of the code, and its two successes.     *)
Errors ==
  {"ValueError", "JsonWireFormatError", "TypeError", "UnreproducibleNumberError",
   "DigestContextResolutionError", "PurposeRequiredError", "PurposeMismatchError",
   "UnsupportedRepresentationError", "TypedRefError", "UnsupportedDigestContextError",
   "DigestAlgorithmMismatchError", "RepresentationMismatchError", "ContextMismatchError",
   "VintageEvidenceError", "WithdrawnAlgorithmError"}
Outcomes == Errors \cup {"verified", "constructed"}

ASSUME OutcomeAssumption == None \notin Outcomes \cup {"refused"}

VARIABLES
  job,     \* the call in progress or its result; stage "idle" between calls
  emitted  \* the last constructed reference with what it was made from, or None

callVars == <<job, emitted>>
vars == <<source, snap, held, job, emitted>>

-----------------------------------------------------------------------------
(* Calls.                                                                  *)

Job(stage, request) ==
  [stage |-> stage, request |-> request, context |-> None, recomputed |-> None,
   outcome |-> None]
Idle == Job("idle", None)

IsAt(stage) == job.stage = stage

Begin(request) ==
  /\ Holds("definition")
  /\ IsAt("idle")
  /\ job' = Job("resolve", request)
  /\ UNCHANGED <<source, snap, held, emitted>>

Request(call, ref, text, purpose, vintage) ==
  [call |-> call, ref |-> ref, text |-> text, purpose |-> purpose, defn |-> held.defn,
   vintage |-> vintage]

BeginVerify(call, ref, text, vintage) ==
  Begin(Request(call, ref, text, None, vintage))

BeginConstruct(text, purpose) ==
  Begin(Request("construct", None, text, purpose, None))

Return(outcome) == job' = [job EXCEPT !.stage = "returned", !.outcome = outcome]

Proceed(stage) == job' = [job EXCEPT !.stage = stage]

(* Mutated form: the withdrawn algorithm is refused before the text is read. *)
SelectLiveThen(type, purpose, isJson, next) ==
  LET contexts == job.request.defn.contexts IN
  IF ~Resolves(contexts, type, purpose)
  THEN Return(SelectionError(contexts, type, purpose))
  ELSE LET c == Selected(contexts, type, purpose) IN
       IF job.request.call = "construct" /\ c.algorithm = "jcs-n"
       THEN Return("WithdrawnAlgorithmError")
       ELSE job' = [job EXCEPT !.stage = next, !.context = c]

(* _select_context and the raw-representation check.                       *)
SelectThen(type, purpose, isJson, next) ==
  LET contexts == job.request.defn.contexts IN
  IF ~Resolves(contexts, type, purpose)
  THEN Return(SelectionError(contexts, type, purpose))
  ELSE LET c == Selected(contexts, type, purpose) IN
       IF isJson /\ c.representation = "raw"
       THEN Return("UnsupportedRepresentationError")
       ELSE job' = [job EXCEPT !.stage = next, !.context = c]

(* _resolve_reference_context up to the selection.                         *)
ResolveForVerification ==
  /\ IsAt("resolve")
  /\ job.request.call # "construct"
  /\ LET ref == job.request.ref IN
     IF ~HasIntegrity(job.request.defn, TRUE)
     THEN Return("DigestContextResolutionError")
     ELSE SelectThen(ref.type, ref.purpose, job.request.call = "verify-json", "prepare")
  /\ UNCHANGED <<source, snap, held, emitted>>

ResolveForConstruction ==
  /\ IsAt("resolve")
  /\ job.request.call = "construct"
  /\ LET defn == job.request.defn IN
     IF ~HasIntegrity(defn, FALSE)
     THEN Return("DigestContextResolutionError")
     ELSE SelectThen(defn.name, job.request.purpose, TRUE, "recompute")
  /\ UNCHANGED <<source, snap, held, emitted>>

(* _prepare_reference: the reference's metadata against the context.       *)
PrepareError(ref, c) ==
  CASE c.name # ref.type -> "TypedRefError"
    [] c.name = ref.type /\ ref.purpose \notin {None, c.purpose} -> "PurposeMismatchError"
    [] OTHER ->
         IF ~IsExecutable(c) THEN "UnsupportedDigestContextError"
         ELSE IF ref.digestAlg # "SHA-256" THEN "DigestAlgorithmMismatchError"
         ELSE IF ref.form # c.representation THEN "RepresentationMismatchError"
         ELSE None

Prepare ==
  /\ IsAt("prepare")
  /\ LET error == PrepareError(job.request.ref, job.context) IN
     IF error # None THEN Return(error) ELSE Proceed("recompute")
  /\ UNCHANGED <<source, snap, held, emitted>>

(* _digest_json_for_context.                                               *)
RecomputeError(text, c) ==
  IF ~IsExecutable(c) THEN "UnsupportedDigestContextError"
  ELSE DigestError(text, c.exclusion, c.algorithm)

Recompute ==
  /\ IsAt("recompute")
  /\ LET c == job.context
         error == RecomputeError(job.request.text, c)
     IN  IF error # None THEN Return(error)
         ELSE job' = [job EXCEPT
                !.recomputed = HashedMembers(job.request.text.members, c.exclusion, c.algorithm),
                !.stage = IF job.request.call = "construct" THEN "emit" ELSE "compare"]
  /\ UNCHANGED <<source, snap, held, emitted>>

(* _compare_recomputed; then the vintage gate for jcs-n.                   *)
Compare ==
  /\ IsAt("compare")
  /\ IF job.recomputed # job.request.ref.digest THEN Return("ContextMismatchError")
     ELSE IF job.context.algorithm = "jcs-n" THEN Proceed("vintage")
     ELSE Return("verified")
  /\ UNCHANGED <<source, snap, held, emitted>>

CheckVintage ==
  /\ IsAt("vintage")
  /\ IF IsPreCutoff(job.request.vintage, job.recomputed)
     THEN Return("verified")
     ELSE Return("VintageEvidenceError")
  /\ UNCHANGED <<source, snap, held, emitted>>

(* Mutated forms: a hash token outside the profile; always the long form.  *)
ReferenceUnderAnotherToken(c, digest) ==
  [type |-> c.name, digestAlg |-> "sha256", form |-> c.representation,
   digest |-> digest, purpose |-> c.purpose]

PrefixedReference(c, digest) ==
  [type |-> c.name, digestAlg |-> "SHA-256", form |-> "sha256-prefixed",
   digest |-> digest, purpose |-> c.purpose]

NewReference(c, digest) ==
  [type |-> c.name, digestAlg |-> "SHA-256", form |-> c.representation,
   digest |-> digest, purpose |-> c.purpose]

(* The end of make_typed_ref_json: the withdrawn algorithm is refused only *)
(* now, after the raw text has passed the gate.                            *)
Emit ==
  /\ IsAt("emit")
  /\ IF job.context.algorithm = "jcs-n"
     THEN Return("WithdrawnAlgorithmError") /\ UNCHANGED emitted
     ELSE /\ Return("constructed")
          /\ emitted' = [ref |-> NewReference(job.context, job.recomputed),
                         text |-> job.request.text,
                         contexts |-> job.request.defn.contexts]
  /\ UNCHANGED <<source, snap, held>>

(* The caller takes the result.                                            *)
Collect ==
  /\ IsAt("returned")
  /\ job' = Idle
  /\ UNCHANGED <<source, snap, held, emitted>>

-----------------------------------------------------------------------------
CallInit == job = Idle /\ emitted = None

(* The caller presents a reference of its own, or the one just constructed.*)
BeginCallWith(texts, references, vintages) ==
  \/ \E call \in {"verify-json", "verify-cbor"}, text \in texts, vintage \in vintages :
       \/ \E ref \in references : BeginVerify(call, ref, text, vintage)
       \/ emitted # None /\ BeginVerify(call, emitted.ref, text, vintage)
  \/ \E text \in texts, purpose \in PurposeNames \cup {None} : BeginConstruct(text, purpose)

BeginCall == BeginCallWith(TextChoices, ReferenceChoices, VintageChoices)

CallStep ==
  \/ ResolveForVerification
  \/ ResolveForConstruction
  \/ Prepare
  \/ Recompute
  \/ Compare
  \/ CheckVintage
  \/ Emit
  \/ Collect

SystemInit == Init /\ CallInit

SystemNext ==
  \/ BeginCall
  \/ CallStep
  \/ Next /\ UNCHANGED callVars

SystemSpec == SystemInit /\ [][SystemNext]_vars

-----------------------------------------------------------------------------
(* Properties.                                                             *)

Stages == {"idle", "resolve", "prepare", "recompute", "compare", "vintage", "emit", "returned"}

(* The shape of a call: its definition and its selected context are values *)
(* the library's classes can hold.                                         *)
CallTypeOK ==
  /\ job.stage \in Stages
  /\ job.context \in Contexts \cup {None}
  /\ job.recomputed \in Objects \cup {None}
  /\ job.outcome \in Outcomes \cup {None}
  /\ ~IsAt("idle") => IsDefinition(job.request.defn)
  /\ emitted # None => emitted.ref \in References

Citation == INSTANCE CitedArtifact WITH
  pending <- IF IsAt("idle") THEN {} ELSE {job.request},
  verdict <-
    IF ~IsAt("returned") THEN None
    ELSE IF job.outcome \in {"verified", "constructed"} THEN job.outcome
    ELSE "refused"

(* Stage by stage, with its early returns, the library gives exactly the   *)
(* verdict the promise states: no reference is verified that is not        *)
(* justified, and none that is justified is refused.                       *)
ImplementsCitedArtifact == Citation!AbstractSpec

(* The safety half as an invariant: a verified reference is justified.     *)
VerifiedOnlyIfJustified ==
  IsAt("returned") /\ job.outcome = "verified" => Citation!Justified(job.request)

(* A verdict given through a registry snapshot rests on a body the caller  *)
(* pinned: that body registers the type as live and its row for the        *)
(* selected purpose fixes the algorithm and representation, even if the    *)
(* snapshot handle has been reloaded or its document edited since.         *)
VerifiedUnderThePinnedRegistration ==
  /\ IsAt("returned")
  /\ job.outcome = "verified"
  /\ IsAnchoredBy(job.request.defn, "registry-snapshot-sha256")
  => LET body == job.request.defn.anchor.digest
         entry == body.types[job.request.ref.type]
     IN  /\ body \in Pins
         /\ IsLive(entry)
         /\ \E row \in Range(entry.contexts) :
              /\ row.purpose = job.context.purpose
              /\ row.algorithm = job.context.algorithm
              /\ row.representation = job.request.ref.form

(* What the library constructed it also verifies: under any pinned         *)
(* definition with the same contexts, the emitted reference over the same  *)
(* text is never refused.                                                  *)
ConstructedReferencesVerify ==
  /\ IsAt("returned")
  /\ job.request.call # "construct"
  /\ emitted # None
  /\ job.request.ref = emitted.ref
  /\ job.request.text = emitted.text
  /\ job.request.defn.contexts = emitted.contexts
  /\ job.request.defn.anchor # None
  => job.outcome = "verified"

(* The raw gate runs before the withdrawal check: a text that repeats a    *)
(* member is refused as such, never as a use of the withdrawn algorithm    *)
(* (make_typed_ref_json).                                                  *)
GatePrecedesWithdrawal ==
  IsAt("returned") /\ job.outcome = "WithdrawnAlgorithmError" =>
    job.request.text.repeated = {} /\ job.request.text.form = "object"
=============================================================================
