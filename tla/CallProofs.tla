----------------------------- MODULE CallProofs -----------------------------
(***************************************************************************)
(* Proofs about the typed-reference calls: their verdicts are exactly the  *)
(* promised ones, for any registry, definitions, references, texts and     *)
(* evidence.  First the operators: each check of the library against the   *)
(* part of the promise it decides.                                         *)
(***************************************************************************)
EXTENDS TypedRefVerification, RegistryProofs

(* A call's position among the candidates is the meaning of the reference. *)
LEMMA MatchingIsMeant ==
  ASSUME NEW contexts, NEW type, NEW purpose, NEW i \in DOMAIN contexts,
         ~RepeatsPurpose(contexts, type), Matching(contexts, type, purpose) = {i}
  PROVE  Citation!MeansContext(contexts, type, purpose, contexts[i])
<1>1. i \in Matching(contexts, type, purpose)
  OBVIOUS
<1>2. contexts[i].name = type /\ purpose \in {None, contexts[i].purpose}
  BY <1>1 DEF Matching, Candidates
<1>3. \A j \in DOMAIN contexts : contexts[j].name = type =>
        j = i \/ (purpose # None /\ contexts[j].purpose # purpose)
  BY DEF Matching, Candidates
<1>4. \A j, k \in DOMAIN contexts :
        (contexts[j].name = type /\ contexts[k].name = type /\ j # k)
          => contexts[j].purpose # contexts[k].purpose
  BY DEF RepeatsPurpose, Candidates
<1> QED BY <1>2, <1>3, <1>4 DEF Citation!MeansContext

LEMMA MeantIsMatching ==
  ASSUME NEW contexts, NEW type, NEW purpose, NEW c,
         Citation!MeansContext(contexts, type, purpose, c)
  PROVE  /\ ~RepeatsPurpose(contexts, type)
         /\ \E i \in DOMAIN contexts :
              contexts[i] = c /\ Matching(contexts, type, purpose) = {i}
<1>1. ~RepeatsPurpose(contexts, type)
  BY DEF Citation!MeansContext, RepeatsPurpose, Candidates
<1>2. PICK i \in DOMAIN contexts :
        /\ contexts[i] = c /\ c.name = type
        /\ \A j \in DOMAIN contexts : contexts[j].name = type =>
             j = i \/ (purpose # None /\ contexts[j].purpose # purpose)
  BY DEF Citation!MeansContext
<1>3. purpose \in {None, c.purpose}
  BY DEF Citation!MeansContext
<1>4. Matching(contexts, type, purpose) = {i}
  BY <1>2, <1>3 DEF Matching, Candidates
<1> QED BY <1>1, <1>2, <1>4

(* _select_context finds the one context a reference means, or there is    *)
(* none.                                                                   *)
LEMMA SelectionIsMeaning ==
  ASSUME NEW contexts, NEW type, NEW purpose
  PROVE  /\ Resolves(contexts, type, purpose) =>
              /\ Selected(contexts, type, purpose) \in Range(contexts)
              /\ \A c : Citation!MeansContext(contexts, type, purpose, c)
                          <=> c = Selected(contexts, type, purpose)
         /\ ~Resolves(contexts, type, purpose) =>
              \A c : ~Citation!MeansContext(contexts, type, purpose, c)
<1> DEFINE n == CHOOSE i \in DOMAIN contexts : Matching(contexts, type, purpose) = {i}
<1>1. ASSUME Resolves(contexts, type, purpose)
      PROVE  n \in DOMAIN contexts /\ Matching(contexts, type, purpose) = {n}
  BY <1>1 DEF Resolves
<1>2. Selected(contexts, type, purpose) = contexts[n]
  BY DEF Selected
<1> HIDE DEF n
<1>3. ASSUME Resolves(contexts, type, purpose)
      PROVE  /\ contexts[n] \in Range(contexts)
             /\ Citation!MeansContext(contexts, type, purpose, contexts[n])
  BY <1>1, <1>3, MatchingIsMeant DEF Resolves, Range
<1>4. ASSUME Resolves(contexts, type, purpose), NEW c,
             Citation!MeansContext(contexts, type, purpose, c)
      PROVE  c = contexts[n]
  <2>1. PICK i \in DOMAIN contexts :
          contexts[i] = c /\ Matching(contexts, type, purpose) = {i}
    BY <1>4, MeantIsMatching
  <2>2. i = n
    BY <1>1, <1>4, <2>1
  <2> QED BY <2>1, <2>2
<1>5. ASSUME NEW c, Citation!MeansContext(contexts, type, purpose, c)
      PROVE  Resolves(contexts, type, purpose)
  BY <1>5, MeantIsMatching DEF Resolves
<1> QED BY <1>2, <1>3, <1>4, <1>5

(* A text has a digest exactly when it is reproducible: the order in which *)
(* gate and serializer look decides the exception only.                    *)
LEMMA GateIsReproducibility ==
  ASSUME NEW text \in Texts, NEW c \in Contexts
  PROVE  RecomputeError(text, c) = None <=> Citation!IsReproducible(text, c)
<1> DEFINE members == text.members
<1>1. \A m \in DOMAIN members : members[m].kind \in Kinds
  <2>1. PICK names \in SUBSET MemberNames : members \in [names -> Values]
    BY DEF Texts, Objects
  <2> QED BY <2>1 DEF Values
<1>2. text.form \in {"object", "not-an-object", "malformed"}
  BY DEF Texts
<1>3. ApplicableViolations(text, c.algorithm) = {}
        <=> /\ text.repeated = {}
            /\ c.algorithm = "jcs-n" =>
                 \A m \in DOMAIN members : members[m].kind \notin {"float", "unsafe"}
  <2>1. /\ "duplicate_key" \in WireViolations(text) <=> text.repeated # {}
        /\ "number_token_form" \in WireViolations(text)
             <=> \E v \in Range(members) : v.kind = "float"
        /\ "unsafe_integer" \in WireViolations(text)
             <=> \E v \in Range(members) : v.kind = "unsafe"
    BY DEF WireViolations
  <2>2. \A code \in WireViolations(text) :
          code \in {"duplicate_key", "number_token_form", "unsafe_integer"}
    BY DEF WireViolations
  <2> QED BY <2>1, <2>2 DEF ApplicableViolations, Range
<1>4. SerializeError(members, c.exclusion, c.algorithm) = None
        <=> \A m \in DOMAIN members \ c.exclusion :
              /\ members[m].kind # "unsafe"
              /\ ~(members[m].kind = "float" /\ c.algorithm = "jcs-n")
  BY OutcomeAssumption DEF SerializeError, Kept, Outcomes, Errors
<1>5. RecomputeError(text, c) = None
        <=> /\ c.exclusion # None /\ c.algorithm \in {"jcs", "jcs-n"}
            /\ text.form = "object"
            /\ ApplicableViolations(text, c.algorithm) = {}
            /\ SerializeError(members, c.exclusion, c.algorithm) = None
  BY <1>2, OutcomeAssumption
     DEF RecomputeError, IsExecutable, SupportedAlgorithms, DigestError, ParseError,
         Outcomes, Errors
<1>6. Citation!IsReproducible(text, c)
        <=> /\ c.exclusion # None /\ c.algorithm \in {"jcs", "jcs-n"}
            /\ text.form = "object" /\ text.repeated = {}
            /\ c.algorithm = "jcs" =>
                 \A m \in DOMAIN members \ c.exclusion : members[m].kind # "unsafe"
            /\ c.algorithm = "jcs-n" =>
                 \A m \in DOMAIN members : members[m].kind \in {"plain", "empty"}
  BY DEF Citation!IsReproducible, Citation!Range
<1> HIDE DEF members
<1>7. \A m \in DOMAIN members :
        members[m].kind \in {"plain", "empty"}
          <=> members[m].kind \notin {"float", "unsafe"}
  BY <1>1 DEF Kinds
<1>8. CASE c.algorithm = "jcs"
  BY <1>3, <1>4, <1>5, <1>6, <1>8
<1>9. CASE c.algorithm = "jcs-n"
  BY <1>3, <1>4, <1>5, <1>6, <1>7, <1>9
<1> QED BY <1>5, <1>6, <1>8, <1>9

(* Functions are equal when their graphs are.                              *)
LEMMA GraphsTellFunctions ==
  ASSUME NEW f \in Objects, NEW g \in Objects
  PROVE  Citation!GraphOf(f) = Citation!GraphOf(g) <=> f = g
<1> SUFFICES ASSUME Citation!GraphOf(f) = Citation!GraphOf(g) PROVE f = g
  OBVIOUS
<1>1. f = [m \in DOMAIN f |-> f[m]] /\ g = [m \in DOMAIN g |-> g[m]]
  BY DEF Objects
<1>2. ASSUME NEW p \in Objects, NEW q \in Objects,
             Citation!GraphOf(p) = Citation!GraphOf(q), NEW m \in DOMAIN p
      PROVE  m \in DOMAIN q /\ p[m] = q[m]
  <2>1. <<m, p[m]>> \in Citation!GraphOf(q)
    BY <1>2 DEF Citation!GraphOf
  <2>2. PICK n \in DOMAIN q : <<m, p[m]>> = <<n, q[n]>>
    BY <2>1 DEF Citation!GraphOf
  <2> QED BY <2>2
<1>3. DOMAIN f = DOMAIN g /\ \A m \in DOMAIN f : f[m] = g[m]
  BY <1>2
<1> QED BY <1>1, <1>3

LEMMA HashedIsObject ==
  ASSUME NEW members \in Objects, NEW exclusion, NEW algorithm
  PROVE  HashedMembers(members, exclusion, algorithm) \in Objects
<1> DEFINE kept == {m \in Kept(members, exclusion) :
                      algorithm = "jcs-n" => members[m].kind # "empty"}
<1>1. PICK names \in SUBSET MemberNames : members \in [names -> Values]
  BY DEF Objects
<1>2. kept \subseteq names
  BY <1>1 DEF Kept
<1>3. HashedMembers(members, exclusion, algorithm) = [m \in kept |-> members[m]]
  BY DEF HashedMembers, Restrict
<1> HIDE DEF kept
<1>4. HashedMembers(members, exclusion, algorithm) \in [kept -> Values]
  BY <1>1, <1>2, <1>3
<1> QED BY <1>2, <1>4 DEF Objects

(* The recomputed digest is the carried one exactly when that is the digest*)
(* of what remains of the object.                                          *)
LEMMA DigestIsRemains ==
  ASSUME NEW text \in Texts, NEW c \in Contexts, Citation!IsReproducible(text, c),
         NEW digest \in Objects
  PROVE  HashedMembers(text.members, c.exclusion, c.algorithm) = digest
           <=> Citation!GraphOf(digest) = Citation!Remains(text, c)
<1> DEFINE members == text.members
           p == HashedMembers(members, c.exclusion, c.algorithm)
           kept == {m \in Kept(members, c.exclusion) :
                      c.algorithm = "jcs-n" => members[m].kind # "empty"}
           visible == {m \in DOMAIN members :
                         /\ m \notin c.exclusion
                         /\ c.algorithm = "jcs-n" => members[m].kind = "plain"}
<1>1. members \in Objects
  BY DEF Texts
<1>2. c.algorithm = "jcs-n" => \A m \in DOMAIN members : members[m].kind \in {"plain", "empty"}
  BY DEF Citation!IsReproducible, Citation!Range
<1>3. kept = visible
  BY <1>2 DEF Kept
<1>4. p = [m \in kept |-> members[m]]
  BY DEF HashedMembers, Restrict
<1>5. Citation!Remains(text, c) = {<<m, members[m]>> : m \in visible}
  BY DEF Citation!Remains
<1> HIDE DEF kept, visible, members
<1>6. Citation!GraphOf(p) = Citation!Remains(text, c)
  BY <1>3, <1>4, <1>5 DEF Citation!GraphOf
<1>7. p \in Objects
  BY <1>1, HashedIsObject
<1>8. p = digest <=> Citation!GraphOf(digest) = Citation!Remains(text, c)
  <2> HIDE DEF p
  <2> QED BY <1>6, <1>7, GraphsTellFunctions
<1> QED BY <1>8 DEF members

(* The vintage gate lets exactly evidence of pre-cutoff vintage pass: the  *)
(* offset is on the other side of the comparison.                          *)
LEMMA GateIsVintage ==
  ASSUME NEW vintage \in VintageChoices, NEW digest
  PROVE  IsPreCutoff(vintage, digest) <=> Citation!HasPreCutoffVintage(vintage, digest)
<1> DEFINE reply == vintage.evidence.reply
<1>1. vintage.hasVerifier \in BOOLEAN /\ Cutoff \in Int
  BY CallAssumption
<1>2. vintage.evidence # None => /\ reply.clock \in Int
                                 /\ reply.offset # None => reply.offset \in Int
  BY CallAssumption
<1>3. vintage.evidence # None /\ reply.offset # None =>
        (reply.clock - reply.offset < Cutoff <=> reply.clock < Cutoff + reply.offset)
  BY <1>1, <1>2
<1>4. CASE vintage.evidence.binds = digest
  <2>1. CallbackReply(vintage.evidence, digest) = reply
    BY <1>4 DEF CallbackReply
  <2> HIDE DEF reply
  <2> QED BY <1>1, <1>3, <1>4, <2>1 DEF IsPreCutoff, Citation!HasPreCutoffVintage, Utc, reply
<1>5. CASE vintage.evidence.binds # digest
  <2>1. CallbackReply(vintage.evidence, digest).kind = "exception"
    BY <1>5 DEF CallbackReply, Reply
  <2> QED BY <1>5, <2>1 DEF IsPreCutoff, Citation!HasPreCutoffVintage
<1> QED BY <1>4, <1>5

-----------------------------------------------------------------------------
(* Whole calls.                                                            *)

(* The definition a call was given, as the registry invariant leaves it.   *)
DefinitionOK(d) ==
  /\ IsDefinition(d)
  /\ HasIntegrity(d, FALSE)
  /\ IsAnchoredBy(d, "registry-snapshot-sha256") => IsCompleteFor(d, d.anchor.digest)

RequestOK(r) ==
  /\ r.call \in {"verify-json", "verify-cbor", "construct"}
  /\ r.text \in Texts
  /\ DefinitionOK(r.defn)
  /\ r.call = "construct" => r.purpose \in PurposeNames \cup {None}
  /\ r.call # "construct" => r.ref \in References /\ r.vintage \in VintageChoices

(* What resolution leaves of a request: the context is the one it means.   *)
Chosen(r, c) ==
  IF r.call = "construct"
  THEN /\ Resolves(r.defn.contexts, r.defn.name, r.purpose)
       /\ c = Selected(r.defn.contexts, r.defn.name, r.purpose)
       /\ c.representation # "raw"
  ELSE /\ r.defn.anchor # None
       /\ Resolves(r.defn.contexts, r.ref.type, r.ref.purpose)
       /\ c = Selected(r.defn.contexts, r.ref.type, r.ref.purpose)
       /\ r.call = "verify-json" => c.representation # "raw"

LEMMA ChosenIsContext ==
  ASSUME NEW r, RequestOK(r), NEW c, Chosen(r, c)
  PROVE  /\ c \in Contexts /\ c \in Range(r.defn.contexts)
         /\ c.name = r.defn.name
<1>1. c \in Range(r.defn.contexts)
  BY SelectionIsMeaning DEF Chosen
<1>2. r.defn.contexts \in Seq(Contexts)
  BY DEF RequestOK, DefinitionOK, IsDefinition
<1>3. \A i \in DOMAIN r.defn.contexts :
        r.defn.contexts[i] \in Contexts /\ r.defn.contexts[i].name = r.defn.name
  BY <1>2 DEF RequestOK, DefinitionOK, HasIntegrity
<1> QED BY <1>1, <1>3 DEF Range

(* A reference is justified exactly when a context is chosen and every     *)
(* check of the chain passes.                                              *)
LEMMA JustifiedIsChecked ==
  ASSUME NEW r, RequestOK(r), r.call # "construct"
  PROVE  /\ \A c : Chosen(r, c) =>
              (Citation!Justified(r)
                 <=> /\ PrepareError(r.ref, c) = None
                     /\ RecomputeError(r.text, c) = None
                     /\ HashedMembers(r.text.members, c.exclusion, c.algorithm) = r.ref.digest
                     /\ c.algorithm = "jcs-n" => IsPreCutoff(r.vintage, r.ref.digest))
         /\ (\A c : ~Chosen(r, c)) => ~Citation!Justified(r)
<1> DEFINE Means(c) ==
             Citation!MeansContext(r.defn.contexts, r.ref.type, r.ref.purpose, c)
           Fits(c) ==
             /\ Citation!IsReproducible(r.text, c)
             /\ r.ref.digestAlg = "SHA-256"
             /\ r.ref.form = c.representation
             /\ Citation!GraphOf(r.ref.digest) = Citation!Remains(r.text, c)
             /\ r.call = "verify-json" => r.ref.form # "raw"
             /\ c.algorithm = "jcs-n" =>
                  Citation!HasPreCutoffVintage(r.vintage, r.ref.digest)
<1>1. Citation!Justified(r)
        <=> r.defn.anchor # None /\ \E c \in Range(r.defn.contexts) : Means(c) /\ Fits(c)
  BY DEF Citation!Justified, Citation!Range, Range
<1>2. /\ r.text \in Texts /\ r.ref \in References /\ r.ref.digest \in Objects
      /\ r.vintage \in VintageChoices
  BY DEF RequestOK, References
<1>3. ASSUME NEW c, Chosen(r, c)
      PROVE  Citation!Justified(r)
               <=> /\ PrepareError(r.ref, c) = None
                   /\ RecomputeError(r.text, c) = None
                   /\ HashedMembers(r.text.members, c.exclusion, c.algorithm) = r.ref.digest
                   /\ c.algorithm = "jcs-n" => IsPreCutoff(r.vintage, r.ref.digest)
  <2>1. /\ r.defn.anchor # None
        /\ c \in Range(r.defn.contexts) /\ c \in Contexts
        /\ \A d : Means(d) <=> d = c
        /\ r.call = "verify-json" => c.representation # "raw"
    BY <1>3, SelectionIsMeaning, ChosenIsContext DEF Chosen
  <2>2. Citation!Justified(r) <=> Fits(c)
    <3> HIDE DEF Means, Fits
    <3> QED BY <1>1, <2>1
  <2>3. RecomputeError(r.text, c) = None <=> Citation!IsReproducible(r.text, c)
    BY <1>2, <2>1, GateIsReproducibility
  <2>4. c.name = r.ref.type /\ r.ref.purpose \in {None, c.purpose}
    BY <2>1 DEF Citation!MeansContext
  <2>5. PrepareError(r.ref, c) = None
          <=> /\ IsExecutable(c) /\ r.ref.digestAlg = "SHA-256"
              /\ r.ref.form = c.representation
    BY <2>4, OutcomeAssumption DEF PrepareError, Outcomes, Errors
  <2>6. RecomputeError(r.text, c) = None => IsExecutable(c)
    BY OutcomeAssumption DEF RecomputeError, Outcomes, Errors
  <2>7. RecomputeError(r.text, c) = None =>
          (HashedMembers(r.text.members, c.exclusion, c.algorithm) = r.ref.digest
             <=> Citation!GraphOf(r.ref.digest) = Citation!Remains(r.text, c))
    BY <1>2, <2>1, <2>3, DigestIsRemains
  <2>8. IsPreCutoff(r.vintage, r.ref.digest)
          <=> Citation!HasPreCutoffVintage(r.vintage, r.ref.digest)
    BY <1>2, GateIsVintage
  <2> QED BY <2>1, <2>2, <2>3, <2>5, <2>6, <2>7, <2>8
<1>4. ASSUME Citation!Justified(r)
      PROVE  \E c : Chosen(r, c)
  <2>1. PICK c \in Range(r.defn.contexts) : Means(c) /\ Fits(c)
    BY <1>1, <1>4
  <2>2. /\ Resolves(r.defn.contexts, r.ref.type, r.ref.purpose)
        /\ c = Selected(r.defn.contexts, r.ref.type, r.ref.purpose)
    BY <2>1, SelectionIsMeaning
  <2>3. r.call = "verify-json" => c.representation # "raw"
    BY <2>1
  <2> QED BY <1>1, <1>4, <2>2, <2>3 DEF Chosen
<1> QED BY <1>3, <1>4

LEMMA ConstructibleIsChecked ==
  ASSUME NEW r, RequestOK(r), r.call = "construct"
  PROVE  /\ \A c : Chosen(r, c) =>
              (Citation!Constructible(r)
                 <=> RecomputeError(r.text, c) = None /\ c.algorithm # "jcs-n")
         /\ (\A c : ~Chosen(r, c)) => ~Citation!Constructible(r)
<1> DEFINE Means(c) ==
             Citation!MeansContext(r.defn.contexts, r.defn.name, r.purpose, c)
           Fits(c) ==
             /\ Citation!IsReproducible(r.text, c)
             /\ c.algorithm = "jcs"
             /\ c.representation # "raw"
<1>1. Citation!Constructible(r)
        <=> \E c \in Range(r.defn.contexts) : Means(c) /\ Fits(c)
  BY DEF Citation!Constructible, Citation!Range, Range
<1>2. r.text \in Texts
  BY DEF RequestOK
<1>3. ASSUME NEW c, Chosen(r, c)
      PROVE  Citation!Constructible(r)
               <=> RecomputeError(r.text, c) = None /\ c.algorithm # "jcs-n"
  <2>1. /\ c \in Range(r.defn.contexts) /\ c \in Contexts
        /\ \A d : Means(d) <=> d = c
        /\ c.representation # "raw"
    BY <1>3, SelectionIsMeaning, ChosenIsContext DEF Chosen
  <2>2. Citation!Constructible(r) <=> Fits(c)
    <3> HIDE DEF Means, Fits
    <3> QED BY <1>1, <2>1
  <2>3. RecomputeError(r.text, c) = None <=> Citation!IsReproducible(r.text, c)
    BY <1>2, <2>1, GateIsReproducibility
  <2>4. Citation!IsReproducible(r.text, c) => c.algorithm \in {"jcs", "jcs-n"}
    BY DEF Citation!IsReproducible
  <2> QED BY <2>1, <2>2, <2>3, <2>4
<1>4. ASSUME Citation!Constructible(r)
      PROVE  \E c : Chosen(r, c)
  <2>1. PICK c \in Range(r.defn.contexts) : Means(c) /\ Fits(c)
    BY <1>1, <1>4
  <2>2. /\ Resolves(r.defn.contexts, r.defn.name, r.purpose)
        /\ c = Selected(r.defn.contexts, r.defn.name, r.purpose)
    BY <2>1, SelectionIsMeaning
  <2> QED BY <2>1, <2>2 DEF Chosen
<1> QED BY <1>3, <1>4

-----------------------------------------------------------------------------
(* The inductive invariant.  A finished call has the promised verdict only *)
(* because every stage remembers what the earlier ones established: which  *)
(* context was chosen, and that the reference's metadata and the text      *)
(* passed.                                                                 *)

VerdictOf(outcome) ==
  IF outcome \in {"verified", "constructed"} THEN outcome ELSE "refused"

StageFits(j) ==
  LET r == j.request
      c == j.context
  IN  /\ j.stage \in {"prepare", "recompute", "compare", "vintage", "emit"} => Chosen(r, c)
      /\ j.stage \in {"prepare", "compare", "vintage"} => r.call # "construct"
      /\ j.stage = "emit" => r.call = "construct"
      /\ j.stage \in {"recompute", "compare", "vintage"} /\ r.call # "construct" =>
           PrepareError(r.ref, c) = None
      /\ j.stage \in {"compare", "vintage", "emit"} =>
           /\ RecomputeError(r.text, c) = None
           /\ j.recomputed = HashedMembers(r.text.members, c.exclusion, c.algorithm)
      /\ j.stage = "vintage" => j.recomputed = r.ref.digest /\ c.algorithm = "jcs-n"

Decided(j) ==
  /\ j.outcome \in Outcomes
  /\ VerdictOf(j.outcome) = Citation!Judgement(j.request)
  /\ j.outcome = "verified" =>
       /\ Chosen(j.request, j.context) /\ j.request.call # "construct"
       /\ PrepareError(j.request.ref, j.context) = None
  /\ j.outcome = "WithdrawnAlgorithmError" =>
       j.request.text.repeated = {} /\ j.request.text.form = "object"

CallFits(j) ==
  /\ j = [stage |-> j.stage, request |-> j.request, context |-> j.context,
          recomputed |-> j.recomputed, outcome |-> j.outcome]
  /\ j.stage \in Stages
  /\ j.context \in Contexts \cup {None}
  /\ j.recomputed \in Objects \cup {None}
  /\ j.outcome \in Outcomes \cup {None}
  /\ j.stage # "idle" => RequestOK(j.request)
  /\ StageFits(j)
  /\ j.stage = "returned" => Decided(j)

(* A refusal is right when the request deserves one.                       *)
Refusals == Errors \ {"WithdrawnAlgorithmError"}

LEMMA Refused ==
  ASSUME NEW j, CallFits(j), j.stage # "idle", NEW error \in Refusals,
         Citation!Judgement(j.request) = "refused",
         NEW k, k = [j EXCEPT !.stage = "returned", !.outcome = error]
  PROVE  CallFits(k)
<1>1. k = [stage |-> "returned", request |-> j.request, context |-> j.context,
           recomputed |-> j.recomputed, outcome |-> error]
  BY DEF CallFits
<1>2. /\ k.stage = "returned" /\ k.request = j.request /\ k.context = j.context
      /\ k.recomputed = j.recomputed /\ k.outcome = error
  BY <1>1
<1>3. error \in Outcomes /\ VerdictOf(error) = "refused"
      /\ error \notin {"verified", "WithdrawnAlgorithmError"}
  BY DEF Refusals, Errors, Outcomes, VerdictOf
<1>4. StageFits(k) /\ Decided(k)
  BY <1>2, <1>3 DEF StageFits, Decided
<1> QED BY <1>1, <1>2, <1>3, <1>4 DEF CallFits, Stages

(* The errors of each check.                                               *)
LEMMA ErrorsOfTheChecks ==
  /\ \A contexts, type, purpose : SelectionError(contexts, type, purpose) \in Refusals
  /\ \A ref, c : PrepareError(ref, c) \in Refusals \cup {None}
  /\ \A text, c : RecomputeError(text, c) \in Refusals \cup {None}
<1>1. ASSUME NEW contexts, NEW type, NEW purpose
      PROVE  SelectionError(contexts, type, purpose) \in Refusals
  BY DEF SelectionError, Refusals, Errors
<1>2. ASSUME NEW ref, NEW c PROVE PrepareError(ref, c) \in Refusals \cup {None}
  BY DEF PrepareError, Refusals, Errors
<1>3. ASSUME NEW text, NEW c PROVE RecomputeError(text, c) \in Refusals \cup {None}
  BY DEF RecomputeError, DigestError, ParseError, SerializeError, Refusals, Errors
<1> QED BY <1>1, <1>2, <1>3

(* Resolution: the context is chosen, or there is none to choose.          *)
LEMMA SelectionFits ==
  ASSUME CallFits(job), job.stage = "resolve",
         NEW type, NEW purpose, NEW isJson \in BOOLEAN, NEW next,
         LET r == job.request IN
           IF r.call = "construct"
           THEN type = r.defn.name /\ purpose = r.purpose /\ isJson /\ next = "recompute"
           ELSE /\ type = r.ref.type /\ purpose = r.ref.purpose /\ r.defn.anchor # None
                /\ isJson <=> r.call = "verify-json"
                /\ next = "prepare",
         SelectThen(type, purpose, isJson, next)
  PROVE  CallFits(job')
<1> DEFINE r == job.request
           c == Selected(r.defn.contexts, type, purpose)
           found == Resolves(r.defn.contexts, type, purpose)
                      /\ ~(isJson /\ c.representation = "raw")
<1>1. RequestOK(r)
  BY DEF CallFits
<1>2. \A d : Chosen(r, d) <=> found /\ d = c
  BY DEF Chosen
<1>3. CASE found
  <2>1. job' = [job EXCEPT !.stage = next, !.context = c]
    BY <1>3 DEF SelectThen
  <2>2. job' = [stage |-> next, request |-> r, context |-> c,
                recomputed |-> job.recomputed, outcome |-> job.outcome]
    BY <2>1 DEF CallFits
  <2>3. Chosen(r, c) /\ c \in Contexts
    BY <1>1, <1>2, <1>3, ChosenIsContext
  <2>4. next \in {"prepare", "recompute"}
        /\ (next = "prepare" <=> r.call # "construct")
    OBVIOUS
  <2> HIDE DEF r, c
  <2>5. StageFits(job')
    BY <2>2, <2>3, <2>4 DEF StageFits
  <2> QED BY <1>1, <2>2, <2>3, <2>4, <2>5 DEF CallFits, Stages
<1>4. CASE ~found
  <2>1. Citation!Judgement(r) = "refused"
    <3>1. \A d : ~Chosen(r, d)
      BY <1>2, <1>4
    <3> QED BY <1>1, <3>1, JustifiedIsChecked, ConstructibleIsChecked DEF Citation!Judgement
  <2>2. PICK error \in Refusals : Return(error)
    <3>1. "UnsupportedRepresentationError" \in Refusals
      BY DEF Refusals, Errors
    <3> QED BY <1>4, <3>1, ErrorsOfTheChecks DEF SelectThen
  <2> QED BY <2>1, <2>2, Refused DEF Return
<1> QED BY <1>3, <1>4

LEMMA ResolutionFits ==
  ASSUME CallFits(job), ResolveForVerification \/ ResolveForConstruction
  PROVE  CallFits(job')
<1> DEFINE r == job.request
<1>1. RequestOK(r) /\ job.stage = "resolve"
  BY DEF CallFits, ResolveForVerification, ResolveForConstruction, IsAt
<1>2. CASE ResolveForConstruction
  <2>1. HasIntegrity(r.defn, FALSE) /\ r.call = "construct"
    BY <1>1, <1>2 DEF ResolveForConstruction, RequestOK, DefinitionOK
  <2>2. SelectThen(r.defn.name, r.purpose, TRUE, "recompute")
    BY <1>2, <2>1 DEF ResolveForConstruction
  <2> QED BY <1>1, <2>1, <2>2, SelectionFits
<1>3. CASE ResolveForVerification
  <2>1. r.call # "construct"
    BY <1>3 DEF ResolveForVerification
  <2>2. HasIntegrity(r.defn, TRUE) <=> r.defn.anchor # None
    BY <1>1 DEF RequestOK, DefinitionOK, HasIntegrity
  <2>3. CASE r.defn.anchor # None
    <3>1. SelectThen(r.ref.type, r.ref.purpose, r.call = "verify-json", "prepare")
      BY <1>3, <2>2, <2>3 DEF ResolveForVerification
    <3>2. PICK isJson \in BOOLEAN : isJson = (r.call = "verify-json")
      OBVIOUS
    <3>3. SelectThen(r.ref.type, r.ref.purpose, isJson, "prepare")
      BY <3>1, <3>2
    <3> QED BY <1>1, <2>1, <2>3, <3>2, <3>3, SelectionFits
  <2>4. CASE r.defn.anchor = None
    <3>1. Return("DigestContextResolutionError")
      BY <1>3, <2>2, <2>4 DEF ResolveForVerification
    <3>2. Citation!Judgement(r) = "refused"
      BY <2>1, <2>4 DEF Citation!Judgement, Citation!Justified
    <3>3. "DigestContextResolutionError" \in Refusals
      BY DEF Refusals, Errors
    <3> QED BY <1>1, <3>1, <3>2, <3>3, Refused DEF Return
  <2> QED BY <2>3, <2>4
<1> QED BY <1>2, <1>3

LEMMA PreparationFits ==
  ASSUME CallFits(job), Prepare
  PROVE  CallFits(job')
<1> DEFINE r == job.request
           c == job.context
           error == PrepareError(r.ref, c)
<1>1. /\ RequestOK(r) /\ job.stage = "prepare" /\ Chosen(r, c) /\ r.call # "construct"
  BY DEF CallFits, StageFits, Prepare, IsAt
<1>2. CASE error # None
  <2>1. Citation!Judgement(r) = "refused"
    BY <1>1, <1>2, JustifiedIsChecked DEF Citation!Judgement
  <2>2. Return(error) /\ error \in Refusals
    BY <1>2, ErrorsOfTheChecks DEF Prepare
  <2> HIDE DEF error
  <2> QED BY <1>1, <2>1, <2>2, Refused DEF Return
<1>3. CASE error = None
  <2>1. job' = [job EXCEPT !.stage = "recompute"]
    BY <1>3 DEF Prepare, Proceed
  <2>2. job' = [stage |-> "recompute", request |-> r, context |-> c,
                recomputed |-> job.recomputed, outcome |-> job.outcome]
    BY <2>1 DEF CallFits
  <2> HIDE DEF r, c
  <2>3. StageFits(job')
    BY <1>1, <1>3, <2>2 DEF StageFits
  <2> QED BY <1>1, <2>2, <2>3 DEF CallFits, Stages, r, c
<1> QED BY <1>2, <1>3

LEMMA RecomputationFits ==
  ASSUME CallFits(job), Recompute
  PROVE  CallFits(job')
<1> DEFINE r == job.request
           c == job.context
           error == RecomputeError(r.text, c)
           digest == HashedMembers(r.text.members, c.exclusion, c.algorithm)
<1>1. /\ RequestOK(r) /\ job.stage = "recompute" /\ Chosen(r, c)
      /\ r.call # "construct" => PrepareError(r.ref, c) = None
  BY DEF CallFits, StageFits, Recompute, IsAt
<1>2. CASE error # None
  <2>1. Citation!Judgement(r) = "refused"
    BY <1>1, <1>2, JustifiedIsChecked, ConstructibleIsChecked DEF Citation!Judgement
  <2>2. Return(error) /\ error \in Refusals
    BY <1>2, ErrorsOfTheChecks DEF Recompute
  <2> HIDE DEF error
  <2> QED BY <1>1, <2>1, <2>2, Refused DEF Return
<1>3. CASE error = None
  <2> DEFINE next == IF r.call = "construct" THEN "emit" ELSE "compare"
  <2>1. job' = [job EXCEPT !.recomputed = digest, !.stage = next]
    BY <1>3 DEF Recompute
  <2> HIDE DEF digest, next
  <2>2. job' = [stage |-> next, request |-> r, context |-> c,
                recomputed |-> digest, outcome |-> job.outcome]
    BY <2>1 DEF CallFits
  <2>3. r.text.members \in Objects
    BY <1>1 DEF RequestOK, Texts
  <2>4. digest \in Objects
    BY <2>3, HashedIsObject DEF digest
  <2>5. next \in {"emit", "compare"} /\ (next = "emit" <=> r.call = "construct")
    BY DEF next
  <2> HIDE DEF r, c
  <2>6. StageFits(job')
    BY <1>1, <1>3, <2>2, <2>5 DEF StageFits, digest
  <2> QED BY <1>1, <2>2, <2>4, <2>5, <2>6 DEF CallFits, Stages, r, c
<1> QED BY <1>2, <1>3

(* A verification that went through every check is justified.              *)
LEMMA VerifiedIsDecided ==
  ASSUME NEW j, CallFits(j), j.stage # "idle", Chosen(j.request, j.context),
         PrepareError(j.request.ref, j.context) = None,
         Citation!Justified(j.request), j.request.call # "construct",
         NEW k, k = [j EXCEPT !.stage = "returned", !.outcome = "verified"]
  PROVE  CallFits(k)
<1>1. k = [stage |-> "returned", request |-> j.request, context |-> j.context,
           recomputed |-> j.recomputed, outcome |-> "verified"]
  BY DEF CallFits
<1>2. /\ k.stage = "returned" /\ k.request = j.request /\ k.context = j.context
      /\ k.recomputed = j.recomputed /\ k.outcome = "verified"
  BY <1>1
<1>3. "verified" \in Outcomes /\ VerdictOf("verified") = "verified"
  BY DEF Outcomes, VerdictOf
<1>4. StageFits(k) /\ Decided(k)
  BY <1>2, <1>3 DEF StageFits, Decided, Citation!Judgement
<1> QED BY <1>1, <1>2, <1>3, <1>4 DEF CallFits, Stages

LEMMA ComparisonFits ==
  ASSUME CallFits(job), Compare
  PROVE  CallFits(job')
<1> DEFINE r == job.request
           c == job.context
<1>1. /\ RequestOK(r) /\ job.stage = "compare" /\ Chosen(r, c) /\ r.call # "construct"
      /\ PrepareError(r.ref, c) = None /\ RecomputeError(r.text, c) = None
      /\ job.recomputed = HashedMembers(r.text.members, c.exclusion, c.algorithm)
  BY DEF CallFits, StageFits, Compare, IsAt
<1>2. CASE job.recomputed # r.ref.digest
  <2>1. Citation!Judgement(r) = "refused"
    BY <1>1, <1>2, JustifiedIsChecked DEF Citation!Judgement
  <2>2. Return("ContextMismatchError") /\ "ContextMismatchError" \in Refusals
    BY <1>2 DEF Compare, Refusals, Errors
  <2> QED BY <1>1, <2>1, <2>2, Refused DEF Return
<1>3. CASE job.recomputed = r.ref.digest /\ c.algorithm = "jcs-n"
  <2>1. job' = [job EXCEPT !.stage = "vintage"]
    BY <1>3 DEF Compare, Proceed
  <2>2. job' = [stage |-> "vintage", request |-> r, context |-> c,
                recomputed |-> job.recomputed, outcome |-> job.outcome]
    BY <2>1 DEF CallFits
  <2> HIDE DEF r, c
  <2>3. StageFits(job')
    BY <1>1, <1>3, <2>2 DEF StageFits
  <2> QED BY <1>1, <2>2, <2>3 DEF CallFits, Stages, r, c
<1>4. CASE job.recomputed = r.ref.digest /\ c.algorithm # "jcs-n"
  <2>1. Citation!Justified(r)
    BY <1>1, <1>4, JustifiedIsChecked
  <2>2. Return("verified")
    BY <1>4 DEF Compare
  <2> QED BY <1>1, <2>1, <2>2, VerifiedIsDecided DEF Return
<1> QED BY <1>2, <1>3, <1>4

LEMMA VintageFits ==
  ASSUME CallFits(job), CheckVintage
  PROVE  CallFits(job')
<1> DEFINE r == job.request
           c == job.context
<1>1. /\ RequestOK(r) /\ job.stage = "vintage" /\ Chosen(r, c) /\ r.call # "construct"
      /\ PrepareError(r.ref, c) = None /\ RecomputeError(r.text, c) = None
      /\ job.recomputed = HashedMembers(r.text.members, c.exclusion, c.algorithm)
      /\ job.recomputed = r.ref.digest /\ c.algorithm = "jcs-n"
  BY DEF CallFits, StageFits, CheckVintage, IsAt
<1>2. Citation!Justified(r) <=> IsPreCutoff(r.vintage, job.recomputed)
  BY <1>1, JustifiedIsChecked
<1>3. CASE IsPreCutoff(r.vintage, job.recomputed)
  <2>1. Return("verified")
    BY <1>3 DEF CheckVintage
  <2> QED BY <1>1, <1>2, <1>3, <2>1, VerifiedIsDecided DEF Return
<1>4. CASE ~IsPreCutoff(r.vintage, job.recomputed)
  <2>1. Citation!Judgement(r) = "refused"
    BY <1>1, <1>2, <1>4 DEF Citation!Judgement
  <2>2. Return("VintageEvidenceError") /\ "VintageEvidenceError" \in Refusals
    BY <1>4 DEF CheckVintage, Refusals, Errors
  <2> QED BY <1>1, <2>1, <2>2, Refused DEF Return
<1> QED BY <1>3, <1>4

-----------------------------------------------------------------------------
(* What was constructed: a live reference to its text, that its own        *)
(* contexts resolve.                                                       *)
EmittedFits ==
  emitted # None =>
    \E c \in Contexts :
      /\ emitted.text \in Texts
      /\ Citation!MeansContext(emitted.contexts, c.name, c.purpose, c)
      /\ RecomputeError(emitted.text, c) = None
      /\ c.algorithm # "jcs-n" /\ c.representation # "raw"
      /\ emitted.ref =
           NewReference(c, HashedMembers(emitted.text.members, c.exclusion, c.algorithm))

LEMMA EmittedIsReference ==
  ASSUME EmittedFits, emitted # None
  PROVE  emitted.ref \in References
<1>1. PICK c \in Contexts :
        /\ emitted.text \in Texts
        /\ emitted.ref =
             NewReference(c, HashedMembers(emitted.text.members, c.exclusion, c.algorithm))
  BY DEF EmittedFits
<1> DEFINE digest == HashedMembers(emitted.text.members, c.exclusion, c.algorithm)
<1>2. emitted.text.members \in Objects
  BY <1>1 DEF Texts
<1>3. digest \in Objects
  BY <1>2, HashedIsObject
<1> HIDE DEF digest
<1>4. emitted.ref = NewReference(c, digest)
  BY <1>1 DEF digest
<1> QED BY <1>3, <1>4 DEF NewReference, References, Contexts, Forms

LEMMA EmissionFits ==
  ASSUME CallFits(job), EmittedFits, Emit
  PROVE  CallFits(job') /\ EmittedFits'
<1> DEFINE r == job.request
           c == job.context
           digest == HashedMembers(r.text.members, c.exclusion, c.algorithm)
<1>1. /\ RequestOK(r) /\ job.stage = "emit" /\ Chosen(r, c) /\ r.call = "construct"
      /\ RecomputeError(r.text, c) = None /\ job.recomputed = digest
  BY DEF CallFits, StageFits, Emit, IsAt
<1>2. c \in Contexts /\ c.name = r.defn.name /\ r.text \in Texts
  BY <1>1, ChosenIsContext DEF RequestOK
<1>3. Citation!Constructible(r) <=> c.algorithm # "jcs-n"
  BY <1>1, ConstructibleIsChecked
<1>4. ASSUME NEW o, o \in Outcomes, o # "verified",
             VerdictOf(o) = Citation!Judgement(r), Return(o)
      PROVE  CallFits(job')
  <2>1. job' = [stage |-> "returned", request |-> r, context |-> c,
                recomputed |-> job.recomputed, outcome |-> o]
    BY <1>4 DEF Return, CallFits
  <2>2. r.text.repeated = {} /\ r.text.form = "object"
    BY <1>1, <1>2, GateIsReproducibility DEF Citation!IsReproducible
  <2> HIDE DEF r, c
  <2>3. StageFits(job') /\ Decided(job')
    BY <1>4, <2>1, <2>2 DEF StageFits, Decided
  <2> QED BY <1>1, <1>4, <2>1, <2>3 DEF CallFits, Stages, r, c
<1>5. CASE c.algorithm = "jcs-n"
  <2>1. Return("WithdrawnAlgorithmError") /\ UNCHANGED emitted
    BY <1>5 DEF Emit
  <2>2. VerdictOf("WithdrawnAlgorithmError") = Citation!Judgement(r)
    BY <1>1, <1>3, <1>5 DEF VerdictOf, Citation!Judgement
  <2>3. CallFits(job')
    BY <1>4, <2>1, <2>2 DEF Outcomes, Errors
  <2> QED BY <2>1, <2>3 DEF EmittedFits
<1>6. CASE c.algorithm # "jcs-n"
  <2>1. /\ Return("constructed")
        /\ emitted' = [ref |-> NewReference(c, digest), text |-> r.text,
                       contexts |-> r.defn.contexts]
    BY <1>1, <1>6 DEF Emit
  <2>2. VerdictOf("constructed") = Citation!Judgement(r)
    BY <1>1, <1>3, <1>6 DEF VerdictOf, Citation!Judgement
  <2>3. CallFits(job')
    BY <1>4, <2>1, <2>2 DEF Outcomes
  <2>4. Citation!MeansContext(r.defn.contexts, c.name, r.purpose, c)
    BY <1>1, <1>2, SelectionIsMeaning DEF Chosen
  <2>5. c.purpose # None
    BY <1>2, NoneAssumption DEF Contexts
  <2>6. Citation!MeansContext(r.defn.contexts, c.name, c.purpose, c)
    BY <2>4, <2>5 DEF Citation!MeansContext
  <2>7. c.representation # "raw"
    BY <1>1 DEF Chosen
  <2>8. /\ emitted'.text = r.text /\ emitted'.contexts = r.defn.contexts
        /\ emitted'.ref = NewReference(c, digest)
    BY <2>1
  <2>9. EmittedFits'
    <3> HIDE DEF c, r
    <3> QED BY <1>1, <1>2, <1>6, <2>6, <2>7, <2>8 DEF EmittedFits
  <2> QED BY <2>3, <2>9
<1> QED BY <1>5, <1>6

(* A new call takes its definition from the caller's hands.                *)
LEMMA HeldIsRight ==
  ASSUME RegistryInv, Holds("definition")
  PROVE  DefinitionOK(held.defn)
<1>1. held # None /\ held.kind = "definition" /\ held \notin Answers
  BY DEF Holds, Answers
<1>2. IsDefinition(held.defn)
  BY <1>1 DEF RegistryInv, TypeOK
<1> QED BY <1>2 DEF RegistryInv, AnchoredDefinitionsAreComplete,
       DefinitionsAreBoundToTheirPin, DefinitionOK

LEMMA BegunFits ==
  ASSUME RegistryInv, CallFits(job), EmittedFits, BeginCall
  PROVE  CallFits(job') /\ EmittedFits' /\ job'.stage = "resolve" /\ job.stage = "idle"
<1>1. Holds("definition") /\ DefinitionOK(held.defn)
  BY HeldIsRight DEF BeginCall, BeginCallWith, BeginVerify, BeginConstruct, Begin
<1>2. ASSUME NEW r, RequestOK(r), Begin(r)
      PROVE  CallFits(job') /\ EmittedFits' /\ job'.stage = "resolve" /\ job.stage = "idle"
  <2>1. job' = [stage |-> "resolve", request |-> r, context |-> None,
                recomputed |-> None, outcome |-> None]
        /\ emitted' = emitted /\ job.stage = "idle"
    BY <1>2 DEF Begin, Job, IsAt
  <2>2. StageFits(job')
    BY <2>1 DEF StageFits
  <2>3. CallFits(job')
    BY <1>2, <2>1, <2>2 DEF CallFits, Stages
  <2> QED BY <2>1, <2>3 DEF EmittedFits
<1>3. ASSUME NEW call \in {"verify-json", "verify-cbor"}, NEW text \in TextChoices,
             NEW vintage \in VintageChoices, NEW ref \in References,
             BeginVerify(call, ref, text, vintage)
      PROVE  CallFits(job') /\ EmittedFits' /\ job'.stage = "resolve" /\ job.stage = "idle"
  <2>1. text \in Texts
    BY CallAssumption
  <2>2. RequestOK(Request(call, ref, text, None, vintage))
    BY <1>1, <2>1 DEF RequestOK, Request
  <2> QED BY <1>2, <1>3, <2>2 DEF BeginVerify
<1>4. ASSUME NEW text \in TextChoices, NEW purpose \in PurposeNames \cup {None},
             BeginConstruct(text, purpose)
      PROVE  CallFits(job') /\ EmittedFits' /\ job'.stage = "resolve" /\ job.stage = "idle"
  <2>1. text \in Texts
    BY CallAssumption
  <2>2. RequestOK(Request("construct", None, text, purpose, None))
    BY <1>1, <2>1 DEF RequestOK, Request
  <2> QED BY <1>2, <1>4, <2>2 DEF BeginConstruct
<1>5. ReferenceChoices \subseteq References
  BY CallAssumption
<1> QED BY <1>3, <1>4, <1>5, EmittedIsReference DEF BeginCall, BeginCallWith

-----------------------------------------------------------------------------
(* The system: the registry goes on while a call is in progress, and a     *)
(* call leaves the registry alone.                                         *)
SystemInv == RegistryInv /\ CallFits(job) /\ EmittedFits

Works ==
  \/ ResolveForVerification \/ ResolveForConstruction \/ Prepare \/ Recompute
  \/ Compare \/ CheckVintage \/ Emit

(* A step of the work goes on with the same request, to an answer or to the*)
(* next stage.                                                             *)
LEMMA WorkGoesOn ==
  ASSUME CallFits(job), Works
  PROVE  /\ job.stage \notin {"idle", "returned"}
         /\ job'.request = job.request /\ job'.stage # "idle"
         /\ UNCHANGED registryVars
<1>1. job.stage \notin {"idle", "returned"} /\ UNCHANGED registryVars
  BY DEF Works, ResolveForVerification, ResolveForConstruction, Prepare, Recompute,
         Compare, CheckVintage, Emit, IsAt, registryVars
<1> SUFFICES job'.request = job.request /\ job'.stage # "idle"
  BY <1>1
<1>2. ASSUME NEW o, Return(o) PROVE job'.request = job.request /\ job'.stage # "idle"
  <2>1. job' = [stage |-> "returned", request |-> job.request, context |-> job.context,
                recomputed |-> job.recomputed, outcome |-> o]
    BY <1>2 DEF Return, CallFits
  <2> QED BY <2>1
<1>3. ASSUME NEW next \in {"recompute", "vintage"}, Proceed(next)
      PROVE  job'.request = job.request /\ job'.stage # "idle"
  <2>1. job' = [stage |-> next, request |-> job.request, context |-> job.context,
                recomputed |-> job.recomputed, outcome |-> job.outcome]
    BY <1>3 DEF Proceed, CallFits
  <2> QED BY <2>1
<1>4. ASSUME NEW type, NEW purpose, NEW isJson \in BOOLEAN,
             NEW next \in {"prepare", "recompute"}, SelectThen(type, purpose, isJson, next)
      PROVE  job'.request = job.request /\ job'.stage # "idle"
  <2>1. ASSUME NEW c, job' = [job EXCEPT !.stage = next, !.context = c]
        PROVE  job'.request = job.request /\ job'.stage # "idle"
    <3>1. job' = [stage |-> next, request |-> job.request, context |-> c,
                  recomputed |-> job.recomputed, outcome |-> job.outcome]
      BY <2>1 DEF CallFits
    <3> QED BY <3>1
  <2> QED BY <1>2, <1>4, <2>1 DEF SelectThen
<1>5. CASE ResolveForVerification
  <2>1. PICK isJson \in BOOLEAN : isJson = (job.request.call = "verify-json")
    OBVIOUS
  <2> QED BY <1>2, <1>4, <1>5, <2>1 DEF ResolveForVerification
<1>6. CASE ResolveForConstruction
  BY <1>2, <1>4, <1>6 DEF ResolveForConstruction
<1>7. CASE Prepare
  BY <1>2, <1>3, <1>7 DEF Prepare
<1>8. CASE Recompute
  <2>1. ASSUME NEW digest, NEW next \in {"emit", "compare"},
               job' = [job EXCEPT !.recomputed = digest, !.stage = next]
        PROVE  job'.request = job.request /\ job'.stage # "idle"
    <3>1. job' = [stage |-> next, request |-> job.request, context |-> job.context,
                  recomputed |-> digest, outcome |-> job.outcome]
      BY <2>1 DEF CallFits
    <3> QED BY <3>1
  <2> QED BY <1>2, <1>8, <2>1 DEF Recompute
<1>9. CASE Compare
  BY <1>2, <1>3, <1>9 DEF Compare
<1>10. CASE CheckVintage
  BY <1>2, <1>10 DEF CheckVintage
<1>11. CASE Emit
  BY <1>2, <1>11 DEF Emit
<1> QED BY <1>5, <1>6, <1>7, <1>8, <1>9, <1>10, <1>11 DEF Works

LEMMA WorkFits ==
  ASSUME CallFits(job), EmittedFits, Works
  PROVE  CallFits(job') /\ EmittedFits'
<1>1. CASE Emit
  BY <1>1, EmissionFits
<1>2. CASE ~Emit
  <2>1. EmittedFits'
    BY <1>2 DEF Works, ResolveForVerification, ResolveForConstruction, Prepare, Recompute,
                Compare, CheckVintage, EmittedFits
  <2> QED BY <1>2, <2>1, ResolutionFits, PreparationFits, RecomputationFits,
             ComparisonFits, VintageFits DEF Works
<1> QED BY <1>1, <1>2

LEMMA IdleFits == CallFits(Idle)
<1>1. Idle = [stage |-> "idle", request |-> None, context |-> None, recomputed |-> None,
              outcome |-> None]
  BY DEF Idle, Job
<1>2. StageFits(Idle)
  BY <1>1 DEF StageFits
<1> QED BY <1>1, <1>2 DEF CallFits, Stages

LEMMA SystemStarts == SystemInit => SystemInv
<1> SUFFICES ASSUME SystemInit PROVE SystemInv
  OBVIOUS
<1>1. RegistryInv
  BY InitEstablishes DEF SystemInit
<1>2. CallFits(job)
  BY IdleFits DEF SystemInit, CallInit
<1>3. EmittedFits
  BY DEF SystemInit, CallInit, EmittedFits
<1> QED BY <1>1, <1>2, <1>3 DEF SystemInv

LEMMA SystemStep ==
  ASSUME SystemInv, [SystemNext]_vars
  PROVE  SystemInv'
<1>1. RegistryInv /\ CallFits(job) /\ EmittedFits
  BY DEF SystemInv
<1>2. UNCHANGED registryVars => RegistryInv'
  BY <1>1, StepPreserves
<1>3. RegistryInv' /\ CallFits(job') /\ EmittedFits' => SystemInv'
  BY DEF SystemInv
<1>4. CASE BeginCall
  <2>1. UNCHANGED registryVars
    BY <1>4 DEF BeginCall, BeginCallWith, BeginVerify, BeginConstruct, Begin, registryVars
  <2> QED BY <1>1, <1>2, <1>3, <1>4, <2>1, BegunFits
<1>5. CASE Works
  BY <1>1, <1>2, <1>3, <1>5, WorkFits, WorkGoesOn
<1>6. CASE Collect
  <2>1. UNCHANGED registryVars /\ job' = Idle /\ UNCHANGED emitted
    BY <1>6 DEF Collect, registryVars
  <2>2. CallFits(job') /\ EmittedFits'
    BY <1>1, <2>1, IdleFits DEF EmittedFits
  <2> QED BY <1>2, <1>3, <2>1, <2>2
<1>7. CASE [Next]_registryVars /\ UNCHANGED callVars
  <2>1. CallFits(job') /\ EmittedFits'
    BY <1>1, <1>7 DEF callVars, EmittedFits
  <2> QED BY <1>1, <1>3, <1>7, <2>1, StepPreserves
<1> QED BY <1>4, <1>5, <1>6, <1>7
     DEF SystemNext, CallStep, Works, vars, callVars, registryVars

(* The library keeps the invariant whatever the registry, the caller and   *)
(* the calls do, in any order.                                             *)
THEOREM SystemInvariant == SystemSpec => []SystemInv
BY SystemStarts, SystemStep, PTL DEF SystemSpec

-----------------------------------------------------------------------------
(* The calls keep their types.                                             *)
THEOREM CallsAreTyped == SystemSpec => []CallTypeOK
<1>1. ASSUME SystemInv PROVE CallTypeOK
  <2>1. CallFits(job) /\ EmittedFits
    BY <1>1 DEF SystemInv
  <2>2. job.stage # "idle" => IsDefinition(job.request.defn)
    BY <2>1 DEF CallFits, RequestOK, DefinitionOK
  <2> QED BY <2>1, <2>2, EmittedIsReference DEF CallFits, CallTypeOK, IsAt
<1> QED BY <1>1, SystemInvariant, PTL

(* verify_typed_ref_json and verify_cbor_typed_ref return only for a       *)
(* reference that is justified.                                            *)
THEOREM VerifiedIsJustified == SystemSpec => []VerifiedOnlyIfJustified
<1>1. ASSUME SystemInv, IsAt("returned"), job.outcome = "verified"
      PROVE  Citation!Justified(job.request)
  <2>1. Decided(job)
    BY <1>1 DEF SystemInv, CallFits, IsAt
  <2>2. Citation!Judgement(job.request) = "verified" /\ job.request.call # "construct"
    BY <1>1, <2>1 DEF Decided, VerdictOf
  <2> QED BY <2>2 DEF Citation!Judgement
<1>2. SystemInv => VerifiedOnlyIfJustified
  BY <1>1 DEF VerifiedOnlyIfJustified
<1> QED BY <1>2, SystemInvariant, PTL

(* The raw gate decides before the withdrawal does (make_typed_ref_json).  *)
THEOREM GateComesFirst == SystemSpec => []GatePrecedesWithdrawal
<1>1. SystemInv => GatePrecedesWithdrawal
  BY DEF SystemInv, CallFits, Decided, GatePrecedesWithdrawal, IsAt
<1> QED BY <1>1, SystemInvariant, PTL

(* A verdict through a snapshot rests on a pinned, live registration,      *)
(* whatever has become of the snapshot since (artifact_type_definition,    *)
(* verify_typed_ref_json).                                                 *)
THEOREM VerifiedUnderThePin == SystemSpec => []VerifiedUnderThePinnedRegistration
<1>1. ASSUME SystemInv, IsAt("returned"), job.outcome = "verified",
             IsAnchoredBy(job.request.defn, "registry-snapshot-sha256")
      PROVE  LET body == job.request.defn.anchor.digest
                 entry == body.types[job.request.ref.type]
             IN  /\ body \in Pins
                 /\ IsLive(entry)
                 /\ \E row \in Range(entry.contexts) :
                      /\ row.purpose = job.context.purpose
                      /\ row.algorithm = job.context.algorithm
                      /\ row.representation = job.request.ref.form
  <2> DEFINE r == job.request
             c == job.context
             d == r.defn
             body == d.anchor.digest
             entry == body.types[d.name]
  <2>1. /\ RequestOK(r) /\ Chosen(r, c) /\ r.call # "construct"
        /\ PrepareError(r.ref, c) = None
    BY <1>1 DEF SystemInv, CallFits, Decided, IsAt
  <2>2. IsCompleteFor(d, body) /\ d.name \in TypeNames /\ d.contexts \in Seq(Contexts)
    BY <1>1, <2>1 DEF RequestOK, DefinitionOK, IsDefinition
  <2>3. c \in Range(d.contexts) /\ c.name = d.name
    BY <2>1, ChosenIsContext
  <2>4. c.name = r.ref.type /\ r.ref.form = c.representation
    BY <2>1, OutcomeAssumption DEF PrepareError, Outcomes, Errors
  <2>5. body \in Pins /\ IsLive(entry) /\ Len(d.contexts) = Len(entry.contexts)
    BY <2>2 DEF IsCompleteFor
  <2>6. entry \in TypeEntries
    BY <2>2, <2>5, PinsAssumption, BodiesAssumption DEF IsBody, IsLive
  <2>7. entry.contexts \in Seq(Rows)
    BY <2>6 DEF TypeEntries
  <2>8. PICK i \in DOMAIN d.contexts : d.contexts[i] = c
    BY <2>3 DEF Range
  <2>9. i \in 1 .. Len(entry.contexts) /\ i \in DOMAIN entry.contexts
    <3>1. PICK contexts \in Seq(Contexts), rows \in Seq(Rows) :
            contexts = d.contexts /\ rows = entry.contexts
      BY <2>2, <2>7
    <3>2. i \in DOMAIN contexts /\ Len(contexts) = Len(rows)
      BY <2>5, <2>8, <3>1
    <3>3. i \in 1 .. Len(rows) /\ i \in DOMAIN rows
      BY <3>2
    <3> QED BY <3>1, <3>3
  <2>10. /\ c.purpose = entry.contexts[i].purpose
         /\ c.algorithm = entry.contexts[i].algorithm
         /\ c.representation = entry.contexts[i].representation
    BY <2>2, <2>8, <2>9 DEF IsCompleteFor
  <2>11. entry.contexts[i] \in Range(entry.contexts)
    BY <2>9 DEF Range
  <2>12. entry = body.types[r.ref.type]
    BY <2>3, <2>4
  <2> HIDE DEF r, c, d, body, entry
  <2>13. /\ body \in Pins
         /\ IsLive(entry)
         /\ \E row \in Range(entry.contexts) :
              /\ row.purpose = c.purpose
              /\ row.algorithm = c.algorithm
              /\ row.representation = r.ref.form
    BY <2>4, <2>5, <2>10, <2>11
  <2> QED BY <2>12, <2>13 DEF r, c, d, body
<1>2. SystemInv => VerifiedUnderThePinnedRegistration
  BY <1>1 DEF VerifiedUnderThePinnedRegistration
<1> QED BY <1>2, SystemInvariant, PTL

(* What make_typed_ref_json constructed, every verification under a pinned *)
(* definition with the same contexts accepts.                              *)
THEOREM ConstructedIsVerified == SystemSpec => []ConstructedReferencesVerify
<1>1. ASSUME SystemInv, IsAt("returned"), job.request.call # "construct",
             emitted # None, job.request.ref = emitted.ref,
             job.request.text = emitted.text,
             job.request.defn.contexts = emitted.contexts,
             job.request.defn.anchor # None
      PROVE  job.outcome = "verified"
  <2> DEFINE r == job.request
  <2>1. RequestOK(r) /\ Decided(job)
    BY <1>1 DEF SystemInv, CallFits, IsAt
  <2>2. PICK c \in Contexts :
          /\ Citation!MeansContext(r.defn.contexts, c.name, c.purpose, c)
          /\ RecomputeError(r.text, c) = None
          /\ c.algorithm # "jcs-n" /\ c.representation # "raw"
          /\ r.ref = NewReference(c, HashedMembers(r.text.members, c.exclusion, c.algorithm))
    BY <1>1 DEF SystemInv, EmittedFits
  <2>3. /\ r.ref.type = c.name /\ r.ref.purpose = c.purpose
        /\ r.ref.digestAlg = "SHA-256" /\ r.ref.form = c.representation
        /\ r.ref.digest = HashedMembers(r.text.members, c.exclusion, c.algorithm)
    BY <2>2 DEF NewReference
  <2>4. Chosen(r, c)
    BY <1>1, <2>2, <2>3, SelectionIsMeaning DEF Chosen
  <2>5. IsExecutable(c)
    BY <2>2, OutcomeAssumption DEF RecomputeError, Outcomes, Errors
  <2>6. PrepareError(r.ref, c) = None
    BY <2>3, <2>5 DEF PrepareError
  <2>7. Citation!Judgement(r) = "verified"
    BY <1>1, <2>1, <2>2, <2>3, <2>4, <2>6, JustifiedIsChecked DEF Citation!Judgement
  <2> QED BY <2>1, <2>7 DEF Decided, VerdictOf
<1>2. SystemInv => ConstructedReferencesVerify
  BY <1>1 DEF ConstructedReferencesVerify
<1> QED BY <1>2, SystemInvariant, PTL

-----------------------------------------------------------------------------
(* Refinement: the stages of a call are stutters of the promise until the  *)
(* one that returns, which decides.                                        *)
LEMMA WorkRefines ==
  ASSUME CallFits(job), CallFits(job'), Works
  PROVE  [Citation!AbstractNext]_Citation!abstractVars
<1>1. /\ job.stage \notin {"idle", "returned"}
      /\ job'.request = job.request /\ job'.stage # "idle"
  BY WorkGoesOn
<1>2. CASE job'.stage # "returned"
  BY <1>1, <1>2 DEF Citation!abstractVars, IsAt
<1>3. CASE job'.stage = "returned"
  <2>1. VerdictOf(job'.outcome) = Citation!Judgement(job.request)
    BY <1>1, <1>3 DEF CallFits, Decided
  <2>2. Citation!Decide
    BY <1>1, <1>3, <2>1 DEF Citation!Decide, IsAt, VerdictOf
  <2> QED BY <2>2 DEF Citation!AbstractNext
<1> QED BY <1>2, <1>3

LEMMA StepRefines ==
  ASSUME SystemInv, SystemInv', [SystemNext]_vars
  PROVE  [Citation!AbstractNext]_Citation!abstractVars
<1>1. RegistryInv /\ CallFits(job) /\ EmittedFits /\ CallFits(job')
  BY DEF SystemInv
<1>2. CASE BeginCall
  <2>1. job'.stage = "resolve" /\ job.stage = "idle"
    BY <1>1, <1>2, BegunFits
  <2>2. Citation!Submit
    BY <2>1 DEF Citation!Submit, IsAt
  <2> QED BY <2>2 DEF Citation!AbstractNext
<1>3. CASE Works
  BY <1>1, <1>3, WorkRefines
<1>4. CASE Collect
  <2>1. job.stage = "returned" /\ job'.stage = "idle" /\ job.outcome \in Outcomes
    BY <1>1, <1>4 DEF Collect, IsAt, Idle, Job, CallFits, Decided
  <2>2. Citation!Collect
    BY <2>1, OutcomeAssumption DEF Citation!Collect, IsAt
  <2> QED BY <2>2 DEF Citation!AbstractNext
<1>5. CASE UNCHANGED job
  BY <1>5 DEF Citation!abstractVars, IsAt
<1> QED BY <1>2, <1>3, <1>4, <1>5 DEF SystemNext, CallStep, Works, vars, callVars

(* typed_ref.py keeps the promise of CitedArtifact: a call is decided once,*)
(* and as the request deserves, whatever happens between its stages.       *)
THEOREM CallsImplementTheCitation == SystemSpec => ImplementsCitedArtifact
<1>1. SystemInit => Citation!AbstractInit
  BY DEF SystemInit, CallInit, Idle, Job, IsAt, Citation!AbstractInit
<1>2. SystemInv /\ SystemInv' /\ [SystemNext]_vars
        => [Citation!AbstractNext]_Citation!abstractVars
  BY StepRefines
<1> QED BY <1>1, <1>2, SystemInvariant, PTL
     DEF SystemSpec, ImplementsCitedArtifact, Citation!AbstractSpec
=============================================================================
