--------------------------- MODULE CitedArtifact ---------------------------
(***************************************************************************)
(* What typed references promise (draft section 8, lib/cpb/typed_ref.py):  *)
(* a caller submits a request and gets one verdict.  A reference is        *)
(* verified exactly when it is justified, a reference is constructed       *)
(* exactly when one may be, and everything else is refused.  The module    *)
(* says which requests those are without saying in which order the library *)
(* finds out; TypedRefVerification is shown to implement it.               *)
(***************************************************************************)
EXTENDS ArtifactTypes, Vintage

VARIABLES
  pending,  \* the request being served: a set of at most one
  verdict   \* None until the request is decided

abstractVars == <<pending, verdict>>

-----------------------------------------------------------------------------
(* The context a reference means: the only one of its type that carries    *)
(* its purpose, in a set in which purposes do not repeat.                  *)
MeansContext(contexts, type, purpose, c) ==
  /\ \E i \in DOMAIN contexts :
       /\ contexts[i] = c
       /\ c.name = type
       /\ \A j \in DOMAIN contexts : contexts[j].name = type =>
            \/ j = i
            \/ purpose # None /\ contexts[j].purpose # purpose
  /\ purpose \in {None, c.purpose}
  /\ \A i, j \in DOMAIN contexts :
       (contexts[i].name = type /\ contexts[j].name = type /\ i # j)
         => contexts[i].purpose # contexts[j].purpose

(* A text that states one object, reproducibly under the context.          *)
IsReproducible(text, c) ==
  /\ text.form = "object"
  /\ text.repeated = {}
  /\ c.exclusion # None
  /\ \/ /\ c.algorithm = "jcs"
        /\ \A m \in DOMAIN text.members \ c.exclusion : text.members[m].kind # "unsafe"
     \/ /\ c.algorithm = "jcs-n"
        /\ \A v \in Range(text.members) : v.kind \in {"plain", "empty"}

(* The digest of a reproducible text: what remains of the object.          *)
Remains(text, c) ==
  {<<m, text.members[m]>> : m \in {n \in DOMAIN text.members :
     n \notin c.exclusion /\ (c.algorithm = "jcs-n" => text.members[n].kind = "plain")}}

GraphOf(members) == {<<m, members[m]>> : m \in DOMAIN members}

(* Authenticated evidence puts this very digest before the cutoff.         *)
HasPreCutoffVintage(vintage, digest) ==
  /\ vintage.hasVerifier
  /\ vintage.evidence # None
  /\ vintage.evidence.binds = digest
  /\ LET reply == vintage.evidence.reply IN
     /\ reply.kind = "datetime"
     /\ reply.offset # None
     /\ reply.clock < Cutoff + reply.offset

Justified(req) ==
  LET ref == req.ref IN
  /\ req.defn.anchor # None
  /\ \E c \in Range(req.defn.contexts) :
       /\ MeansContext(req.defn.contexts, ref.type, ref.purpose, c)
       /\ IsReproducible(req.text, c)
       /\ ref.digestAlg = "SHA-256"
       /\ ref.form = c.representation
       /\ GraphOf(ref.digest) = Remains(req.text, c)
       /\ req.call = "verify-json" => ref.form # "raw"
       /\ c.algorithm = "jcs-n" => HasPreCutoffVintage(req.vintage, ref.digest)

(* A new reference may be made from the text: under live jcs only.         *)
Constructible(req) ==
  \E c \in Range(req.defn.contexts) :
    /\ MeansContext(req.defn.contexts, req.defn.name, req.purpose, c)
    /\ IsReproducible(req.text, c)
    /\ c.algorithm = "jcs"
    /\ c.representation # "raw"

Judgement(req) ==
  IF req.call = "construct"
  THEN IF Constructible(req) THEN "constructed" ELSE "refused"
  ELSE IF Justified(req) THEN "verified" ELSE "refused"

-----------------------------------------------------------------------------
AbstractInit == pending = {} /\ verdict = None

(* The caller asks for something, and later takes the answer.              *)
Submit ==
  /\ pending = {}
  /\ \E req \in pending' : pending' = {req}
  /\ UNCHANGED verdict

Collect ==
  /\ verdict # None
  /\ pending' = {}
  /\ verdict' = None

Decide ==
  /\ verdict = None
  /\ \E req \in pending : verdict' = Judgement(req)
  /\ UNCHANGED pending

AbstractNext == Submit \/ Decide \/ Collect

AbstractSpec == AbstractInit /\ [][AbstractNext]_abstractVars
=============================================================================
