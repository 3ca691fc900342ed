----------------------------- MODULE MCLibrary -----------------------------
(***************************************************************************)
(* Small instances of the library side, three scenarios of one run.        *)
(*   registry: no calls; a snapshot handle over a small registry history:  *)
(*     an older and a newer published body, and documents that are         *)
(*     tampered with, repeat a member, claim another schema, or register a *)
(*     type that cannot be resolved.                                       *)
(*   calls: profile definitions only, with many references, texts and      *)
(*     evidence; the caller holds on to its definition during a call.      *)
(*   system: few calls, while the snapshot is reloaded, its document       *)
(*     edited and other definitions are resolved under them.               *)
(***************************************************************************)
EXTENDS TypedRefVerification

VARIABLE scenario

MCTypeNames == {"audit", "ticket"}
MCPurposeNames == {"identifier", "equivalence"}
MCAlgorithmTokens == {"jcs", "jcs-n", "as-transmitted"}
MCMemberNames == {"id", "x"}
MCContents == {"this"}
MCAlgorithmIds == {"jcs", "jcs-n"}
MCHandles == {"h"}
MCCutoff == 24

-----------------------------------------------------------------------------
(* Registry bodies and documents.                                          *)
Row(purpose, algorithm, representation) ==
  [purpose |-> purpose, algorithm |-> algorithm, representation |-> representation]
Type(status, rows) == [status |-> status, contexts |-> rows]
Body(schema, jcs, jcsN, audit, ticket) ==
  [schema |-> schema,
   algorithms |-> [a \in MCAlgorithmIds |->
     LET status == IF a = "jcs" THEN jcs ELSE jcsN
     IN  IF status = None THEN None ELSE [status |-> status]],
   types |-> [t \in MCTypeNames |-> IF t = "audit" THEN audit ELSE ticket]]

TwoRows ==
  <<Row("identifier", "jcs", "bare-hex"), Row("equivalence", "jcs-n", "sha256-prefixed")>>
OneRow == <<Row("identifier", "jcs", "bare-hex")>>
BareRow == <<Row("identifier", "jcs", None)>>
SameRows == <<Row("identifier", "jcs", "bare-hex"), Row("identifier", "jcs-n", "bare-hex")>>

\* jcs-n is live and audit has two contexts; ticket does not exist yet.
Older == Body("1", None, "Registered", Type("Registered", TwoRows), None)
\* jcs arrives, jcs-n is withdrawn, ticket is held with an incomplete row.
Newer == Body("1", "standards-referenced", "withdrawn",
              Type("third-party-documented", TwoRows), Type("provisional", BareRow))
\* audit is withdrawn.
Withdrawn == [Newer EXCEPT !.types["audit"].status = "withdrawn"]
\* ticket is live, but its row has no representation.
Unusable == Body("1", "standards-referenced", "withdrawn",
                 Type("Reserved", SameRows), Type("owner-confirmed", BareRow))
\* Bodies no verification accepts.
Ambiguous == Body("1", "standards-referenced", "withdrawn",
                  Type("owner-confirmed", SameRows), None)
Future == Body("2", "standards-referenced", None, Type("Registered", OneRow), None)
Empty == Body("1", "Registered", None, None, Type("Reserved", <<>>))
\* Newer with ticket promoted by someone other than the registry.
Forged == Body("1", "standards-referenced", "owner-confirmed",
               Type("third-party-documented", OneRow), Type("owner-confirmed", OneRow))

Honest(body) == [body |-> body, sha |-> body, repeats |-> FALSE]
DocumentsOf ==
  [registry |->
     {Honest(b) : b \in {Older, Newer, Unusable, Ambiguous, Future, Empty, Forged}}
     \cup {[Honest(Forged) EXCEPT !.sha = Newer], [Honest(Newer) EXCEPT !.sha = None],
           [Honest(Older) EXCEPT !.repeats = TRUE]},
   calls |-> {Honest(Newer)},
   system |-> {Honest(Newer), Honest(Withdrawn)}]
PinsOf ==
  [registry |-> {Older, Newer, Unusable}, calls |-> {}, system |-> {Newer, Withdrawn}]

-----------------------------------------------------------------------------
(* Contexts and the sets a profile declares.                               *)
Context(name, purpose, algorithm, representation, exclusion) ==
  [name |-> name, algorithm |-> algorithm, representation |-> representation,
   purpose |-> purpose, exclusion |-> exclusion]
Live == Context("audit", "identifier", "jcs", "bare-hex", {"id"})
Historic == Context("audit", "equivalence", "jcs-n", "sha256-prefixed", {})
Octets == Context("audit", "identifier", "jcs", "raw", {})
Exact == Context("audit", "identifier", "as-transmitted", "bare-hex", None)

MCImplementationChoices ==
  {<<>>, <<Live>>, <<Historic, Live>>, <<Live, Live>>,
   <<[Live EXCEPT !.algorithm = "jcs-n"]>>, <<[Live EXCEPT !.representation = "raw"]>>,
   <<[Live EXCEPT !.name = "ticket"]>>}

\* No reference resolves in a set that repeats a purpose.
ContextSetsOf ==
  [registry |-> {<<>>, <<Octets>>, <<Live>>, <<Live, Historic>>, <<Historic, Live>>,
                 <<Live, Live>>, <<Live, [Historic EXCEPT !.name = "ticket"]>>},
   calls |-> {<<Live>>, <<Historic, Live>>, <<Historic, Octets>>, <<Live, Historic, Historic>>},
   system |-> {<<Live, Live>>, <<Exact>>}]
PublishedOf ==
  [registry |-> {<<Live, Historic>>}, calls |-> ContextSetsOf.calls,
   system |-> ContextSetsOf.system]

-----------------------------------------------------------------------------
(* Texts, references and evidence.                                         *)
Text(form, members, repeated) == [form |-> form, members |-> members, repeated |-> repeated]
Members(id, x) ==
  [m \in MCMemberNames |-> [kind |-> IF m = "id" THEN id ELSE x, content |-> "this"]]
Plain == Text("object", Members("plain", "plain"), {})
Sparse == Text("object", Members("empty", "plain"), {})
Doubled == Text("object", Members("plain", "plain"), {"id"})
Broken == Text("malformed", Members("plain", "plain"), {})
TextsOf ==
  [registry |-> {},
   calls |-> {Plain, Sparse, Doubled, Broken, Text("object", Members("unsafe", "plain"), {})},
   system |-> {Plain}]

Reference(c, text) ==
  [type |-> c.name, digestAlg |-> "SHA-256", form |-> c.representation,
   digest |-> HashedMembers(text.members, c.exclusion, c.algorithm), purpose |-> c.purpose]
ReferencesOf ==
  [registry |-> {},
   calls |-> {Reference(Live, Plain), Reference(Historic, Sparse), Reference(Octets, Plain),
              [Reference(Live, Plain) EXCEPT !.purpose = None],
              [Reference(Live, Plain) EXCEPT !.digestAlg = "sha-256"],
              [Reference(Historic, Plain) EXCEPT !.type = "ticket", !.form = "not-a-digest"]},
   system |-> {Reference(Historic, Plain)}]

Evidence(text, c, kind, clock, offset) ==
  [binds |-> HashedMembers(text.members, c.exclusion, c.algorithm),
   reply |-> Reply(kind, clock, offset)]
Vintage(evidence) == [evidence |-> evidence, hasVerifier |-> TRUE]
\* Wall clocks on both sides of the cutoff, where the offset decides.
VintagesOf ==
  [registry |-> {},
   calls |-> {Vintage(None),
              [Vintage(Evidence(Sparse, Historic, "datetime", 23, 0)) EXCEPT !.hasVerifier = FALSE],
              Vintage(Evidence(Sparse, Historic, "datetime", 24, 2)),
              Vintage(Evidence(Sparse, Historic, "datetime", 23, -1)),
              Vintage(Evidence(Sparse, Historic, "datetime", 23, None)),
              Vintage(Evidence(Plain, Historic, "datetime", 0, 0))},
   system |-> {Vintage(Evidence(Plain, Historic, "datetime", 23, 0))}]

Scenarios == {"registry", "calls", "system"}
MCDocuments == UNION {DocumentsOf[s] : s \in Scenarios}
MCBodies == {d.body : d \in MCDocuments}
MCPins == UNION {PinsOf[s] : s \in Scenarios}
MCContextSetChoices == UNION {ContextSetsOf[s] : s \in Scenarios}
MCPublishedSets == UNION {PublishedOf[s] : s \in Scenarios}
MCTexts == UNION {TextsOf[s] : s \in Scenarios}
MCReferences == UNION {ReferencesOf[s] : s \in Scenarios}
MCVintages == UNION {VintagesOf[s] : s \in Scenarios}

-----------------------------------------------------------------------------
(* What belongs to a scenario; the lookups are left to the first.          *)
InScenario ==
  /\ source \in DocumentsOf[scenario]
  /\ \A h \in Handles : snap[h] # None =>
       scenario # "calls" /\ snap[h].trusted \notin Pins \ PinsOf[scenario]
  /\ Holds("answer") => scenario = "registry"
  /\ Holds("definition") =>
       \/ IsAnchoredBy(held.defn, "registry-snapshot-sha256")
       \/ held.defn.contexts \in ContextSetsOf[scenario]

MCInit == scenario \in Scenarios /\ SystemInit /\ InScenario

CallNext ==
  \/ BeginCallWith(TextsOf[scenario], ReferencesOf[scenario], VintagesOf[scenario])
  \/ CallStep

MCNext ==
  /\ \/ CallNext
     \/ Next /\ (scenario = "calls" => job = Idle) /\ UNCHANGED callVars
  /\ UNCHANGED scenario
  /\ InScenario'

MCSpec == MCInit /\ [][MCNext]_<<vars, scenario>>
=============================================================================
