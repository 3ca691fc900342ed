-------------------------- MODULE MCCoseStatement --------------------------
(* A small instance of CoseStatement: headers of both modes, each with the *)
(* flaws that only one check sees, and the pairs a relay could add.        *)
EXTENDS CoseStatement

CONSTANTS ref1, ref2, badRef

MCReferences == {ref1, ref2, badRef}
MCMalformed == {badRef}

MCPayloads == {[size |-> n] : n \in {0, 32, 48}}

Base == <<Pair("cwt", "good"), Pair("kid", "good")>>
Certified == <<Pair("cwt", "good"), Pair("x5t", "good")>>
Content == <<Pair("content-type", "good")>>
Hash == <<Pair("hash-alg", "sha-256"), Pair("preimage-type", "good")>>
Refs1 == <<Pair("refs", <<ref1>>)>>
CritRefs == <<Pair("refs", <<ref1, ref2>>), Pair("crit", <<"refs", "alg">>), Pair("alg", "good")>>

MCProtected == {
  Base \o Content,
  Base \o Content \o Refs1,
  Base \o Content \o CritRefs,
  Base \o Hash \o Refs1,
  Base \o Hash \o CritRefs,
  Base \o Hash \o <<Pair("location", "good")>>,
  Certified \o Content \o Refs1,
  <<Pair("cwt", "long-issuer"), Pair("x5chain", "good")>> \o Content,
  <<Pair("cwt", "good")>> \o Content \o Refs1,
  <<Pair("cwt", "good"), Pair("x5t", "bad")>> \o Content,
  <<Pair("kid", "good")>> \o Content \o Refs1,
  Base \o Hash \o Content \o Refs1,
  Base \o Refs1,
  Base \o Content \o Refs1 \o <<Pair("refs", <<ref2>>)>>,
  Base \o Content \o <<Pair("refs", <<ref1, ref1>>)>>,
  Base \o Content \o <<Pair("refs", <<ref1, badRef>>)>>,
  Base \o Content \o Refs1 \o <<Pair("crit", <<"extension">>)>>,
  Base \o Content \o Refs1 \o <<Pair("crit", <<"content-type">>)>>,
  Base \o Content \o <<Pair("refs", <<ref1, ref2, ref1>>)>> }

MCUnprotected == {
  Pair("refs", <<ref2>>), Pair("crit", <<"refs">>), Pair("content-type", "good"),
  Pair("hash-alg", "sha-256"), Pair("x5chain", "good"), Pair("x5t", "good"),
  Pair("extension", "good"), Pair("kid", "good"), Pair("not-a-label", "good") }

Call(mode, required, critical, understood, detached, alg, size) ==
  [mode |-> mode, required |-> required, critical |-> critical, understood |-> understood,
   detached |-> detached, hashAlg |-> alg, hashSize |-> size]

MCOptions == {
  Call("full-content", FALSE, FALSE, {}, None, None, None),
  Call("full-content", TRUE, TRUE, {"alg"}, None, None, None),
  Call("full-content", FALSE, FALSE, {"extension"}, [size |-> 32], None, None),
  Call("hash-envelope", FALSE, FALSE, {}, None, None, 32),
  Call("hash-envelope", FALSE, FALSE, {"alg"}, [size |-> 32], "sha-256", 32),
  Call("hash-envelope", TRUE, FALSE, {"alg"}, [size |-> 48], None, None),
  Call("hash-envelope", FALSE, FALSE, {}, [size |-> 32], "sha-384", 48) }
=============================================================================
