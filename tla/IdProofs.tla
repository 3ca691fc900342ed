------------------------------ MODULE IdProofs ------------------------------
(***************************************************************************)
(* Proofs about derived identifiers, for any records, edits, exclusion sets*)
(* and evidence, and any number of ids.  That no id covers itself rests on *)
(* ids being made one after another: what an id is derived from was there  *)
(* before it.                                                              *)
(***************************************************************************)
EXTENDS DerivedId, FiniteSetTheorems, WellFoundedInduction, TLAPS

(* The members that are left under an algorithm.                           *)
Left(members, exclusion, algorithm) ==
  {m \in DOMAIN members \ exclusion : algorithm = "jcs-n" => members[m].kind # "empty"}

LEMMA HashedIsRestriction ==
  ASSUME NEW members, NEW exclusion, NEW algorithm
  PROVE  HashedMembers(members, exclusion, algorithm)
           = [m \in Left(members, exclusion, algorithm) |-> members[m]]
BY DEF HashedMembers, Kept, Left, Restrict

(* Two pre-images are the same when the same members are visible.          *)
LEMMA VisibleIsHashed ==
  ASSUME NEW f, NEW X, NEW a, NEW g, NEW Y, NEW b
  PROVE  Visible(f, X, a) = Visible(g, Y, b) <=> HashedMembers(f, X, a) = HashedMembers(g, Y, b)
<1> DEFINE S == Left(f, X, a)
           T == Left(g, Y, b)
           p == [m \in S |-> f[m]]
           q == [m \in T |-> g[m]]
           V == {<<m, f[m]>> : m \in S}
           W == {<<m, g[m]>> : m \in T}
<1>1. V = W => p = q
  <2> SUFFICES ASSUME V = W PROVE p = q
    OBVIOUS
  <2> HIDE DEF S, T
  <2>1. \A m \in S : m \in T /\ f[m] = g[m]
    <3> TAKE m \in S
    <3>1. <<m, f[m]>> \in W
      OBVIOUS
    <3>2. PICK n \in T : <<m, f[m]>> = <<n, g[n]>>
      BY <3>1
    <3> QED BY <3>2
  <2>2. \A m \in T : m \in S
    <3> TAKE m \in T
    <3>1. <<m, g[m]>> \in V
      OBVIOUS
    <3>2. PICK n \in S : <<m, g[m]>> = <<n, f[n]>>
      BY <3>1
    <3> QED BY <3>2
  <2>3. S = T
    BY <2>1, <2>2
  <2> QED BY <2>1, <2>3
<1>2. p = q => V = W
  <2> SUFFICES ASSUME p = q PROVE V = W
    OBVIOUS
  <2> HIDE DEF S, T
  <2>1. DOMAIN p = S /\ DOMAIN q = T
    OBVIOUS
  <2>2. S = T
    BY <2>1
  <2>3. \A m \in S : f[m] = g[m]
    <3> TAKE m \in S
    <3>1. p[m] = f[m] /\ q[m] = g[m]
      BY <2>2
    <3> QED BY <3>1
  <2> QED BY <2>2, <2>3
<1>3. Visible(f, X, a) = V /\ Visible(g, Y, b) = W
  BY DEF Visible, Left
<1>4. HashedMembers(f, X, a) = p /\ HashedMembers(g, Y, b) = q
  BY HashedIsRestriction
<1> QED BY <1>1, <1>2, <1>3, <1>4

(* When a record has a digest.                                             *)
LEMMA DigestNeedsUniqueMembers ==
  ASSUME NEW rec, NEW exclusion, NEW algorithm,
         DigestError(Text(rec), exclusion, algorithm) = None
  PROVE  /\ rec.repeated = {}
         /\ SerializeError(rec.members, exclusion, algorithm) = None
<1>1. ParseError(Text(rec), algorithm) = None
  BY DEF DigestError
<1>2. ApplicableViolations(Text(rec), algorithm) = {}
  BY <1>1, NoErrorAssumption DEF ParseError
<1>3. "duplicate_key" \notin WireViolations(Text(rec))
  BY <1>2 DEF ApplicableViolations
<1>4. rec.repeated = {}
  <2>1. Text(rec).repeated = rec.repeated
    BY DEF Text
  <2>2. Text(rec).repeated # {} => "duplicate_key" \in WireViolations(Text(rec))
    BY DEF WireViolations
  <2> QED BY <1>3, <2>1, <2>2
<1> QED BY <1>1, <1>4 DEF DigestError, Text

LEMMA UniqueMembersHaveADigest ==
  ASSUME NEW rec, NEW exclusion, rec.repeated = {},
         \A m \in Kept(rec.members, exclusion) : rec.members[m].kind # "unsafe"
  PROVE  DigestError(Text(rec), exclusion, "jcs") = None
<1>1. Text(rec).repeated = {} /\ Text(rec).form = "object" /\ Text(rec).members = rec.members
  BY DEF Text
<1>2. "duplicate_key" \notin WireViolations(Text(rec))
  BY <1>1 DEF WireViolations
<1>3. ApplicableViolations(Text(rec), "jcs") = {}
  BY <1>2 DEF ApplicableViolations
<1>4. ParseError(Text(rec), "jcs") = None
  BY <1>1, <1>3 DEF ParseError, SupportedAlgorithms
<1>5. SerializeError(rec.members, exclusion, "jcs") = None
  BY DEF SerializeError
<1> QED BY <1>1, <1>4, <1>5 DEF DigestError

-----------------------------------------------------------------------------
(* What an issued id was derived from, and what the last verdict is: the   *)
(* one the record in transit gets, whatever happened to it before.         *)
IssuedOK ==
  \A issue \in issued :
    /\ issue.id = HashedMembers(issue.members, issue.exclusion, "jcs")
    /\ \A m \in Kept(issue.members, issue.exclusion) : issue.members[m].kind # "unsafe"
CheckedOK ==
  checked # None =>
    /\ checked.algorithm \in {"jcs", "jcs-n"}
    /\ checked.error =
         VerifyError(record, checked.exclusion, checked.algorithm, checked.vintage)
    /\ checked.algorithm = "jcs-n" /\ checked.vintage.evidence # None =>
         checked.vintage.evidence.reply \in EvidenceTimes
IdInv == IssuedOK /\ CheckedOK

LEMMA DeriveKeeps ==
  ASSUME IdInv, NEW exclusion, NEW algorithm \in SupportedAlgorithms, Derive(exclusion, algorithm)
  PROVE  IdInv'
<1> DEFINE new == [id |-> HashedMembers(record.members, exclusion, algorithm),
                   members |-> record.members, exclusion |-> exclusion]
<1>1. DeriveError(record, exclusion, algorithm) = None /\ issued' = issued \cup {new}
      /\ checked' = None
  BY DEF Derive
<1>2. /\ DigestError(Text(record), exclusion, algorithm) = None
      /\ algorithm = "jcs"
  BY <1>1, NoErrorAssumption DEF DeriveError, SupportedAlgorithms
<1>3. SerializeError(record.members, exclusion, algorithm) = None
  BY <1>2, DigestNeedsUniqueMembers
<1>4. \A m \in Kept(record.members, exclusion) : record.members[m].kind # "unsafe"
  BY <1>3, NoErrorAssumption DEF SerializeError
<1>5. IssuedOK'
  <2> SUFFICES ASSUME NEW issue \in issued'
               PROVE  /\ issue.id = HashedMembers(issue.members, issue.exclusion, "jcs")
                      /\ \A m \in Kept(issue.members, issue.exclusion) :
                            issue.members[m].kind # "unsafe"
    BY DEF IssuedOK
  <2>1. CASE issue \in issued
    BY <2>1 DEF IdInv, IssuedOK
  <2>2. CASE issue = new
    BY <1>2, <1>4, <2>2
  <2> QED BY <1>1, <2>1, <2>2
<1> QED BY <1>1, <1>5 DEF IdInv, CheckedOK

LEMMA VerifyKeeps ==
  ASSUME IdInv, NEW exclusion, NEW algorithm \in {"jcs", "jcs-n"}, NEW vintage,
         algorithm = "jcs-n" /\ vintage.evidence # None => vintage.evidence.reply \in EvidenceTimes,
         Verify(exclusion, algorithm, vintage)
  PROVE  IdInv'
<1>1. /\ UNCHANGED <<record, issued>>
      /\ checked' = [exclusion |-> exclusion, algorithm |-> algorithm, vintage |-> vintage,
                     error |-> VerifyError(record, exclusion, algorithm, vintage)]
  BY DEF Verify
<1>2. /\ checked'.algorithm = algorithm /\ checked'.vintage = vintage
      /\ checked'.error =
           VerifyError(record', checked'.exclusion, checked'.algorithm, checked'.vintage)
  BY <1>1
<1>3. CheckedOK'
  BY <1>2 DEF CheckedOK
<1> QED BY <1>1, <1>3 DEF IdInv, IssuedOK

LEMMA IdNextKeeps ==
  ASSUME IdInv, [Next]_idVars
  PROVE  IdInv'
<1>1. ASSUME NEW exclusion \in Exclusions, NEW algorithm \in SupportedAlgorithms,
             Derive(exclusion, algorithm)
      PROVE  IdInv'
  BY <1>1, DeriveKeeps
<1>2. CASE Stamp
  BY <1>2 DEF Stamp, IdInv, IssuedOK, CheckedOK
<1>3. ASSUME NEW m \in MemberNames, Edit(m)
      PROVE  IdInv'
  BY <1>3 DEF Edit, IdInv, IssuedOK, CheckedOK
<1>4. ASSUME NEW exclusion \in Exclusions, Verify(exclusion, "jcs", NoVintage)
      PROVE  IdInv'
  BY <1>4, VerifyKeeps
<1>5. ASSUME NEW exclusion \in Exclusions, NEW vintage \in Vintages,
             Verify(exclusion, "jcs-n", vintage)
      PROVE  IdInv'
  <2>1. vintage.evidence # None => vintage.evidence.reply \in EvidenceTimes
    BY DEF Vintages, NoVintage
  <2> QED BY <1>5, <2>1, VerifyKeeps
<1>6. CASE UNCHANGED idVars
  BY <1>6 DEF idVars, IdInv, IssuedOK, CheckedOK
<1> QED BY <1>1, <1>2, <1>3, <1>4, <1>5, <1>6 DEF Next

LEMMA IdInvariant == Spec => []IdInv
<1>1. Init => IdInv
  BY DEF Init, IdInv, IssuedOK, CheckedOK
<1> QED BY <1>1, IdNextKeeps, PTL DEF Spec

-----------------------------------------------------------------------------
(* What a verdict of no error says.                                        *)
LEMMA VerifiedMeans ==
  ASSUME IdInv, IsVerified
  PROVE  /\ record.repeated = {}
         /\ ~CarriesAnother(record.members,
              HashedMembers(record.members, checked.exclusion, checked.algorithm))
         /\ checked.algorithm = "jcs-n" =>
              IsPreCutoff(checked.vintage,
                          HashedMembers(record.members, checked.exclusion, checked.algorithm))
<1>1. VerifyError(record, checked.exclusion, checked.algorithm, checked.vintage) = None
  BY DEF IdInv, CheckedOK, IsVerified
<1>2. DigestError(Text(record), checked.exclusion, checked.algorithm) = None
  BY <1>1 DEF VerifyError
<1> QED BY <1>1, <1>2, DigestNeedsUniqueMembers, NoErrorAssumption DEF VerifyError

LEMMA CarriedIdIsRecomputed ==
  ASSUME NEW issue, Carries(issue), NEW recomputed
  PROVE  ~CarriesAnother(record.members, recomputed) <=> issue.id = recomputed
BY DEF Carries, CarriesId, CarriesAnother, IdValue

(* Whoever edits, copies and stamps what: a record that carries an id of   *)
(* its class verifies only while it says what the id was derived from.     *)
THEOREM IdsBind == Spec => []IssuedIdsBindTheirRecord
<1>1. ASSUME IdInv PROVE IssuedIdsBindTheirRecord
  <2> SUFFICES ASSUME NEW issue \in issued, IsVerified, Carries(issue),
                      checked.exclusion = issue.exclusion
               PROVE  StillSays(issue)
    BY DEF IssuedIdsBindTheirRecord
  <2>1. record.repeated = {}
    BY <1>1, VerifiedMeans
  <2>2. issue.id = HashedMembers(record.members, checked.exclusion, checked.algorithm)
    BY <1>1, VerifiedMeans, CarriedIdIsRecomputed
  <2>3. issue.id = HashedMembers(issue.members, issue.exclusion, "jcs")
    BY <1>1 DEF IdInv, IssuedOK
  <2>4. Visible(record.members, checked.exclusion, checked.algorithm)
          = Visible(issue.members, issue.exclusion, "jcs")
    <3>1. HashedMembers(record.members, checked.exclusion, checked.algorithm)
            = HashedMembers(issue.members, issue.exclusion, "jcs")
      BY <2>2, <2>3
    <3> QED BY <3>1, VisibleIsHashed
  <2> QED BY <2>1, <2>4 DEF StillSays
<1> QED BY <1>1, IdInvariant, PTL

(* And it verifies as long as it does, so that no edit of what the id does *)
(* not cover can break it.                                                 *)
THEOREM IdsKeep == Spec => []IssuedIdsKeepVerifying
<1>1. ASSUME IdInv PROVE IssuedIdsKeepVerifying
  <2> SUFFICES ASSUME NEW issue \in issued, checked # None, checked.algorithm = "jcs",
                      checked.exclusion = issue.exclusion, Carries(issue), StillSays(issue)
               PROVE  IsVerified
    BY DEF IssuedIdsKeepVerifying
  <2> DEFINE X == checked.exclusion
  <2>1. /\ record.repeated = {}
        /\ Visible(record.members, X, "jcs") = Visible(issue.members, issue.exclusion, "jcs")
    BY DEF StillSays
  <2>2. issue.id = HashedMembers(issue.members, issue.exclusion, "jcs")
    BY <1>1 DEF IdInv, IssuedOK
  <2>3. issue.id = HashedMembers(record.members, X, "jcs")
    BY <2>1, <2>2, VisibleIsHashed
  <2>4. ~CarriesAnother(record.members, HashedMembers(record.members, X, "jcs"))
    BY <2>3, CarriedIdIsRecomputed
  <2>5. \A m \in Kept(record.members, X) : record.members[m].kind # "unsafe"
    <3> TAKE m \in Kept(record.members, X)
    <3>1. <<m, record.members[m]>> \in Visible(issue.members, issue.exclusion, "jcs")
      BY <2>1 DEF Visible, Kept
    <3>2. /\ m \in Kept(issue.members, issue.exclusion)
          /\ record.members[m] = issue.members[m]
      BY <3>1 DEF Visible, Kept
    <3> QED BY <1>1, <3>2 DEF IdInv, IssuedOK
  <2>6. DigestError(Text(record), X, "jcs") = None
    BY <2>1, <2>5, UniqueMembersHaveADigest
  <2>7. VerifyError(record, X, "jcs", checked.vintage) = None
    BY <2>4, <2>6 DEF VerifyError
  <2> QED BY <1>1, <2>7 DEF IdInv, CheckedOK, IsVerified
<1> QED BY <1>1, IdInvariant, PTL

(* A verification under the withdrawn algorithm has evidence that binds the*)
(* very members it accepted and is dated, in UTC, before the cutoff.       *)
THEOREM WithdrawnRests == Spec => []WithdrawnRestsOnItsEvidence
<1>1. ASSUME IdInv PROVE WithdrawnRestsOnItsEvidence
  <2> SUFFICES ASSUME IsVerified, checked.algorithm = "jcs-n"
               PROVE  LET evidence == checked.vintage.evidence IN
                      /\ evidence # None
                      /\ {<<m, evidence.binds[m]>> : m \in DOMAIN evidence.binds}
                           = Visible(record.members, checked.exclusion, "jcs-n")
                      /\ evidence.reply.offset # None
                      /\ evidence.reply.clock < Cutoff + evidence.reply.offset
    BY DEF WithdrawnRestsOnItsEvidence
  <2> DEFINE evidence == checked.vintage.evidence
             recomputed == HashedMembers(record.members, checked.exclusion, "jcs-n")
  <2>1. IsPreCutoff(checked.vintage, recomputed)
    BY <1>1, VerifiedMeans
  <2>2. evidence # None /\ evidence.binds = recomputed
    BY <2>1 DEF IsPreCutoff, CallbackReply, Reply
  <2>3. {<<m, recomputed[m]>> : m \in DOMAIN recomputed}
          = Visible(record.members, checked.exclusion, "jcs-n")
    BY HashedIsRestriction DEF Visible, Left
  <2>4. /\ evidence.reply.kind = "datetime"
        /\ evidence.reply.offset # None /\ Utc(evidence.reply) < Cutoff
    BY <2>1, <2>2 DEF IsPreCutoff, CallbackReply
  <2>5. evidence.reply \in EvidenceTimes
    BY <1>1, <2>2 DEF IdInv, CheckedOK, IsVerified
  <2>6. evidence.reply.clock \in Int /\ evidence.reply.offset \in Int /\ Cutoff \in Int
    BY <2>4, <2>5, EvidenceAssumption
  <2>7. evidence.reply.clock < Cutoff + evidence.reply.offset
    BY <2>4, <2>6 DEF Utc
  <2> QED BY <2>2, <2>3, <2>4, <2>7
<1> QED BY <1>1, IdInvariant, PTL


-----------------------------------------------------------------------------
(* The ids of n steps are the first n of a sequence of sets that only grow.*)
AreIds(g, n) ==
  g = [k \in 0..n |-> IF k = 0 THEN {} ELSE g[k - 1] \cup Bodies(Contents \cup g[k - 1])]

LEMMA FirstStep ==
  ASSUME NEW steps, steps \subseteq Nat, steps # {}
  PROVE  \E n \in steps : \A k \in steps : n <= k
<1>1. PICK n \in steps : \A k \in steps : ~ (<<k, n>> \in OpToRel(<, Nat))
  BY NatLessThanWellFounded, WFMin
<1>2. \A k \in steps : <<k, n>> \notin OpToRel(<, Nat) => n <= k
  BY DEF OpToRel
<1> QED BY <1>1, <1>2

LEMMA IdsGrow ==
  ASSUME NEW n \in Nat, NEW g, AreIds(g, n)
  PROVE  \E h : AreIds(h, n + 1)
<1> DEFINE After(s) == s \cup Bodies(Contents \cup s)
           m == n + 1
           h == [k \in 0..m |-> IF k = m THEN After(g[n]) ELSE g[k]]
<1>1. /\ m \in Nat /\ m # 0 /\ m - 1 = n /\ n \in 0..m /\ n # m /\ m \in 0..m
      /\ \A k \in 0..m : k = m \/ k \in 0..n
      /\ \A k \in 0..n : k # m /\ k \in 0..m /\ (k # 0 => k - 1 \in 0..n)
  OBVIOUS
<1>2. DOMAIN h = 0..m /\ h = [k \in 0..m |-> h[k]]
  OBVIOUS
<1>3. h[m] = After(g[n]) /\ \A k \in 0..n : h[k] = g[k]
  BY <1>1
<1>4. \A k \in 0..n : g[k] = IF k = 0 THEN {} ELSE After(g[k - 1])
  BY DEF AreIds
<1> HIDE DEF h, m, After
<1>5. \A k \in 0..m : h[k] = IF k = 0 THEN {} ELSE After(h[k - 1])
  <2> SUFFICES ASSUME NEW k \in 0..m
               PROVE  h[k] = IF k = 0 THEN {} ELSE After(h[k - 1])
    OBVIOUS
  <2>1. CASE k = m
    BY <1>1, <1>3, <2>1
  <2>2. CASE k # m
    BY <1>1, <1>3, <1>4, <2>2
  <2> QED BY <2>1, <2>2
<1>6. AreIds(h, m)
  BY <1>2, <1>5 DEF AreIds, After
<1> QED BY <1>6 DEF m

LEMMA IdsExist ==
  ASSUME NEW n \in Nat
  PROVE  \E g : AreIds(g, n)
<1> DEFINE missing == {m \in Nat : ~ \E g : AreIds(g, m)}
<1> SUFFICES ASSUME missing # {}
             PROVE  FALSE
  OBVIOUS
<1>1. PICK m \in missing : \A k \in missing : m <= k
  BY FirstStep
<1>2. CASE m = 0
  <2> DEFINE g == [k \in 0..0 |-> {}]
  <2>1. AreIds(g, 0)
    BY DEF AreIds
  <2> QED BY <1>1, <1>2, <2>1
<1>3. CASE m # 0
  <2>1. m - 1 \in Nat /\ (m - 1) + 1 = m /\ m - 1 \notin missing
    BY <1>1, <1>3
  <2>2. PICK g : AreIds(g, m - 1)
    BY <2>1
  <2> QED BY <1>1, <2>1, <2>2, IdsGrow
<1> QED BY <1>2, <1>3

LEMMA IdsAgree ==
  ASSUME NEW n \in Nat, NEW m \in Nat, NEW g, NEW h, AreIds(g, n), AreIds(h, m)
  PROVE  \A k \in 0..n : k \in 0..m => g[k] = h[k]
<1> DEFINE differ == {k \in Nat : k \in 0..n /\ k \in 0..m /\ g[k] # h[k]}
<1> SUFFICES ASSUME differ # {}
             PROVE  FALSE
  OBVIOUS
<1>1. PICK k \in differ : \A j \in differ : k <= j
  BY FirstStep
<1>2. /\ g[k] = IF k = 0 THEN {} ELSE g[k - 1] \cup Bodies(Contents \cup g[k - 1])
      /\ h[k] = IF k = 0 THEN {} ELSE h[k - 1] \cup Bodies(Contents \cup h[k - 1])
  BY <1>1 DEF AreIds
<1>3. k # 0
  BY <1>1, <1>2
<1>4. k - 1 \in Nat /\ k - 1 \in 0..n /\ k - 1 \in 0..m /\ k - 1 \notin differ
  BY <1>1, <1>3
<1>5. g[k - 1] = h[k - 1]
  BY <1>4
<1> QED BY <1>1, <1>2, <1>3, <1>5, Zenon

LEMMA IdsOfIs ==
  IdsOf = [n \in Nat |-> IF n = 0 THEN {} ELSE IdsOf[n - 1] \cup Bodies(Contents \cup IdsOf[n - 1])]
<1> DEFINE Of(n) == CHOOSE g : AreIds(g, n)
           ids == [n \in Nat |-> Of(n)[n]]
<1>1. \A n \in Nat : AreIds(Of(n), n)
  BY IdsExist
<1> HIDE DEF Of
<1>2. \A n \in Nat :
        ids[n] = IF n = 0 THEN {} ELSE ids[n - 1] \cup Bodies(Contents \cup ids[n - 1])
  <2> SUFFICES ASSUME NEW n \in Nat
               PROVE  ids[n] = IF n = 0 THEN {}
                               ELSE ids[n - 1] \cup Bodies(Contents \cup ids[n - 1])
    OBVIOUS
  <2>1. ids[n] = Of(n)[n] /\ AreIds(Of(n), n) /\ n \in 0..n
    BY <1>1
  <2>2. Of(n)[n] = IF n = 0 THEN {} ELSE Of(n)[n - 1] \cup Bodies(Contents \cup Of(n)[n - 1])
    BY <2>1 DEF AreIds
  <2>3. CASE n = 0
    BY <2>1, <2>2, <2>3
  <2>4. CASE n # 0
    <3>1. n - 1 \in Nat /\ n - 1 \in 0..n /\ n - 1 \in 0..(n - 1)
      BY <2>4
    <3>2. ids[n - 1] = Of(n - 1)[n - 1] /\ AreIds(Of(n - 1), n - 1)
      BY <1>1, <3>1
    <3>3. Of(n - 1)[n - 1] = Of(n)[n - 1]
      BY <2>1, <3>1, <3>2, IdsAgree
    <3> HIDE DEF ids
    <3> QED BY <2>1, <2>2, <2>4, <3>2, <3>3
  <2> QED BY <2>3, <2>4
<1>3. ids = [n \in Nat |-> IF n = 0 THEN {} ELSE ids[n - 1] \cup Bodies(Contents \cup ids[n - 1])]
  <2>1. ids = [n \in Nat |-> ids[n]]
    OBVIOUS
  <2> HIDE DEF ids
  <2> QED BY <1>2, <2>1, Zenon
<1> HIDE DEF ids
<1> QED BY <1>3, Zenon DEF IdsOf

LEMMA IdsNext ==
  /\ IdsOf[0] = {}
  /\ \A n \in Nat : IdsOf[n + 1] = IdsOf[n] \cup Bodies(Contents \cup IdsOf[n])
<1> DEFINE Value(n) == IF n = 0 THEN {} ELSE IdsOf[n - 1] \cup Bodies(Contents \cup IdsOf[n - 1])
<1>1. \A n \in Nat : IdsOf[n] = Value(n)
  <2> HIDE DEF Value
  <2>1. IdsOf = [n \in Nat |-> Value(n)]
    BY IdsOfIs DEF Value
  <2> QED BY <2>1
<1>2. IdsOf[0] = Value(0)
  BY <1>1
<1>3. ASSUME NEW n \in Nat
      PROVE  IdsOf[n + 1] = IdsOf[n] \cup Bodies(Contents \cup IdsOf[n])
  <2>1. n + 1 \in Nat /\ n + 1 # 0 /\ (n + 1) - 1 = n
    OBVIOUS
  <2>2. IdsOf[n + 1] = Value(n + 1)
    BY <1>1, <2>1
  <2> QED BY <2>1, <2>2
<1> QED BY <1>2, <1>3

(* An id is no part of itself: every id has a first step at which it can   *)
(* be made, and what it covers was there before that step.                 *)
LEMMA NoIdCoversItself ==
  ASSUME NEW n \in 0..(MaxIssues + 1), NEW id \in IdsOf[n], NEW m \in DOMAIN id
  PROVE  id[m] # IdValue(id)
<1> SUFFICES ASSUME id[m] = IdValue(id)
             PROVE  FALSE
  OBVIOUS
<1> DEFINE steps == {k \in Nat : k <= n /\ id \in IdsOf[k]}
<1>1. MaxIssues \in Nat /\ n \in steps
  BY RecordsAssumption
<1>2. PICK k \in steps : \A j \in steps : k <= j
  BY <1>1, FirstStep
<1>3. k # 0
  BY <1>2, IdsNext
<1>4. k - 1 \in Nat /\ (k - 1) + 1 = k /\ k - 1 \notin steps /\ k - 1 <= n
      /\ k - 1 \in 0..(MaxIssues + 1)
  BY <1>1, <1>2, <1>3
<1>5. id \in Bodies(Contents \cup IdsOf[k - 1])
  <2>1. IdsOf[(k - 1) + 1] = IdsOf[k - 1] \cup Bodies(Contents \cup IdsOf[k - 1])
    BY <1>4, IdsNext
  <2> QED BY <1>2, <1>4, <2>1
<1>6. id[m].content \in Contents \cup IdsOf[k - 1]
  BY <1>5 DEF Bodies
<1>7. id[m].content = id
  BY DEF IdValue
<1>8. id \in Contents
  BY <1>4, <1>6, <1>7
<1>9. id \in IdsOf[n] /\ n \in 0..(MaxIssues + 1)
  OBVIOUS
<1> QED BY <1>8, <1>9, HashAssumption

-----------------------------------------------------------------------------
(* What the record in transit holds: contents, and ids made in as many     *)
(* steps as ids have been derived.                                         *)
Made == IdsOf[Cardinality(issued)]
MadeOK ==
  /\ IsFiniteSet(issued) /\ Cardinality(issued) \in 0..MaxIssues
  /\ \A issue \in issued : issue.id \in Made
  /\ record.members \in Bodies(Contents \cup Made)

LEMMA BodyIs ==
  ASSUME NEW contents, NEW members
  PROVE  members \in Bodies(contents) <=>
           /\ DOMAIN members \subseteq MemberNames
           /\ members = [m \in DOMAIN members |-> members[m]]
           /\ \A m \in DOMAIN members : members[m] \in [kind: Kinds, content: contents]
BY DEF Bodies

LEMMA BodyWithMember ==
  ASSUME NEW contents, NEW members \in Bodies(contents), NEW m \in MemberNames,
         NEW v \in [kind: Kinds, content: contents]
  PROVE  WithMember(members, m, v) \in Bodies(contents)
<1> DEFINE with == WithMember(members, m, v)
<1>1. DOMAIN with = DOMAIN members \cup {m} /\ with = [n \in DOMAIN with |-> with[n]]
  BY DEF WithMember
<1>2. \A n \in DOMAIN with : with[n] = IF n = m THEN v ELSE members[n]
  BY DEF WithMember
<1> HIDE DEF with
<1>3. \A n \in DOMAIN with : with[n] \in [kind: Kinds, content: contents]
  BY <1>1, <1>2, BodyIs
<1>4. DOMAIN with \subseteq MemberNames
  BY <1>1, BodyIs
<1>5. with \in Bodies(contents)
  BY <1>1, <1>3, <1>4, BodyIs
<1> QED BY <1>5 DEF with

LEMMA BodyOfPart ==
  ASSUME NEW contents, NEW members \in Bodies(contents), NEW part, part \subseteq DOMAIN members
  PROVE  [m \in part |-> members[m]] \in Bodies(contents)
<1> DEFINE less == [m \in part |-> members[m]]
<1>1. DOMAIN less = part /\ less = [m \in DOMAIN less |-> less[m]]
      /\ \A m \in part : less[m] = members[m]
  OBVIOUS
<1> HIDE DEF less
<1>2. less \in Bodies(contents)
  BY <1>1, BodyIs
<1> QED BY <1>2 DEF less

LEMMA DeriveMakes ==
  ASSUME MadeOK, NEW exclusion, NEW algorithm, Derive(exclusion, algorithm)
  PROVE  MadeOK'
<1> DEFINE id == HashedMembers(record.members, exclusion, algorithm)
           new == [id |-> id, members |-> record.members, exclusion |-> exclusion]
           n == Cardinality(issued)
<1>1. /\ n < MaxIssues /\ issued' = issued \cup {new} /\ record' = record
  BY DEF Derive
<1>2. n \in Nat /\ MaxIssues \in Nat /\ IsFiniteSet(issued)
  BY RecordsAssumption DEF MadeOK
<1>3. id \in Bodies(Contents \cup IdsOf[n])
  <2>1. id = [m \in Left(record.members, exclusion, algorithm) |-> record.members[m]]
    BY HashedIsRestriction
  <2>2. Left(record.members, exclusion, algorithm) \subseteq DOMAIN record.members
    BY DEF Left
  <2>3. record.members \in Bodies(Contents \cup IdsOf[n])
    BY DEF MadeOK, Made
  <2> QED BY <2>1, <2>2, <2>3, BodyOfPart
<1>4. IsFiniteSet(issued') /\ Cardinality(issued') = IF new \in issued THEN n ELSE n + 1
  BY <1>1, <1>2, FS_AddElement
<1>5. IdsOf[n + 1] = IdsOf[n] \cup Bodies(Contents \cup IdsOf[n])
  BY <1>2, IdsNext
<1>6. \A issue \in issued : issue.id \in IdsOf[n]
  BY DEF MadeOK, Made
<1>7. record.members \in Bodies(Contents \cup IdsOf[n])
  BY DEF MadeOK, Made
<1>8. new.id = id
  OBVIOUS
<1> HIDE DEF id, new, n
<1>9. CASE new \in issued
  <2>1. issued' = issued /\ Cardinality(issued') = n
    BY <1>1, <1>4, <1>9
  <2> QED BY <1>1, <2>1 DEF MadeOK, Made, n
<1>10. CASE new \notin issued
  <2>1. Cardinality(issued') = n + 1 /\ n + 1 \in 0..MaxIssues
    BY <1>1, <1>2, <1>4, <1>10
  <2>2. Made' = IdsOf[n + 1]
    BY <2>1 DEF Made
  <2>3. \A issue \in issued' : issue.id \in Made'
    BY <1>1, <1>3, <1>5, <1>6, <1>8, <2>2
  <2>4. record'.members \in Bodies(Contents \cup Made')
    <3>1. \A v : v \in [kind: Kinds, content: Contents \cup IdsOf[n]]
                   => v \in [kind: Kinds, content: Contents \cup IdsOf[n + 1]]
      BY <1>5
    <3> QED BY <1>1, <1>7, <2>2, <3>1, BodyIs
  <2> QED BY <1>4, <2>1, <2>3, <2>4 DEF MadeOK
<1> QED BY <1>9, <1>10

LEMMA MadeKeeps ==
  ASSUME MadeOK, [Next]_idVars
  PROVE  MadeOK'
<1> DEFINE held == [kind: Kinds, content: Contents \cup Made]
<1>1. record.members \in Bodies(Contents \cup Made)
  BY DEF MadeOK
<1>2. ASSUME UNCHANGED issued, record'.members \in Bodies(Contents \cup Made)
      PROVE  MadeOK'
  BY <1>2 DEF MadeOK, Made
<1>3. ASSUME NEW m \in MemberNames, NEW v \in held, UNCHANGED issued,
             record' = [record EXCEPT !.members = WithMember(@, m, v)]
      PROVE  MadeOK'
  <2>1. record'.members \in {record.members, WithMember(record.members, m, v)}
    BY <1>3
  <2>2. WithMember(record.members, m, v) \in Bodies(Contents \cup Made)
    BY <1>1, BodyWithMember
  <2> QED BY <1>1, <1>2, <1>3, <2>1, <2>2
<1>4. ASSUME NEW exclusion \in Exclusions, NEW algorithm \in SupportedAlgorithms,
             Derive(exclusion, algorithm)
      PROVE  MadeOK'
  BY <1>4, DeriveMakes
<1>5. CASE Stamp
  <2>1. PICK i \in issued :
          record' = [record EXCEPT !.members = WithMember(@, CarriedField, IdValue(i.id))]
    BY <1>5 DEF Stamp
  <2>2. IdValue(i.id) \in held
    BY DEF IdValue, Kinds, MadeOK
  <2>3. CarriedField \in MemberNames /\ UNCHANGED issued
    BY <1>5, RecordsAssumption DEF Stamp
  <2> QED BY <1>3, <2>1, <2>2, <2>3
<1>6. ASSUME NEW m \in MemberNames, Edit(m)
      PROVE  MadeOK'
  <2>1. UNCHANGED issued
    BY <1>6 DEF Edit
  <2>2. ASSUME NEW value \in EditChoices,
               record' = [record EXCEPT !.members = WithMember(@, m, value)]
        PROVE  MadeOK'
    <3>1. value \in held
      BY RecordsAssumption DEF Values
    <3> QED BY <1>3, <2>1, <2>2, <3>1
  <2>3. ASSUME record'.members = Restrict(record.members, DOMAIN record.members \ {m})
        PROVE  MadeOK'
    <3>1. record'.members \in Bodies(Contents \cup Made)
      BY <1>1, <2>3, BodyOfPart DEF Restrict
    <3> QED BY <1>2, <2>1, <3>1
  <2>4. ASSUME record' = [record EXCEPT !.repeated = @ \cup {m}]
        PROVE  MadeOK'
    BY <1>1, <1>2, <2>1, <2>4
  <2> QED BY <1>6, <2>2, <2>3, <2>4 DEF Edit
<1>7. CASE UNCHANGED <<record, issued>>
  BY <1>1, <1>2, <1>7
<1>8. CASE UNCHANGED idVars
  BY <1>7, <1>8 DEF idVars
<1>9. ASSUME NEW exclusion, NEW algorithm, NEW vintage, Verify(exclusion, algorithm, vintage)
      PROVE  MadeOK'
  BY <1>7, <1>9 DEF Verify
<1> QED BY <1>4, <1>5, <1>6, <1>8, <1>9 DEF Next

LEMMA MadeInvariant == Spec => []MadeOK
<1>1. Init => MadeOK
  <2> SUFFICES ASSUME Init PROVE MadeOK
    OBVIOUS
  <2>1. issued = {} /\ record.members \in RecordChoices /\ MaxIssues \in Nat
    BY RecordsAssumption DEF Init
  <2>2. IsFiniteSet(issued) /\ Cardinality(issued) = 0
    BY <2>1, FS_EmptySet
  <2>3. Made = {}
    BY <2>2, IdsNext DEF Made
  <2>4. record.members \in Bodies(Contents \cup {})
    <3>1. Contents \cup {} = Contents
      OBVIOUS
    <3>2. record.members \in Bodies(Contents)
      BY <2>1, RecordsAssumption DEF Bodies, Objects, Values
    <3> QED BY <3>1, <3>2
  <2> QED BY <2>1, <2>2, <2>3, <2>4 DEF MadeOK
<1> QED BY <1>1, MadeKeeps, PTL DEF Spec

(* A payload class that hashes the field it carries the id in never has a  *)
(* record that verifies: whatever is stamped, copied or edited, the id of  *)
(* a record is not in it.                                                  *)
THEOREM NoSelfReference == Spec => []SelfReferenceNeverVerifies
<1>1. ASSUME IdInv, MadeOK PROVE SelfReferenceNeverVerifies
  <2> SUFFICES ASSUME IsVerified, CarriesId, CarriedField \notin checked.exclusion
               PROVE  FALSE
    BY DEF SelfReferenceNeverVerifies
  <2> DEFINE left == Left(record.members, checked.exclusion, checked.algorithm)
             id == HashedMembers(record.members, checked.exclusion, checked.algorithm)
             n == Cardinality(issued)
  <2>1. record.members[CarriedField] = IdValue(id)
    BY <1>1, VerifiedMeans DEF CarriesAnother, CarriesId
  <2>2. CarriedField \in left
    <3>1. record.members[CarriedField].kind # "empty"
      BY <2>1 DEF IdValue
    <3> QED BY <3>1 DEF Left, CarriesId
  <2>3. id = [m \in left |-> record.members[m]] /\ left \subseteq DOMAIN record.members
    BY HashedIsRestriction DEF Left
  <2>4. /\ n \in Nat /\ n + 1 \in 0..(MaxIssues + 1)
        /\ record.members \in Bodies(Contents \cup IdsOf[n])
    BY <1>1, RecordsAssumption DEF MadeOK, Made
  <2>5. id \in IdsOf[n + 1]
    <3>1. id \in Bodies(Contents \cup IdsOf[n])
      BY <2>3, <2>4, BodyOfPart
    <3>2. IdsOf[n + 1] = IdsOf[n] \cup Bodies(Contents \cup IdsOf[n])
      BY <2>4, IdsNext
    <3> QED BY <3>1, <3>2
  <2>6. CarriedField \in DOMAIN id /\ id[CarriedField] = IdValue(id)
    BY <2>1, <2>2, <2>3
  <2> QED BY <2>4, <2>5, <2>6, NoIdCoversItself
<1> QED BY <1>1, IdInvariant, MadeInvariant, PTL
=============================================================================
