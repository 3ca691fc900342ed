----------------------------- MODULE CheckProofs -----------------------------
(***************************************************************************)
(* Proofs about cpb-check for every text, every nesting limit and every    *)
(* suite of vectors: what the scanner counts and reports, what exit status *)
(* 0 stands for, what values the scanner returns, and that the checker and *)
(* the canonicalizer, which walk them separately, agree.                   *)
(***************************************************************************)
EXTENDS CpbCheck, FiniteSetTheorems, SequenceTheorems, WellFoundedInduction, TLAPS

-----------------------------------------------------------------------------
(* Brackets: what one more token does to the number that are open.         *)
Places(t, n, S) == {i \in 1..n : t[i] \in S}
Step(x) == IF x \in Openers THEN 1 ELSE IF x \in Closers THEN -1 ELSE 0

LEMMA PlacesGrow ==
  ASSUME NEW t, NEW n \in Nat, NEW S
  PROVE  /\ IsFiniteSet(Places(t, n, S)) /\ Cardinality(Places(t, n, S)) \in Nat
         /\ Cardinality(Places(t, n + 1, S)) =
              Cardinality(Places(t, n, S)) + (IF t[n + 1] \in S THEN 1 ELSE 0)
<1>1. IsFiniteSet(1..n)
  BY FS_Interval
<1>2. IsFiniteSet(Places(t, n, S)) /\ Cardinality(Places(t, n, S)) \in Nat
  BY <1>1, FS_Subset, FS_CardinalityType DEF Places
<1>3. CASE t[n + 1] \in S
  <2>1. Places(t, n + 1, S) = Places(t, n, S) \cup {n + 1} /\ n + 1 \notin Places(t, n, S)
    BY <1>3 DEF Places
  <2> QED BY <1>2, <1>3, <2>1, FS_AddElement
<1>4. CASE t[n + 1] \notin S
  <2>1. Places(t, n + 1, S) = Places(t, n, S)
    BY <1>4 DEF Places
  <2> QED BY <1>2, <1>4, <2>1
<1> QED BY <1>2, <1>3, <1>4

LEMMA OpenByPlaces ==
  ASSUME NEW t, NEW n
  PROVE  OpenAfter(t, n) = Cardinality(Places(t, n, Openers)) - Cardinality(Places(t, n, Closers))
BY DEF OpenAfter, Places

LEMMA OpenSteps ==
  ASSUME NEW t, NEW n \in Nat
  PROVE  OpenAfter(t, n) \in Int /\ OpenAfter(t, n + 1) = OpenAfter(t, n) + Step(t[n + 1])
<1>1. ~(t[n + 1] \in Openers /\ t[n + 1] \in Closers)
  BY DEF Openers, Closers
<1> QED BY <1>1, PlacesGrow, OpenByPlaces DEF Step

LEMMA NothingOpen == OpenAfter(<<>>, 0) = 0
<1>1. Places(<<>>, 0, Openers) = {} /\ Places(<<>>, 0, Closers) = {}
  BY DEF Places
<1> QED BY <1>1, FS_EmptySet, OpenByPlaces

-----------------------------------------------------------------------------
(* p opens the k-th of the brackets that are open after n tokens.          *)
IsOpening(t, p, k, n) ==
  /\ p \in 1..n /\ t[p] \in Openers
  /\ OpenAfter(t, p) = k
  /\ \A q \in p..n : OpenAfter(t, q) >= k

LEMMA OneOpening ==
  ASSUME NEW t, NEW n \in Nat, NEW k, NEW p, NEW q, IsOpening(t, p, k, n), IsOpening(t, q, k, n)
  PROVE  p = q
<1>1. ASSUME NEW a, NEW b, IsOpening(t, a, k, n), IsOpening(t, b, k, n), a < b
      PROVE  FALSE
  <2>1. a \in Nat /\ b \in Nat /\ b - 1 \in Nat /\ b - 1 \in a..n /\ (b - 1) + 1 = b
    BY <1>1 DEF IsOpening
  <2>2. OpenAfter(t, b) = OpenAfter(t, b - 1) + 1
    BY <1>1, <2>1, OpenSteps DEF IsOpening, Step
  <2>3. OpenAfter(t, b - 1) >= k /\ OpenAfter(t, b) = k /\ OpenAfter(t, b - 1) \in Int
    BY <1>1, <2>1, OpenSteps DEF IsOpening
  <2> QED BY <2>2, <2>3
<1>2. p \in Nat /\ q \in Nat
  BY DEF IsOpening
<1> QED BY <1>1, <1>2

(* The bracket around the token at i.                                      *)
Encloses(t, p, i) == IsOpening(t, p, OpenAfter(t, i - 1), i - 1)

LEMMA EnclosingIs ==
  ASSUME NEW t, NEW i \in Nat \ {0}, NEW p, Encloses(t, p, i)
  PROVE  Enclosing(t, i) = p
<1> DEFINE Around(o) == /\ t[o] \in Openers
                        /\ OpenAfter(t, o) = OpenAfter(t, i - 1)
                        /\ \A k \in o..(i - 1) : OpenAfter(t, k) >= OpenAfter(t, o)
           e == CHOOSE o \in 1..(i - 1) : Around(o)
<1>1. p \in 1..(i - 1) /\ Around(p)
  BY DEF Encloses, IsOpening
<1>2. e \in 1..(i - 1) /\ Around(e)
  BY <1>1
<1>3. Encloses(t, e, i)
  BY <1>2 DEF Encloses, IsOpening
<1>4. e = p
  BY <1>3, OneOpening DEF Encloses
<1> QED BY <1>4 DEF Enclosing

(* One token more leaves all that was there as it was.                     *)
IsGrown(t, x, u) ==
  /\ t \in Seq(Tokens) /\ u \in Seq(Tokens) /\ x \in Tokens
  /\ Len(u) = Len(t) + 1 /\ u[Len(t) + 1] = x
  /\ \A i \in 1..Len(t) : u[i] = t[i]
  /\ \A n \in 0..Len(t) : OpenAfter(u, n) = OpenAfter(t, n)
  /\ OpenAfter(u, Len(t) + 1) = OpenAfter(t, Len(t)) + Step(x)

LEMMA TextGrows ==
  ASSUME NEW t \in Seq(Tokens), NEW x \in Tokens
  PROVE  IsGrown(t, x, Append(t, x))
<1> DEFINE u == Append(t, x)
<1>1. /\ u \in Seq(Tokens) /\ Len(u) = Len(t) + 1 /\ u[Len(t) + 1] = x
      /\ \A i \in 1..Len(t) : u[i] = t[i]
      /\ Len(t) \in Nat
  OBVIOUS
<1> HIDE DEF u
<1>2. ASSUME NEW n \in 0..Len(t)
      PROVE  OpenAfter(u, n) = OpenAfter(t, n)
  <2>1. Places(u, n, Openers) = Places(t, n, Openers) /\ Places(u, n, Closers) = Places(t, n, Closers)
    BY <1>1 DEF Places
  <2> QED BY <2>1, OpenByPlaces
<1>3. OpenAfter(u, Len(t) + 1) = OpenAfter(u, Len(t)) + Step(u[Len(t) + 1])
  BY <1>1, OpenSteps
<1>4. OpenAfter(u, Len(t)) = OpenAfter(t, Len(t))
  BY <1>1, <1>2
<1>5. IsGrown(t, x, u)
  BY <1>1, <1>2, <1>3, <1>4 DEF IsGrown
<1> QED BY <1>5 DEF u

LEMMA OpeningsStay ==
  ASSUME NEW t, NEW x, NEW u, IsGrown(t, x, u), NEW p, NEW k
  PROVE  /\ \A n \in 0..Len(t) : IsOpening(u, p, k, n) <=> IsOpening(t, p, k, n)
         /\ IsOpening(t, p, k, Len(t)) /\ OpenAfter(u, Len(u)) >= k => IsOpening(u, p, k, Len(u))
<1>1. Len(t) \in Nat /\ Len(u) = Len(t) + 1
  BY DEF IsGrown
<1>2. ASSUME NEW n \in 0..Len(t)
      PROVE  IsOpening(u, p, k, n) <=> IsOpening(t, p, k, n)
  BY <1>1 DEF IsOpening, IsGrown
<1>3. ASSUME IsOpening(t, p, k, Len(t)), OpenAfter(u, Len(u)) >= k
      PROVE  IsOpening(u, p, k, Len(u))
  <2>1. IsOpening(u, p, k, Len(t))
    BY <1>1, <1>2, <1>3
  <2>2. \A q \in p..Len(u) : q \in p..Len(t) \/ q = Len(u)
    BY <1>1, <2>1 DEF IsOpening
  <2> QED BY <1>1, <1>3, <2>1, <2>2 DEF IsOpening
<1> QED BY <1>2, <1>3

-----------------------------------------------------------------------------
(* Names: which of them stand in one object, and what a colon adds.        *)
NamesWithin(t, p) == {Decoded[t[i]] : i \in {h \in NamePositions(t) : Encloses(t, p, h)}}
RepeatsWithin(t) ==
  {j \in NamePositions(t) :
     \E i \in NamePositions(t) :
       /\ i < j /\ Decoded[t[i]] = Decoded[t[j]]
       /\ \E p : Encloses(t, p, i) /\ Encloses(t, p, j)}
NamesAreEnclosed(t) == \A i \in NamePositions(t) : \E p : Encloses(t, p, i)

(* Once every name has a bracket around it, the two ways to say which of   *)
(* them repeat are one.                                                    *)
LEMMA RepeatsAreWithin ==
  ASSUME NEW t, NamesAreEnclosed(t)
  PROVE  Repeats(t, SameName) = RepeatsWithin(t)
<1>1. \A i \in NamePositions(t) : i \in Nat \ {0}
  BY DEF NamePositions
<1>2. ASSUME NEW i \in NamePositions(t), NEW j \in NamePositions(t)
      PROVE  Enclosing(t, i) = Enclosing(t, j) <=> \E p : Encloses(t, p, i) /\ Encloses(t, p, j)
  <2>1. PICK p : Encloses(t, p, i)
    BY DEF NamesAreEnclosed
  <2>2. PICK q : Encloses(t, q, j)
    BY DEF NamesAreEnclosed
  <2>3. Enclosing(t, i) = p /\ Enclosing(t, j) = q
    BY <1>1, <2>1, <2>2, EnclosingIs
  <2>4. \A r : Encloses(t, r, i) => r = p
    BY <1>1, <2>3, EnclosingIs
  <2>5. \A r : Encloses(t, r, j) => r = q
    BY <1>1, <2>3, EnclosingIs
  <2> QED BY <2>1, <2>2, <2>3, <2>4, <2>5
<1> QED BY <1>2 DEF Repeats, RepeatsWithin, SameName

LEMMA EnclosuresStay ==
  ASSUME NEW t, NEW x, NEW u, IsGrown(t, x, u), NEW p, NEW i \in 1..(Len(t) + 1)
  PROVE  Encloses(u, p, i) <=> Encloses(t, p, i)
<1>1. Len(t) \in Nat /\ i - 1 \in 0..Len(t)
  BY DEF IsGrown
<1>2. OpenAfter(u, i - 1) = OpenAfter(t, i - 1)
  BY <1>1 DEF IsGrown
<1> QED BY <1>1, <1>2, OpeningsStay DEF Encloses

LEMMA NamesStay ==
  ASSUME NEW t, NEW x, NEW u, IsGrown(t, x, u), x # ":"
  PROVE  /\ NamesAreEnclosed(t) => NamesAreEnclosed(u)
         /\ RepeatsWithin(u) = RepeatsWithin(t)
         /\ \A p : NamesWithin(u, p) = NamesWithin(t, p)
<1>1. NamePositions(u) = NamePositions(t)
  BY DEF NamePositions, IsGrown
<1>2. ASSUME NEW i \in NamePositions(t)
      PROVE  u[i] = t[i] /\ \A p : Encloses(u, p, i) <=> Encloses(t, p, i)
  <2>1. i \in 1..Len(t) /\ i \in 1..(Len(t) + 1)
    BY DEF NamePositions, IsGrown
  <2> QED BY <2>1, EnclosuresStay DEF IsGrown
<1>3. NamesAreEnclosed(t) => NamesAreEnclosed(u)
  BY <1>1, <1>2 DEF NamesAreEnclosed
<1>4. RepeatsWithin(u) = RepeatsWithin(t)
  BY <1>1, <1>2 DEF RepeatsWithin
<1>5. ASSUME NEW p
      PROVE  NamesWithin(u, p) = NamesWithin(t, p)
  BY <1>1, <1>2 DEF NamesWithin
<1> QED BY <1>3, <1>4, <1>5

(* A colon makes the string token before it a name of the object around it.*)
LEMMA NameAdded ==
  ASSUME NEW t, NEW u, IsGrown(t, ":", u), NEW n, n = Len(t), n > 0,
         NEW p, Encloses(t, p, n), NamesAreEnclosed(t)
  PROVE  /\ NamesAreEnclosed(u)
         /\ n \notin RepeatsWithin(t)
         /\ RepeatsWithin(u) = RepeatsWithin(t) \cup
              (IF Decoded[t[n]] \in NamesWithin(t, p) THEN {n} ELSE {})
         /\ NamesWithin(u, p) = NamesWithin(t, p) \cup {Decoded[t[n]]}
         /\ \A q : q # p => NamesWithin(u, q) = NamesWithin(t, q)
<1>1. n \in Nat \ {0}
  BY DEF IsGrown
<1>2. NamePositions(u) = NamePositions(t) \cup {n} /\ n \notin NamePositions(t)
      /\ \A i \in NamePositions(t) : i \in 1..(n - 1)
  BY <1>1 DEF NamePositions, IsGrown
<1>3. \A i \in NamePositions(u) : u[i] = t[i] /\ \A q : Encloses(u, q, i) <=> Encloses(t, q, i)
  <2>1. \A i \in NamePositions(u) : i \in 1..Len(t) /\ i \in 1..(Len(t) + 1)
    BY <1>1, <1>2
  <2> QED BY <2>1, EnclosuresStay DEF IsGrown
<1>4. \A q : Encloses(t, q, n) => q = p
  BY <1>1, OneOpening DEF Encloses
<1>5. NamesAreEnclosed(u)
  BY <1>2, <1>3 DEF NamesAreEnclosed
<1>6. n \notin RepeatsWithin(t)
  BY <1>2 DEF RepeatsWithin
<1>7. NamesWithin(u, p) = NamesWithin(t, p) \cup {Decoded[t[n]]}
  BY <1>2, <1>3 DEF NamesWithin
<1>8. ASSUME NEW q, q # p
      PROVE  NamesWithin(u, q) = NamesWithin(t, q)
  BY <1>2, <1>3, <1>4, <1>8 DEF NamesWithin
<1>9. ASSUME NEW j \in NamePositions(t)
      PROVE  j \in RepeatsWithin(u) <=> j \in RepeatsWithin(t)
  BY <1>1, <1>2, <1>3 DEF RepeatsWithin
<1>10. n \in RepeatsWithin(u) <=> Decoded[t[n]] \in NamesWithin(t, p)
  <2>1. n \in RepeatsWithin(u) <=>
          \E i \in NamePositions(t) : Decoded[t[i]] = Decoded[t[n]] /\ Encloses(t, p, i)
    BY <1>1, <1>2, <1>3, <1>4 DEF RepeatsWithin
  <2> QED BY <2>1 DEF NamesWithin
<1>11. RepeatsWithin(u) \subseteq NamePositions(u) /\ RepeatsWithin(t) \subseteq NamePositions(t)
  BY DEF RepeatsWithin
<1> QED BY <1>2, <1>5, <1>6, <1>7, <1>8, <1>9, <1>10, <1>11

-----------------------------------------------------------------------------
(* The stack: one frame for each bracket that is open, with the names that *)
(* were seen within it.                                                    *)
IsFrame(f) ==
  f = [kind |-> f.kind, items |-> f.items, seen |-> f.seen, first |-> f.first,
       awaits |-> f.awaits, key |-> f.key]
IsStack(s) == (\E S : s \in Seq(S)) /\ \A k \in 1..Len(s) : IsFrame(s[k])
StackFits(s, t) ==
  /\ IsStack(s)
  /\ Len(s) = OpenAfter(t, Len(t))
  /\ \A k \in 1..Len(s) : \E p : IsOpening(t, p, k, Len(t)) /\ s[k].seen = NamesWithin(t, p)

(* Frames change in what they wait for and hold; seen only grows at a      *)
(* colon.                                                                  *)
SeesTheSame(r, s, n) ==
  /\ IsStack(r) /\ Len(r) = n
  /\ \A k \in 1..n : r[k].seen = s[k].seen

LEMMA StackStays ==
  ASSUME NEW s, NEW r, NEW t, NEW u, NEW x, StackFits(s, t), IsGrown(t, x, u), x # ":",
         Step(x) = 0, SeesTheSame(r, s, Len(s))
  PROVE  StackFits(r, u)
<1>1. Len(s) \in Nat /\ Len(u) = Len(t) + 1 /\ OpenAfter(u, Len(u)) = Len(s)
  BY OpenSteps DEF StackFits, IsStack, IsGrown
<1>2. ASSUME NEW k \in 1..Len(s)
      PROVE  \E p : IsOpening(u, p, k, Len(u)) /\ r[k].seen = NamesWithin(u, p)
  <2>1. PICK p : IsOpening(t, p, k, Len(t)) /\ s[k].seen = NamesWithin(t, p)
    BY DEF StackFits
  <2>2. IsOpening(u, p, k, Len(u))
    BY <1>1, <2>1, OpeningsStay
  <2>3. NamesWithin(u, p) = NamesWithin(t, p) /\ r[k].seen = s[k].seen
    BY NamesStay DEF SeesTheSame
  <2> QED BY <2>1, <2>2, <2>3
<1> QED BY <1>1, <1>2 DEF StackFits, SeesTheSame

LEMMA StackShrinks ==
  ASSUME NEW s, NEW r, NEW t, NEW u, NEW x \in Closers, StackFits(s, t), IsGrown(t, x, u),
         Len(s) > 0, SeesTheSame(r, s, Len(s) - 1)
  PROVE  StackFits(r, u)
<1>1. Step(x) = -1 /\ x # ":"
  BY DEF Step, Closers, Openers
<1>2. /\ Len(s) \in Nat /\ Len(u) = Len(t) + 1
      /\ OpenAfter(u, Len(u)) = Len(s) - 1
  BY <1>1 DEF StackFits, IsStack, IsGrown
<1>3. ASSUME NEW k \in 1..(Len(s) - 1)
      PROVE  \E p : IsOpening(u, p, k, Len(u)) /\ r[k].seen = NamesWithin(u, p)
  <2>1. PICK p : IsOpening(t, p, k, Len(t)) /\ s[k].seen = NamesWithin(t, p)
    BY <1>2 DEF StackFits
  <2>2. IsOpening(u, p, k, Len(u))
    BY <1>2, <2>1, OpeningsStay
  <2>3. NamesWithin(u, p) = NamesWithin(t, p) /\ r[k].seen = s[k].seen
    BY <1>1, NamesStay DEF SeesTheSame
  <2> QED BY <2>1, <2>2, <2>3
<1> QED BY <1>2, <1>3 DEF StackFits, SeesTheSame

LEMMA StackDeepens ==
  ASSUME NEW s, NEW r, NEW t, NEW u, NEW x \in Openers, StackFits(s, t), IsGrown(t, x, u),
         IsStack(r), Len(r) = Len(s) + 1, r[Len(s) + 1].seen = {},
         \A k \in 1..Len(s) : r[k] = s[k]
  PROVE  StackFits(r, u)
<1>1. Step(x) = 1 /\ x # ":"
  BY DEF Step, Openers
<1>2. /\ Len(s) \in Nat /\ Len(t) \in Nat /\ Len(u) = Len(t) + 1 /\ u[Len(u)] = x
      /\ OpenAfter(u, Len(u)) = Len(s) + 1
  BY <1>1 DEF StackFits, IsStack, IsGrown
<1>3. ASSUME NEW k \in 1..Len(s)
      PROVE  \E p : IsOpening(u, p, k, Len(u)) /\ r[k].seen = NamesWithin(u, p)
  <2>1. PICK p : IsOpening(t, p, k, Len(t)) /\ s[k].seen = NamesWithin(t, p)
    BY <1>2 DEF StackFits
  <2>2. IsOpening(u, p, k, Len(u))
    BY <1>2, <2>1, OpeningsStay
  <2>3. NamesWithin(u, p) = NamesWithin(t, p)
    BY <1>1, NamesStay
  <2> QED BY <2>1, <2>2, <2>3
<1>4. IsOpening(u, Len(u), Len(s) + 1, Len(u))
  BY <1>2 DEF IsOpening
<1>5. NamesWithin(u, Len(u)) = {}
  BY <1>2 DEF NamesWithin, NamePositions, Encloses, IsOpening
<1>6. \A k \in 1..Len(r) : k \in 1..Len(s) \/ k = Len(s) + 1
  BY <1>2
<1>7. \A k \in 1..Len(r) : \E p : IsOpening(u, p, k, Len(u)) /\ r[k].seen = NamesWithin(u, p)
  BY <1>3, <1>4, <1>5, <1>6
<1> QED BY <1>2, <1>7 DEF StackFits

(* At a colon the innermost frame is the one the name is added to.         *)
LEMMA StackSeesAName ==
  ASSUME NEW s, NEW r, NEW t, NEW u, StackFits(s, t), IsGrown(t, ":", u), NamesAreEnclosed(t),
         Len(s) > 0, Len(t) > 0, t[Len(t)] \in Spellings,
         IsStack(r), Len(r) = Len(s),
         r[Len(s)].seen = s[Len(s)].seen \cup {Decoded[t[Len(t)]]},
         \A k \in 1..(Len(s) - 1) : r[k] = s[k]
  PROVE  /\ StackFits(r, u) /\ NamesAreEnclosed(u)
         /\ Len(t) \notin RepeatsWithin(t)
         /\ RepeatsWithin(u) = RepeatsWithin(t) \cup
              (IF Decoded[t[Len(t)]] \in s[Len(s)].seen THEN {Len(t)} ELSE {})
<1> DEFINE n == Len(t) d == Len(s)
<1>1. /\ d \in Nat /\ n \in Nat /\ n - 1 \in Nat /\ (n - 1) + 1 = n /\ n > 0 /\ d > 0
      /\ Len(u) = n + 1 /\ OpenAfter(t, n) = d
  BY DEF StackFits, IsStack, IsGrown
<1>2. Step(t[n]) = 0 /\ t[n] \notin Openers /\ Step(":") = 0
  BY SpellingsAssumption DEF Step, Openers, Closers
<1>3. OpenAfter(u, Len(u)) = d
  BY <1>1, <1>2 DEF IsGrown
<1> HIDE DEF n, d
<1>4. OpenAfter(t, n - 1) = d
  <2>1. OpenAfter(t, n - 1) \in Int /\ OpenAfter(t, n) = OpenAfter(t, n - 1) + Step(t[n])
    BY <1>1, OpenSteps, Zenon
  <2> QED BY <1>1, <1>2, <2>1
<1>5. PICK p : IsOpening(t, p, d, n) /\ s[d].seen = NamesWithin(t, p)
  BY <1>1 DEF StackFits, n, d
<1>6. Encloses(t, p, n)
  <2>1. p # n
    BY <1>2, <1>5 DEF IsOpening
  <2>2. p \in 1..(n - 1) /\ \A q \in p..(n - 1) : q \in p..n
    BY <1>1, <1>5, <2>1 DEF IsOpening
  <2> QED BY <1>4, <1>5, <2>2 DEF Encloses, IsOpening
<1>7. /\ NamesAreEnclosed(u) /\ n \notin RepeatsWithin(t)
      /\ RepeatsWithin(u) = RepeatsWithin(t) \cup (IF Decoded[t[n]] \in NamesWithin(t, p) THEN {n} ELSE {})
      /\ NamesWithin(u, p) = NamesWithin(t, p) \cup {Decoded[t[n]]}
      /\ \A q : q # p => NamesWithin(u, q) = NamesWithin(t, q)
  BY <1>1, <1>6, NameAdded DEF n
<1>8. ASSUME NEW k \in 1..d
      PROVE  \E q : IsOpening(u, q, k, Len(u)) /\ r[k].seen = NamesWithin(u, q)
  <2>1. CASE k = d
    <3>1. IsOpening(u, p, d, Len(u))
      BY <1>1, <1>3, <1>5, OpeningsStay DEF n
    <3>2. r[d].seen = NamesWithin(u, p)
      BY <1>5, <1>7 DEF n, d
    <3> QED BY <2>1, <3>1, <3>2
  <2>2. CASE k # d
    <3>1. PICK q : IsOpening(t, q, k, n) /\ s[k].seen = NamesWithin(t, q)
      BY DEF StackFits, n, d
    <3>2. q # p
      BY <1>5, <2>2, <3>1 DEF IsOpening
    <3>3. IsOpening(u, q, k, Len(u))
      BY <1>1, <1>3, <3>1, OpeningsStay DEF n
    <3>4. r[k] = s[k]
      BY <1>1, <2>2 DEF d
    <3> QED BY <1>7, <3>1, <3>2, <3>3, <3>4
  <2> QED BY <2>1, <2>2
<1>9. StackFits(r, u)
  BY <1>3, <1>8 DEF StackFits, d
<1> QED BY <1>5, <1>7, <1>9 DEF n, d

-----------------------------------------------------------------------------
(* How the actions change the stack.                                       *)
LEMMA EmptyStack == IsStack(<<>>) /\ Len(<<>>) = 0
<1>1. <<>> \in Seq({}) /\ Len(<<>>) = 0
  OBVIOUS
<1> QED BY <1>1 DEF IsStack

LEMMA Pushed ==
  ASSUME NEW s, IsStack(s), NEW f, IsFrame(f)
  PROVE  /\ IsStack(Append(s, f)) /\ Len(Append(s, f)) = Len(s) + 1
         /\ Append(s, f)[Len(s) + 1] = f
         /\ \A k \in 1..Len(s) : Append(s, f)[k] = s[k]
<1>1. PICK S : s \in Seq(S)
  BY DEF IsStack
<1>2. s \in Seq(S \cup {f}) /\ f \in S \cup {f}
  BY <1>1
<1>3. /\ Append(s, f) \in Seq(S \cup {f}) /\ Len(Append(s, f)) = Len(s) + 1
      /\ Append(s, f)[Len(s) + 1] = f
      /\ \A k \in 1..Len(s) : Append(s, f)[k] = s[k]
  BY <1>2
<1>4. \A k \in 1..Len(Append(s, f)) : k \in 1..Len(s) \/ k = Len(s) + 1
  BY <1>1, <1>3
<1> QED BY <1>3, <1>4 DEF IsStack

LEMMA Popped ==
  ASSUME NEW s, IsStack(s), s # <<>>
  PROVE  LET r == SubSeq(s, 1, Len(s) - 1) IN
         /\ IsStack(r) /\ Len(s) \in Nat /\ Len(s) > 0 /\ Len(r) = Len(s) - 1
         /\ \A k \in 1..(Len(s) - 1) : r[k] = s[k]
<1> DEFINE r == SubSeq(s, 1, Len(s) - 1)
<1>1. PICK S : s \in Seq(S)
  BY DEF IsStack
<1>2. Len(s) \in Nat /\ Len(s) > 0
  BY <1>1
<1>3. r \in Seq(S) /\ Len(r) = Len(s) - 1 /\ \A k \in 1..(Len(s) - 1) : r[k] = s[k]
  <2> DEFINE n == Len(s) - 1
  <2>1. n \in Int /\ 1 \in Int /\ n >= 0 /\ \A i \in 1..n : s[i] \in S
    BY <1>1, <1>2
  <2> HIDE DEF n
  <2>2. /\ SubSeq(s, 1, n) \in Seq(S) /\ Len(SubSeq(s, 1, n)) = n
        /\ \A i \in 1..n : SubSeq(s, 1, n)[i] = s[i]
    BY <2>1
  <2> QED BY <2>2 DEF n
<1>4. \A k \in 1..Len(r) : IsFrame(r[k])
  BY <1>2, <1>3 DEF IsStack
<1> QED BY <1>2, <1>3, <1>4 DEF IsStack

LEMMA Replaced ==
  ASSUME NEW s, IsStack(s), s # <<>>, NEW f, IsFrame(f)
  PROVE  LET r == [s EXCEPT ![Len(s)] = f] IN
         /\ IsStack(r) /\ Len(s) \in Nat /\ Len(s) > 0 /\ Len(r) = Len(s) /\ r[Len(s)] = f
         /\ \A k \in 1..(Len(s) - 1) : r[k] = s[k]
<1> DEFINE r == [s EXCEPT ![Len(s)] = f]
<1>1. PICK S : s \in Seq(S)
  BY DEF IsStack
<1>2. Len(s) \in Nat /\ Len(s) > 0
  BY <1>1
<1>3. r \in Seq(S \cup {f}) /\ Len(r) = Len(s) /\ r[Len(s)] = f
      /\ \A k \in 1..(Len(s) - 1) : r[k] = s[k]
  BY <1>1, <1>2
<1> HIDE DEF r
<1>4. \A k \in 1..Len(r) : k \in 1..(Len(s) - 1) \/ k = Len(s)
  BY <1>2, <1>3
<1>5. \A k \in 1..Len(r) : IsFrame(r[k])
  BY <1>2, <1>3, <1>4 DEF IsStack
<1>6. IsStack(r)
  BY <1>3, <1>5 DEF IsStack
<1> QED BY <1>2, <1>3, <1>6 DEF r

(* What a value returned to a frame changes in it.                         *)
LEMMA FrameReceives ==
  ASSUME NEW c, IsFrame(c), NEW k, NEW f,
         f = [c EXCEPT !.items = k, !.first = FALSE, !.awaits = "item"]
  PROVE  IsFrame(f) /\ f.seen = c.seen /\ f.awaits = "item"
<1> DEFINE r == [kind |-> c.kind, items |-> k, seen |-> c.seen, first |-> FALSE,
                 awaits |-> "item", key |-> c.key]
<1>1. f = r
  BY DEF IsFrame
<1> QED BY <1>1 DEF IsFrame

(* WithTop puts a frame in place of the innermost one.                     *)
LEMMA TopReplaced ==
  ASSUME IsStack(stack), stack # <<>>, NEW f, IsFrame(f)
  PROVE  /\ IsStack(WithTop(f)) /\ Len(stack) \in Nat /\ Len(stack) > 0
         /\ Len(WithTop(f)) = Len(stack) /\ WithTop(f)[Len(stack)] = f
         /\ \A k \in 1..(Len(stack) - 1) : WithTop(f)[k] = stack[k]
         /\ IsFrame(Top)
<1> DEFINE b == SubSeq(stack, 1, Len(stack) - 1)
<1>1. /\ IsStack(b) /\ Len(stack) \in Nat /\ Len(stack) > 0 /\ Len(b) = Len(stack) - 1
      /\ \A k \in 1..(Len(stack) - 1) : b[k] = stack[k]
  BY Popped
<1> HIDE DEF b
<1>2. /\ IsStack(Append(b, f)) /\ Len(Append(b, f)) = Len(stack)
      /\ Append(b, f)[Len(stack)] = f
      /\ \A k \in 1..(Len(stack) - 1) : Append(b, f)[k] = stack[k]
  BY <1>1, Pushed
<1>3. WithTop(f) = Append(b, f)
  BY DEF WithTop, Below, b
<1>4. IsFrame(Top)
  BY <1>1 DEF IsStack, Top
<1> QED BY <1>1, <1>2, <1>3, <1>4

LEMMA ReturnedTo ==
  ASSUME NEW c, IsStack(c), NEW v, Returned(v, c)
  PROVE  /\ SeesTheSame(stack', c, Len(c))
         /\ stack' # <<>> => stack'[Len(stack')].awaits = "item"
<1>1. CASE c = <<>>
  <2>1. stack' = <<>>
    BY <1>1 DEF Returned
  <2> QED BY <1>1, <2>1, EmptyStack DEF SeesTheSame
<1>2. CASE c # <<>>
  <2> DEFINE caller == c[Len(c)]
             kept == IF caller.kind = "object" THEN Assign(caller.items, caller.key, v)
                     ELSE Append(caller.items, Item("", v))
             f == [caller EXCEPT !.items = kept, !.first = FALSE, !.awaits = "item"]
  <2>1. stack' = [c EXCEPT ![Len(c)] = f]
    BY <1>2 DEF Returned
  <2>2. Len(c) \in Nat /\ Len(c) > 0
    BY <1>2, Popped
  <2>3. IsFrame(caller)
    BY <2>2 DEF IsStack
  <2> HIDE DEF kept, caller
  <2>4. IsFrame(f) /\ f.seen = caller.seen /\ f.awaits = "item"
    BY <2>3, FrameReceives
  <2> HIDE DEF f
  <2>5. /\ IsStack(stack') /\ Len(stack') = Len(c) /\ stack'[Len(c)] = f
        /\ \A k \in 1..(Len(c) - 1) : stack'[k] = c[k]
    BY <1>2, <2>1, <2>4, Replaced
  <2>6. \A k \in 1..Len(c) : k \in 1..(Len(c) - 1) \/ k = Len(c)
    BY <2>2
  <2> QED BY <2>4, <2>5, <2>6 DEF SeesTheSame, caller
<1> QED BY <1>1, <1>2

-----------------------------------------------------------------------------
(* The inductive invariant of the scan.                                    *)
NameIsLast ==
  stack # <<>> /\ Top.awaits = "colon" =>
    Len(text) > 0 /\ text[Len(text)] \in Spellings /\ Top.key = Decoded[text[Len(text)]]
Counted ==
  /\ found \in [Codes -> Nat]
  /\ NamesAreEnclosed(text)
  /\ found["duplicate_key"] = Cardinality(RepeatsWithin(text))
Descended ==
  /\ StackFits(stack, text)
  /\ depth = Len(stack) /\ depth <= MaxDepth
  /\ NameIsLast
ScanInv ==
  /\ text \in Seq(Tokens)
  /\ outcome \in {"scanning", "parsed"} => Counted
  /\ outcome = "scanning" => Descended
  /\ outcome = "too_deep" => OpenAfter(text, Len(text)) > MaxDepth

LEMMA RepeatsAreFinite ==
  ASSUME NEW t \in Seq(Tokens)
  PROVE  IsFiniteSet(RepeatsWithin(t)) /\ Cardinality(RepeatsWithin(t)) \in Nat
<1>1. Len(t) \in Nat /\ Len(t) - 1 \in Int /\ 1 \in Int
  OBVIOUS
<1>2. IsFiniteSet(1..(Len(t) - 1))
  BY <1>1, FS_Interval
<1>3. RepeatsWithin(t) \subseteq 1..(Len(t) - 1)
  BY DEF RepeatsWithin, NamePositions
<1> QED BY <1>2, <1>3, FS_Subset, FS_CardinalityType

LEMMA PlainTokens ==
  ASSUME NEW x
  PROVE  /\ x \in Scalars => x \in Tokens /\ Step(x) = 0 /\ x # ":"
         /\ x \in Spellings => x \in Scalars
         /\ x \in Openers => x \in Tokens
         /\ x \in Closers => x \in Tokens
<1>1. x \in Spellings => x \notin Openers /\ x \notin Closers /\ x # ":"
  BY SpellingsAssumption
<1> QED BY <1>1 DEF Scalars, Tokens, Step, Openers, Closers, NumberTokens, ForeignNumbers

LEMMA Separators ==
  /\ "," \in Tokens /\ Step(",") = 0
  /\ ":" \in Tokens /\ Step(":") = 0
BY DEF Tokens, Step, Openers, Closers

LEMMA ReadGrows ==
  ASSUME ScanInv, NEW x \in Tokens, Read(x)
  PROVE  /\ IsGrown(text, x, text') /\ text' \in Seq(Tokens)
         /\ outcome = "scanning" /\ Counted /\ Descended
BY TextGrows DEF ScanInv, Read, IsGrown

LEMMA Recorded ==
  ASSUME found \in [Codes -> Nat], NEW codes, Record(codes)
  PROVE  /\ found' \in [Codes -> Nat]
         /\ \A c \in Codes : found'[c] = found[c] + (IF c \in codes THEN 1 ELSE 0)
         /\ found'["duplicate_key"] =
              found["duplicate_key"] + (IF "duplicate_key" \in codes THEN 1 ELSE 0)
<1>1. "duplicate_key" \in Codes
  BY DEF Codes
<1>2. \A c \in Codes : found[c] \in Nat /\ found[c] + 1 \in Nat
  OBVIOUS
<1>3. found' = [c \in Codes |-> IF c \in codes THEN found[c] + 1 ELSE found[c]]
  BY DEF Record
<1> QED BY <1>1, <1>2, <1>3

LEMMA CountedStays ==
  ASSUME Counted, NEW x, IsGrown(text, x, text'), x # ":",
         found' \in [Codes -> Nat], found'["duplicate_key"] = found["duplicate_key"]
  PROVE  Counted'
BY NamesStay DEF Counted

(* A token that is no bracket and no colon, read by an action that leaves  *)
(* what the frames saw.                                                    *)
LEMMA TokenKeeps ==
  ASSUME ScanInv, NEW x \in Tokens, Read(x), Step(x) = 0, x # ":", UNCHANGED <<depth, outcome>>,
         found' \in [Codes -> Nat], found'["duplicate_key"] = found["duplicate_key"],
         SeesTheSame(stack', stack, Len(stack)), NameIsLast'
  PROVE  ScanInv'
<1>1. /\ IsGrown(text, x, text') /\ text' \in Seq(Tokens)
      /\ outcome = "scanning" /\ Counted /\ Descended
  BY ReadGrows
<1>2. Counted'
  BY <1>1, CountedStays
<1>3. StackFits(stack', text') /\ Len(stack') = Len(stack)
  BY <1>1, StackStays DEF Descended, SeesTheSame
<1>4. Descended'
  BY <1>1, <1>3 DEF Descended
<1> QED BY <1>1, <1>2, <1>4 DEF ScanInv

(* What the actions that only rewrite the innermost frame make of it.      *)
LEMMA FrameWaits ==
  ASSUME NEW c, IsFrame(c), NEW w, NEW f, f = [c EXCEPT !.awaits = w]
  PROVE  IsFrame(f) /\ f.seen = c.seen /\ f.awaits = w
<1> DEFINE r == [kind |-> c.kind, items |-> c.items, seen |-> c.seen, first |-> c.first,
                 awaits |-> w, key |-> c.key]
<1>1. f = r
  BY DEF IsFrame
<1> QED BY <1>1 DEF IsFrame

Named(c, n) == [c EXCEPT !.key = n, !.first = FALSE, !.awaits = "colon"]

LEMMA FrameNames ==
  ASSUME NEW c, IsFrame(c), NEW n, NEW f, f = Named(c, n)
  PROVE  IsFrame(f) /\ f.seen = c.seen /\ f.key = n
<1> DEFINE r == [kind |-> c.kind, items |-> c.items, seen |-> c.seen, first |-> FALSE,
                 awaits |-> "colon", key |-> n]
<1>1. f = r
  BY DEF IsFrame, Named
<1> QED BY <1>1 DEF IsFrame

LEMMA FrameSees ==
  ASSUME NEW c, IsFrame(c), NEW n, NEW f,
         f = [c EXCEPT !.seen = @ \cup {n}, !.awaits = "value"]
  PROVE  IsFrame(f) /\ f.seen = c.seen \cup {n} /\ f.awaits = "value"
<1> DEFINE r == [kind |-> c.kind, items |-> c.items, seen |-> c.seen \cup {n}, first |-> c.first,
                 awaits |-> "value", key |-> c.key]
<1>1. f = r
  BY DEF IsFrame
<1> QED BY <1>1 DEF IsFrame

LEMMA TopIsAFrame ==
  ASSUME IsStack(stack), stack # <<>>
  PROVE  IsFrame(Top) /\ Len(stack) \in Nat /\ Len(stack) > 0
<1>1. Len(stack) \in Nat /\ Len(stack) > 0
  BY Popped
<1> QED BY <1>1 DEF IsStack, Top

(* A new innermost frame that saw what the old one saw.                    *)
LEMMA TopSeesTheSame ==
  ASSUME IsStack(stack), stack # <<>>, NEW f, IsFrame(f), f.seen = Top.seen, stack' = WithTop(f)
  PROVE  /\ SeesTheSame(stack', stack, Len(stack)) /\ stack' # <<>>
         /\ stack'[Len(stack')] = f /\ Len(stack') = Len(stack)
<1>1. /\ IsStack(stack') /\ Len(stack) \in Nat /\ Len(stack) > 0
      /\ Len(stack') = Len(stack) /\ stack'[Len(stack)] = f
      /\ \A k \in 1..(Len(stack) - 1) : stack'[k] = stack[k]
  BY TopReplaced
<1>2. \A k \in 1..Len(stack) : k \in 1..(Len(stack) - 1) \/ k = Len(stack)
  BY <1>1
<1>3. stack' # <<>>
  BY <1>1, EmptyStack
<1> QED BY <1>1, <1>2, <1>3 DEF SeesTheSame, Top

-----------------------------------------------------------------------------
(* The actions of the scanner.                                             *)
LEMMA ScanStart ==
  ASSUME ScannerInit
  PROVE  ScanInv
<1>1. text = <<>> /\ stack = <<>> /\ depth = 0 /\ outcome = "scanning"
      /\ found = [c \in Codes |-> 0]
  BY DEF ScannerInit
<1>2. text \in Seq(Tokens) /\ Len(text) = 0
  BY <1>1
<1>3. NamePositions(text) = {}
  BY <1>2 DEF NamePositions
<1>4. RepeatsWithin(text) = {} /\ NamesAreEnclosed(text)
  BY <1>3 DEF RepeatsWithin, NamesAreEnclosed
<1>5. found \in [Codes -> Nat] /\ found["duplicate_key"] = 0
  BY <1>1 DEF Codes
<1>6. Counted
  BY <1>4, <1>5, FS_EmptySet DEF Counted
<1>7. StackFits(stack, text) /\ Len(stack) = 0
  BY <1>1, <1>2, EmptyStack, NothingOpen DEF StackFits
<1>8. Descended
  BY <1>1, <1>7, DepthAssumption DEF Descended, NameIsLast
<1> QED BY <1>1, <1>2, <1>6, <1>8 DEF ScanInv

LEMMA ReadScalarKeeps ==
  ASSUME ScanInv, NEW t, ReadScalar(t)
  PROVE  ScanInv'
<1>1. t \in Tokens /\ Step(t) = 0 /\ t # ":" /\ Read(t) /\ UNCHANGED <<depth, outcome>>
  BY PlainTokens DEF ReadScalar
<1>2. Counted /\ IsStack(stack)
  BY <1>1, ReadGrows DEF Descended, StackFits
<1>3. "duplicate_key" \notin NumberCode(t)
  BY DEF NumberCode, LooseForms, ForeignNumbers
<1>4. found' \in [Codes -> Nat] /\ found'["duplicate_key"] = found["duplicate_key"]
  <2>1. Record(NumberCode(t)) /\ found \in [Codes -> Nat] /\ found["duplicate_key"] \in Nat
    BY <1>2 DEF ReadScalar, Counted, Codes
  <2> QED BY <1>3, <2>1, Recorded
<1>5. /\ SeesTheSame(stack', stack, Len(stack))
      /\ stack' # <<>> => stack'[Len(stack')].awaits = "item"
  BY <1>2, ReturnedTo DEF ReadScalar
<1>6. NameIsLast'
  BY <1>5 DEF NameIsLast, Top
<1> QED BY <1>1, <1>4, <1>5, <1>6, TokenKeeps

LEMMA OpenKeeps ==
  ASSUME ScanInv, NEW t, Open(t)
  PROVE  ScanInv'
<1>1. /\ t \in Tokens /\ t \in Openers /\ Read(t) /\ Step(t) = 1 /\ t # ":"
      /\ depth' = depth + 1 /\ UNCHANGED found
  BY PlainTokens DEF Open, Step, Openers
<1>2. /\ IsGrown(text, t, text') /\ text' \in Seq(Tokens)
      /\ outcome = "scanning" /\ Counted /\ Descended
  BY <1>1, ReadGrows
<1>3. Counted'
  BY <1>1, <1>2, CountedStays DEF Counted
<1>4. CASE depth' > MaxDepth
  <2>1. outcome' = "too_deep"
    BY <1>4 DEF Open
  <2>2. OpenAfter(text', Len(text')) = Len(stack) + 1
    BY <1>1, <1>2 DEF IsGrown, Descended, StackFits
  <2>3. OpenAfter(text', Len(text')) > MaxDepth
    BY <1>1, <1>2, <1>4, <2>2 DEF Descended
  <2> QED BY <1>2, <2>1, <2>3 DEF ScanInv
<1>5. CASE ~(depth' > MaxDepth)
  <2>1. stack' = Append(stack, Frame(t)) /\ outcome' = "scanning"
    BY <1>2, <1>5 DEF Open
  <2>2. IsFrame(Frame(t)) /\ Frame(t).seen = {} /\ Frame(t).awaits = "item"
    BY DEF Frame, IsFrame
  <2>3. /\ IsStack(stack') /\ Len(stack') = Len(stack) + 1
        /\ stack'[Len(stack) + 1] = Frame(t)
        /\ \A k \in 1..Len(stack) : stack'[k] = stack[k]
    BY <1>2, <2>1, <2>2, Pushed DEF Descended, StackFits
  <2>4. StackFits(stack', text')
    BY <1>1, <1>2, <2>2, <2>3, StackDeepens DEF Descended
  <2>5. NameIsLast'
    BY <2>2, <2>3 DEF NameIsLast, Top
  <2>6. Len(stack) \in Nat
    BY <1>2 DEF Descended, StackFits, IsStack
  <2>7. Descended'
    BY <1>1, <1>2, <1>5, <2>3, <2>4, <2>5, <2>6, DepthAssumption DEF Descended
  <2> QED BY <1>2, <1>3, <2>1, <2>7 DEF ScanInv
<1> QED BY <1>4, <1>5

LEMMA CloseKeeps ==
  ASSUME ScanInv, NEW t, Close(t)
  PROVE  ScanInv'
<1>1. /\ t \in Tokens /\ t \in Closers /\ Read(t) /\ t # ":" /\ stack # <<>>
      /\ depth' = depth - 1 /\ UNCHANGED <<found, outcome>>
      /\ Returned(Tree(Top.kind, Top.items), Below)
  BY PlainTokens DEF Close, Closers
<1>2. /\ IsGrown(text, t, text') /\ text' \in Seq(Tokens)
      /\ outcome = "scanning" /\ Counted /\ Descended
  BY <1>1, ReadGrows
<1>3. Counted'
  BY <1>1, <1>2, CountedStays DEF Counted
<1>4. /\ IsStack(Below) /\ Len(stack) \in Nat /\ Len(stack) > 0 /\ Len(Below) = Len(stack) - 1
      /\ \A k \in 1..(Len(stack) - 1) : Below[k] = stack[k]
  BY <1>1, <1>2, Popped DEF Descended, StackFits, Below
<1>5. /\ SeesTheSame(stack', Below, Len(Below))
      /\ stack' # <<>> => stack'[Len(stack')].awaits = "item"
  BY <1>1, <1>4, ReturnedTo
<1>6. SeesTheSame(stack', stack, Len(stack) - 1)
  BY <1>4, <1>5 DEF SeesTheSame
<1>7. StackFits(stack', text') /\ Len(stack') = Len(stack) - 1
  BY <1>1, <1>2, <1>4, <1>6, StackShrinks DEF Descended, SeesTheSame
<1>8. NameIsLast'
  BY <1>5 DEF NameIsLast, Top
<1>9. Descended'
  BY <1>1, <1>2, <1>4, <1>7, <1>8, DepthAssumption DEF Descended
<1> QED BY <1>1, <1>2, <1>3, <1>9 DEF ScanInv

LEMMA CommaKeeps ==
  ASSUME ScanInv, Comma
  PROVE  ScanInv'
<1> DEFINE w == IF Top.kind = "object" THEN "key" ELSE "value"
           f == [Top EXCEPT !.awaits = w]
<1>1. /\ stack # <<>> /\ Read(",") /\ stack' = WithTop(f)
      /\ UNCHANGED <<depth, found, outcome>>
  BY DEF Comma
<1>2. Counted /\ Descended
  BY <1>1, ReadGrows, Separators, Zenon
<1>3. IsStack(stack) /\ IsFrame(Top)
  BY <1>1, <1>2, TopIsAFrame DEF Descended, StackFits
<1> HIDE DEF w
<1>4. IsFrame(f) /\ f.seen = Top.seen /\ f.awaits = w
  BY <1>3, FrameWaits
<1> HIDE DEF f
<1>5. SeesTheSame(stack', stack, Len(stack)) /\ stack'[Len(stack')] = f
  BY <1>1, <1>3, <1>4, TopSeesTheSame
<1>6. NameIsLast'
  BY <1>4, <1>5 DEF NameIsLast, Top, w
<1> QED BY <1>1, <1>2, <1>5, <1>6, TokenKeeps, Separators DEF Counted

LEMMA ReadNameKeeps ==
  ASSUME ScanInv, NEW t, ReadName(t)
  PROVE  ScanInv'
<1> DEFINE f == Named(Top, Decoded[t])
<1>1. /\ t \in Tokens /\ t \in Spellings /\ Step(t) = 0 /\ t # ":" /\ stack # <<>> /\ Read(t)
      /\ stack' = WithTop(f) /\ UNCHANGED <<depth, found, outcome>>
  BY PlainTokens DEF ReadName, NameExpected, InObject, Named
<1>2. /\ IsGrown(text, t, text') /\ Counted /\ IsStack(stack) /\ IsFrame(Top)
  BY <1>1, ReadGrows, TopIsAFrame DEF Descended, StackFits
<1>3. IsFrame(f) /\ f.seen = Top.seen /\ f.key = Decoded[t]
  BY <1>2, FrameNames
<1> HIDE DEF f
<1>4. SeesTheSame(stack', stack, Len(stack)) /\ stack'[Len(stack')] = f
  BY <1>1, <1>2, <1>3, TopSeesTheSame
<1>5. Len(text') > 0 /\ text'[Len(text')] = t
  BY <1>2 DEF IsGrown
<1>6. NameIsLast'
  BY <1>1, <1>3, <1>4, <1>5 DEF NameIsLast, Top
<1> QED BY <1>1, <1>2, <1>4, <1>6, TokenKeeps DEF Counted

LEMMA ColonKeeps ==
  ASSUME ScanInv, Colon
  PROVE  ScanInv'
<1> DEFINE n == Len(text)
           k == Top.key
           f == [Top EXCEPT !.seen = @ \cup {k}, !.awaits = "value"]
<1>1. /\ stack # <<>> /\ Top.awaits = "colon" /\ Read(":")
      /\ Record(IF Top.key \in Top.seen THEN {"duplicate_key"} ELSE {})
      /\ stack' = WithTop(f) /\ UNCHANGED <<depth, outcome>>
  BY DEF Colon, InObject
<1>2. /\ IsGrown(text, ":", text') /\ text' \in Seq(Tokens)
      /\ outcome = "scanning" /\ Counted /\ Descended
  BY <1>1, ReadGrows, Separators, Zenon
<1>3. IsStack(stack) /\ IsFrame(Top)
  BY <1>1, <1>2, TopIsAFrame DEF Descended, StackFits
<1> HIDE DEF k
<1>4. IsFrame(f) /\ f.seen = Top.seen \cup {k} /\ f.awaits = "value"
  BY <1>3, FrameSees
<1> HIDE DEF f
<1>5. /\ IsStack(stack') /\ Len(stack) \in Nat /\ Len(stack) > 0
      /\ Len(stack') = Len(stack) /\ stack'[Len(stack)] = f
      /\ \A i \in 1..(Len(stack) - 1) : stack'[i] = stack[i]
  BY <1>1, <1>3, <1>4, TopReplaced
<1>6. n > 0 /\ text[n] \in Spellings /\ Top.key = Decoded[text[n]]
  BY <1>1, <1>2 DEF Descended, NameIsLast
<1>7. stack'[Len(stack)].seen = stack[Len(stack)].seen \cup {Decoded[text[n]]}
  BY <1>4, <1>5, <1>6 DEF Top, k
<1>a. StackFits(stack, text) /\ NamesAreEnclosed(text)
  BY <1>2 DEF Counted, Descended
<1>8. /\ StackFits(stack', text') /\ NamesAreEnclosed(text')
      /\ n \notin RepeatsWithin(text)
      /\ RepeatsWithin(text') = RepeatsWithin(text) \cup
           (IF Decoded[text[n]] \in stack[Len(stack)].seen THEN {n} ELSE {})
  BY <1>2, <1>5, <1>6, <1>7, <1>a, StackSeesAName
<1> HIDE DEF n
<1>9. RepeatsWithin(text') = RepeatsWithin(text) \cup (IF Top.key \in Top.seen THEN {n} ELSE {})
  BY <1>6, <1>8 DEF Top
<1>10. /\ found' \in [Codes -> Nat]
       /\ found'["duplicate_key"] = found["duplicate_key"] + (IF Top.key \in Top.seen THEN 1 ELSE 0)
  BY <1>1, <1>2, Recorded DEF Counted
<1>11. /\ IsFiniteSet(RepeatsWithin(text)) /\ Cardinality(RepeatsWithin(text)) \in Nat
       /\ found["duplicate_key"] = Cardinality(RepeatsWithin(text))
  BY <1>2, RepeatsAreFinite DEF Counted, ScanInv
<1>12. found'["duplicate_key"] = Cardinality(RepeatsWithin(text'))
  <2>1. CASE Top.key \in Top.seen
    <3>1. Cardinality(RepeatsWithin(text) \cup {n}) = Cardinality(RepeatsWithin(text)) + 1
      BY <1>8, <1>11, FS_AddElement
    <3> QED BY <1>9, <1>10, <1>11, <2>1, <3>1
  <2>2. CASE Top.key \notin Top.seen
    <3>1. RepeatsWithin(text') = RepeatsWithin(text)
      BY <1>9, <2>2
    <3> QED BY <1>10, <1>11, <2>2, <3>1
  <2> QED BY <2>1, <2>2
<1>13. Counted'
  BY <1>8, <1>10, <1>12 DEF Counted
<1>14. NameIsLast'
  BY <1>4, <1>5 DEF NameIsLast, Top
<1>15. Descended'
  BY <1>1, <1>2, <1>5, <1>8, <1>14 DEF Descended
<1> QED BY <1>1, <1>2, <1>13, <1>15 DEF ScanInv

LEMMA ScanStops ==
  ASSUME ScanInv, EndOfText \/ \E t \in Tokens : Unexpected(t)
  PROVE  ScanInv'
<1>1. CASE EndOfText
  <2>1. UNCHANGED <<text, found>> /\ outcome = "scanning" /\ outcome' \in {"parsed", "error"}
    BY <1>1 DEF EndOfText
  <2>2. text' \in Seq(Tokens) /\ Counted'
    BY <2>1 DEF ScanInv, Counted
  <2> QED BY <2>1, <2>2 DEF ScanInv
<1>2. ASSUME NEW t \in Tokens, Unexpected(t)
      PROVE  ScanInv'
  <2>1. Read(t) /\ outcome' = "error"
    BY <1>2 DEF Unexpected
  <2>2. text' \in Seq(Tokens)
    BY <2>1, ReadGrows
  <2> QED BY <2>1, <2>2 DEF ScanInv
<1> QED BY <1>1, <1>2

LEMMA ScanKeeps ==
  ASSUME ScanInv, ScannerNext
  PROVE  ScanInv'
BY ReadScalarKeeps, OpenKeeps, CloseKeeps, ReadNameKeeps, CommaKeeps, ColonKeeps, ScanStops
   DEF ScannerNext

LEMMA ScanWaits ==
  ASSUME ScanInv, UNCHANGED scannerVars
  PROVE  ScanInv'
BY DEF ScanInv, Counted, Descended, NameIsLast, Top, scannerVars

(* The command reads the scanner's state and changes none of it.           *)
THEOREM ScannerInvariant == Spec => []ScanInv
<1>1. Init => ScanInv
  BY ScanStart DEF Init
<1>2. ScanInv /\ [Next]_vars => ScanInv'
  <2> SUFFICES ASSUME ScanInv, [Next]_vars
               PROVE  ScanInv'
    OBVIOUS
  <2>1. CASE Scan
    BY <2>1, ScanKeeps DEF Scan
  <2>2. CASE Usage \/ Unreadable \/ Report \/ SelfTestVector \/ SelfTestEnds \/ NoSuite
    BY <2>2, ScanWaits DEF Usage, Unreadable, Report, SelfTestVector, SelfTestEnds, NoSuite
  <2>3. CASE UNCHANGED vars
    BY <2>3, ScanWaits DEF vars
  <2> QED BY <2>1, <2>2, <2>3 DEF Next
<1> QED BY <1>1, <1>2, PTL DEF Spec

(* The depth counter is the number of brackets that are open, in every     *)
(* text of any length and for every limit (lib/cpb/_lex.py, _push_depth).  *)
THEOREM DepthIsCounted == Spec => []DepthCountsOpenBrackets
<1>1. ScanInv => DepthCountsOpenBrackets
  BY DEF ScanInv, Descended, StackFits, DepthCountsOpenBrackets
<1> QED BY <1>1, ScannerInvariant, PTL

(* lex records one duplicate_key for each member whose decoded name        *)
(* repeats an earlier one of its object, in every text that parses.        *)
THEOREM DuplicatesAreCounted == Spec => []RepeatedMembersAreReported
<1>1. ScanInv => RepeatedMembersAreReported
  BY RepeatsAreWithin DEF ScanInv, Counted, RepeatedMembersAreReported
<1> QED BY <1>1, ScannerInvariant, PTL

-----------------------------------------------------------------------------
(* The self-test: what its tally says of the files it went through.        *)
LoadedAndRight(f) ==
  f.loads = "object" /\ (f.expects # "none" /\ f.hasRecord => f.result = f.expects)
Exercises(f, verdict) == f.hasRecord /\ f.expects = verdict /\ f.result = verdict
Went(n) == 1..(n - 1)

TallyFits ==
  /\ suite \in Seq(Vectors)
  /\ at \in Nat \ {0} /\ at - 1 <= Len(suite)
  /\ failed \in Nat /\ checked \in [Verdicts -> Nat]
  /\ failed = 0 =>
       /\ \A i \in Went(at) : LoadedAndRight(suite[i])
       /\ \A verdict \in RequiredVerdicts :
            checked[verdict] > 0 => \E i \in Went(at) : Exercises(suite[i], verdict)
ExitInv ==
  /\ status = Running => TallyFits
  /\ ExitZeroIsEarned

LEMMA ExitStart ==
  ASSUME Init
  PROVE  ExitInv
<1>1. suite \in Seq(Vectors)
  <2>1. CASE suite \in UNION {[1..n -> Vectors] : n \in 0..Suite}
    <3>1. PICK n \in 0..Suite : suite \in [1..n -> Vectors]
      BY <2>1
    <3>2. n \in Nat
      BY VectorsAssumption
    <3> QED BY <3>1, <3>2, SeqDef
  <2>2. CASE suite \in {<<>>}
    BY <2>2
  <2> QED BY <2>1, <2>2 DEF Init
<1>2. at = 1 /\ failed = 0 /\ checked = [verdict \in Verdicts |-> 0] /\ status = Running
  BY DEF Init
<1>3. at \in Nat \ {0} /\ at - 1 <= Len(suite) /\ Went(at) = {}
  BY <1>1, <1>2 DEF Went
<1>4. checked \in [Verdicts -> Nat] /\ \A verdict \in RequiredVerdicts : checked[verdict] = 0
  BY <1>2 DEF Verdicts
<1>5. TallyFits
  BY <1>1, <1>2, <1>3, <1>4 DEF TallyFits
<1> QED BY <1>2, <1>5 DEF ExitInv, ExitZeroIsEarned, Running

LEMMA VectorKeeps ==
  ASSUME ExitInv, SelfTestVector
  PROVE  ExitInv'
<1> DEFINE f == suite[at]
           isChecked == f.loads = "object" /\ f.expects # "none" /\ f.hasRecord
           isRight == isChecked /\ f.result = f.expects
<1>1. status = Running /\ TallyFits /\ at <= Len(suite) /\ suite' = suite
  BY DEF ExitInv, SelfTestVector, SameRun
<1>2. CASE f.loads = "other_json"
  <2>1. status' = 1
    BY <1>2 DEF SelfTestVector, Exit
  <2> QED BY <2>1 DEF ExitInv, ExitZeroIsEarned, Running
<1>3. CASE f.loads # "other_json"
  <2>1. /\ checked' = IF isChecked THEN [checked EXCEPT ![f.expects] = @ + 1] ELSE checked
        /\ failed' = IF f.loads = "error" \/ (isChecked /\ ~isRight) THEN failed + 1 ELSE failed
        /\ at' = at + 1 /\ status' = Running
    BY <1>1, <1>3 DEF SelfTestVector
  <2>2. f \in VectorType
    BY <1>1, VectorsAssumption DEF TallyFits
  <2>3. /\ f.loads \in {"object", "other_json", "error"} /\ f.expects \in Verdicts \cup {"none"}
        /\ f.hasRecord \in BOOLEAN
    BY <2>2 DEF VectorType
  <2> HIDE DEF f
  <2>4. failed' \in Nat /\ (failed' = 0 => failed = 0 /\ LoadedAndRight(f))
    BY <1>1, <1>3, <2>1, <2>3 DEF TallyFits, LoadedAndRight
  <2>5. /\ checked' \in [Verdicts -> Nat]
        /\ \A verdict \in RequiredVerdicts :
             checked'[verdict] > 0 => checked[verdict] > 0 \/ (isChecked /\ f.expects = verdict)
    <3>1. CASE isChecked
      <4>1. f.expects \in Verdicts /\ checked' = [checked EXCEPT ![f.expects] = @ + 1]
        BY <2>1, <2>3, <3>1
      <4>2. /\ checked' \in [Verdicts -> Nat]
            /\ \A verdict \in Verdicts : verdict # f.expects => checked'[verdict] = checked[verdict]
        BY <1>1, <4>1 DEF TallyFits
      <4> QED BY <3>1, <4>2 DEF Verdicts
    <3>2. CASE ~isChecked
      BY <1>1, <2>1, <3>2 DEF TallyFits
    <3> QED BY <3>1, <3>2
  <2>6. /\ at' \in Nat \ {0} /\ at' - 1 <= Len(suite') /\ suite' \in Seq(Vectors)
        /\ at \in Went(at') /\ suite'[at] = f
        /\ \A i \in Went(at') : i \in Went(at) \/ i = at
        /\ \A i \in Went(at) : i \in Went(at')
    BY <1>1, <2>1 DEF TallyFits, Went, f
  <2>7. failed' = 0 => \A i \in Went(at') : LoadedAndRight(suite'[i])
    BY <1>1, <2>4, <2>6 DEF TallyFits
  <2>8. ASSUME failed' = 0, NEW verdict \in RequiredVerdicts, checked'[verdict] > 0
        PROVE  \E i \in Went(at') : Exercises(suite'[i], verdict)
    <3>1. CASE checked[verdict] > 0
      <4>1. PICK i \in Went(at) : Exercises(suite[i], verdict)
        BY <1>1, <2>4, <2>8, <3>1 DEF TallyFits
      <4> QED BY <1>1, <2>6, <4>1
    <3>2. CASE isChecked /\ f.expects = verdict
      <4>1. Exercises(f, verdict)
        BY <2>4, <2>8, <3>2 DEF LoadedAndRight, Exercises
      <4> QED BY <2>6, <4>1
    <3> QED BY <2>5, <2>8, <3>1, <3>2
  <2>9. TallyFits'
    BY <2>4, <2>5, <2>6, <2>7, <2>8 DEF TallyFits
  <2> QED BY <2>1, <2>9 DEF ExitInv, ExitZeroIsEarned, Running
<1> QED BY <1>2, <1>3

LEMMA SuiteEndKeeps ==
  ASSUME ExitInv, SelfTestEnds
  PROVE  ExitInv'
<1>1. /\ status = Running /\ TallyFits /\ at > Len(suite) /\ suite' = suite
      /\ args = "self_test" /\ args' = args
      /\ status' = IF Unexercised(checked) \/ failed > 0 THEN 1 ELSE 0
  BY DEF ExitInv, SelfTestEnds, SameRun, Exit
<1>2. status' # Running
  BY <1>1 DEF Running
<1>3. ASSUME status' = 0
      PROVE  /\ \A i \in DOMAIN suite : LoadedAndRight(suite[i])
             /\ \A verdict \in RequiredVerdicts :
                  \E i \in DOMAIN suite :
                    suite[i].hasRecord /\ suite[i].expects = verdict /\ suite[i].result = verdict
  <2>1. failed = 0 /\ ~Unexercised(checked)
    BY <1>1, <1>3 DEF TallyFits
  <2>2. DOMAIN suite = Went(at)
    BY <1>1 DEF TallyFits, Went
  <2>3. \A verdict \in RequiredVerdicts : checked[verdict] > 0
    BY <1>1, <2>1 DEF TallyFits, Unexercised, Verdicts
  <2> QED BY <1>1, <2>1, <2>2, <2>3 DEF TallyFits, Exercises
<1>4. ExitZeroIsEarned'
  BY <1>1, <1>3 DEF ExitZeroIsEarned, LoadedAndRight
<1> QED BY <1>2, <1>4 DEF ExitInv

(* Every other way to a status, and the steps that reach none.             *)
LEMMA ExitKeeps ==
  ASSUME ExitInv, [Next]_vars
  PROVE  ExitInv'
<1>1. CASE Usage
  BY <1>1 DEF Usage, Exit, SameRun, ExitInv, ExitZeroIsEarned, Running
<1>2. CASE Unreadable \/ NoSuite
  BY <1>2 DEF Unreadable, NoSuite, Exit, ExitInv, ExitZeroIsEarned, Running
<1>3. CASE Scan
  BY <1>3 DEF Scan, cliVars, ExitInv, ExitZeroIsEarned, Running, TallyFits
<1>4. CASE Report
  BY <1>4 DEF Report, Exit, SameRun, scannerVars, ExitInv, ExitZeroIsEarned, Running, Verdict
<1>5. CASE SelfTestVector
  BY <1>5, VectorKeeps
<1>6. CASE SelfTestEnds
  BY <1>6, SuiteEndKeeps
<1>7. CASE UNCHANGED vars
  BY <1>7 DEF vars, scannerVars, cliVars, ExitInv, ExitZeroIsEarned, TallyFits, Verdict
<1> QED BY <1>1, <1>2, <1>3, <1>4, <1>5, <1>6, <1>7 DEF Next

(* A gate that reads only the exit status is never told 0 for a record     *)
(* that was not read to its end or does not conform, nor for a self-test   *)
(* that skipped over a failure or left a required verdict untried          *)
(* (lib/cpb/_cli.py, main and _self_test).                                 *)
THEOREM ZeroIsEarned == Spec => []ExitZeroIsEarned
<1>1. Init => ExitInv
  BY ExitStart
<1>2. ExitInv /\ [Next]_vars => ExitInv'
  BY ExitKeeps
<1>3. ExitInv => ExitZeroIsEarned
  BY DEF ExitInv
<1> QED BY <1>1, <1>2, <1>3, PTL DEF Spec

-----------------------------------------------------------------------------
(* The values at each depth of a value.  What holds at every depth is      *)
(* shown by the first one at which it would not.                           *)
Inside(values) == UNION {Held(x) : x \in values}
IsLevels(g, v, n) == g = [d \in 0..n |-> IF d = 0 THEN {v} ELSE Inside(g[d - 1])]

LEMMA FirstNumber ==
  ASSUME NEW depths, depths \subseteq Nat, depths # {}
  PROVE  \E d \in depths : \A e \in depths : d <= e
<1>1. PICK d \in depths : \A e \in depths : ~ (<<e, d>> \in OpToRel(<, Nat))
  BY NatLessThanWellFounded, WFMin
<1>2. \A e \in depths : <<e, d>> \notin OpToRel(<, Nat) => d <= e
  BY DEF OpToRel
<1> QED BY <1>1, <1>2

LEMMA LevelsGrow ==
  ASSUME NEW v, NEW n \in Nat, NEW g, IsLevels(g, v, n)
  PROVE  \E h : IsLevels(h, v, n + 1)
<1> DEFINE m == n + 1
           h == [d \in 0..m |-> IF d = m THEN Inside(g[n]) ELSE g[d]]
<1>1. /\ m \in Nat /\ m # 0 /\ m - 1 = n /\ n \in 0..m /\ n # m /\ m \in 0..m
      /\ \A d \in 0..m : d = m \/ d \in 0..n
      /\ \A d \in 0..n : d # m /\ d \in 0..m /\ (d # 0 => d - 1 \in 0..n)
  OBVIOUS
<1>2. DOMAIN h = 0..m /\ h = [d \in 0..m |-> h[d]]
  OBVIOUS
<1>3. h[m] = Inside(g[n]) /\ \A d \in 0..n : h[d] = g[d]
  BY <1>1
<1>4. \A d \in 0..n : g[d] = IF d = 0 THEN {v} ELSE Inside(g[d - 1])
  BY DEF IsLevels
<1> HIDE DEF h, m
<1>5. \A d \in 0..m : h[d] = IF d = 0 THEN {v} ELSE Inside(h[d - 1])
  <2> SUFFICES ASSUME NEW d \in 0..m
               PROVE  h[d] = IF d = 0 THEN {v} ELSE Inside(h[d - 1])
    OBVIOUS
  <2>1. CASE d = m
    BY <1>1, <1>3, <2>1
  <2>2. CASE d # m
    BY <1>1, <1>3, <1>4, <2>2
  <2> QED BY <2>1, <2>2
<1>6. IsLevels(h, v, m)
  BY <1>2, <1>5 DEF IsLevels
<1> QED BY <1>6 DEF m

LEMMA LevelsExist ==
  ASSUME NEW v, NEW n \in Nat
  PROVE  \E g : IsLevels(g, v, n)
<1> DEFINE missing == {m \in Nat : ~ \E g : IsLevels(g, v, m)}
<1> SUFFICES ASSUME missing # {}
             PROVE  FALSE
  OBVIOUS
<1>1. PICK m \in missing : \A k \in missing : m <= k
  BY FirstNumber
<1>2. CASE m = 0
  <2> DEFINE g == [d \in 0..0 |-> {v}]
  <2>1. IsLevels(g, v, 0)
    BY DEF IsLevels
  <2> QED BY <1>1, <1>2, <2>1
<1>3. CASE m # 0
  <2>1. m - 1 \in Nat /\ (m - 1) + 1 = m /\ m - 1 \notin missing
    BY <1>1, <1>3
  <2>2. PICK g : IsLevels(g, v, m - 1)
    BY <2>1
  <2> QED BY <1>1, <2>1, <2>2, LevelsGrow
<1> QED BY <1>2, <1>3

LEMMA LevelsAgree ==
  ASSUME NEW v, NEW n \in Nat, NEW m \in Nat, NEW g, NEW h, IsLevels(g, v, n), IsLevels(h, v, m)
  PROVE  \A d \in 0..n : d \in 0..m => g[d] = h[d]
<1> DEFINE differ == {d \in Nat : d \in 0..n /\ d \in 0..m /\ g[d] # h[d]}
<1> SUFFICES ASSUME differ # {}
             PROVE  FALSE
  OBVIOUS
<1>1. PICK d \in differ : \A e \in differ : d <= e
  BY FirstNumber
<1>2. /\ g[d] = IF d = 0 THEN {v} ELSE Inside(g[d - 1])
      /\ h[d] = IF d = 0 THEN {v} ELSE Inside(h[d - 1])
  BY <1>1 DEF IsLevels
<1>3. d # 0
  BY <1>1, <1>2
<1>4. d - 1 \in Nat /\ d - 1 \in 0..n /\ d - 1 \in 0..m /\ d - 1 \notin differ
  BY <1>1, <1>3
<1> QED BY <1>1, <1>2, <1>3, <1>4

LEMMA LevelIs ==
  ASSUME NEW v, NEW n \in Nat
  PROVE  \E g : IsLevels(g, v, n) /\ Level(v, n) = g[n]
<1> DEFINE g == CHOOSE p : p = [d \in 0..n |->
                  IF d = 0 THEN {v} ELSE UNION {Held(x) : x \in p[d - 1]}]
<1>1. IsLevels(g, v, n)
  <2>1. \E p : IsLevels(p, v, n)
    BY LevelsExist
  <2> QED BY <2>1, Zenon DEF IsLevels, Inside
<1>2. Level(v, n) = g[n]
  BY DEF Level
<1> QED BY <1>1, <1>2

(* The next level is what the values of this one hold.                     *)
LEMMA LevelBelow ==
  ASSUME NEW v, NEW n \in Nat
  PROVE  Level(v, 0) = {v} /\ Level(v, n + 1) = Inside(Level(v, n))
<1>1. PICK g : IsLevels(g, v, n) /\ Level(v, n) = g[n]
  BY LevelIs
<1>2. PICK h : IsLevels(h, v, n + 1) /\ Level(v, n + 1) = h[n + 1]
  BY LevelIs
<1>3. PICK f : IsLevels(f, v, 0) /\ Level(v, 0) = f[0]
  BY LevelIs
<1>4. f[0] = {v}
  BY <1>3 DEF IsLevels
<1>5. n + 1 \in 0..(n + 1) /\ n + 1 # 0 /\ (n + 1) - 1 = n /\ n \in 0..n /\ n \in 0..(n + 1)
  OBVIOUS
<1>6. h[n + 1] = Inside(h[n])
  BY <1>2, <1>5 DEF IsLevels
<1>7. g[n] = h[n]
  BY <1>1, <1>2, <1>5, LevelsAgree
<1> QED BY <1>1, <1>2, <1>3, <1>4, <1>6, <1>7

(* Below a value is what is below each of the values it holds.             *)
LEMMA LevelsWithin ==
  ASSUME NEW v, NEW n \in Nat
  PROVE  Level(v, n + 1) = UNION {Level(x, n) : x \in Held(v)}
<1> DEFINE Under(d) == UNION {Level(x, d) : x \in Held(v)}
           wrong == {d \in Nat : Level(v, d + 1) # Under(d)}
<1> SUFFICES ASSUME wrong # {}
             PROVE  FALSE
  OBVIOUS
<1>1. PICK d \in wrong : \A e \in wrong : d <= e
  BY FirstNumber
<1>2. CASE d = 0
  <2>1. Level(v, 0 + 1) = Inside({v})
    BY LevelBelow
  <2>2. Inside({v}) = Held(v)
    BY DEF Inside
  <2>3. \A x : Level(x, 0) = {x}
    BY LevelBelow
  <2>4. Under(0) = Held(v)
    BY <2>3
  <2> QED BY <1>1, <1>2, <2>1, <2>2, <2>4
<1>3. CASE d # 0
  <2>1. d - 1 \in Nat /\ (d - 1) + 1 = d /\ d \in Nat
    BY <1>1, <1>3
  <2>2. Level(v, d) = Under(d - 1)
    BY <1>1, <2>1
  <2>3. Level(v, d + 1) = Inside(Under(d - 1))
    <3>1. Level(v, d + 1) = Inside(Level(v, d))
      BY <2>1, LevelBelow
    <3> QED BY <2>2, <3>1, Zenon
  <2>4. \A x : Level(x, d) = Inside(Level(x, d - 1))
    BY <2>1, LevelBelow
  <2>5. Inside(Under(d - 1)) = UNION {Inside(Level(x, d - 1)) : x \in Held(v)}
    BY DEF Inside
  <2>6. Inside(Under(d - 1)) = Under(d)
    BY <2>4, <2>5
  <2> QED BY <1>1, <2>3, <2>6
<1> QED BY <1>2, <1>3

(* v has no more than n containers within one another.                     *)
Fits(v, n) == Level(v, n + 1) = {}

LEMMA FitsAround ==
  ASSUME NEW v, NEW n \in Nat, n > 0, \A x \in Held(v) : Fits(x, n - 1)
  PROVE  Fits(v, n)
<1>1. n - 1 \in Nat /\ (n - 1) + 1 = n /\ n \in Nat
  OBVIOUS
<1>2. Level(v, n + 1) = UNION {Level(x, n) : x \in Held(v)}
  BY LevelsWithin
<1>3. \A x \in Held(v) : Level(x, n) = {}
  BY <1>1 DEF Fits
<1> QED BY <1>2, <1>3 DEF Fits

LEMMA EmptyFits ==
  ASSUME NEW v, NEW n \in Nat, Held(v) = {}
  PROVE  Fits(v, n)
<1>1. Level(v, n + 1) = UNION {Level(x, n) : x \in Held(v)}
  BY LevelsWithin
<1> QED BY <1>1 DEF Fits

LEMMA WithinGrows ==
  ASSUME NEW v, Fits(v, MaxDepth)
  PROVE  v \in Within(v) /\ \A x \in Within(v) : Held(x) \subseteq Within(v)
<1>1. MaxDepth \in Nat /\ 0 \in 0..MaxDepth /\ Level(v, 0) = {v}
  BY DepthAssumption, LevelBelow
<1>2. v \in Within(v)
  BY <1>1 DEF Within
<1>3. ASSUME NEW x \in Within(v), NEW y \in Held(x)
      PROVE  y \in Within(v)
  <2>1. PICK d \in 0..MaxDepth : x \in Level(v, d)
    BY DEF Within
  <2>2. d \in Nat /\ Level(v, d + 1) = Inside(Level(v, d))
    BY <1>1, <2>1, LevelBelow
  <2>3. y \in Level(v, d + 1)
    BY <1>3, <2>1, <2>2 DEF Inside
  <2>4. d # MaxDepth
    BY <2>3 DEF Fits
  <2>5. d + 1 \in 0..MaxDepth
    BY <1>1, <2>1, <2>4
  <2> QED BY <2>3, <2>5 DEF Within
<1> QED BY <1>2, <1>3

-----------------------------------------------------------------------------
(* Normalization: what the function that Normalize chooses is.             *)
Renewed(f, x) == [i \in DOMAIN x.items |-> Item(x.items[i].name, f[x.items[i].value])]
NormalOf(f, x) ==
  CASE x.kind = "object" -> Tree("object", PresentItems(Renewed(f, x)))
    [] x.kind = "array" -> Tree("array", Renewed(f, x))
    [] OTHER -> x
IsNormal(f, S) == f = [x \in S |-> NormalOf(f, x)]

LEMMA NormalFollows ==
  ASSUME NEW f, NEW g, NEW x, \A y \in Held(x) : f[y] = g[y]
  PROVE  NormalOf(f, x) = NormalOf(g, x)
<1>1. CASE x.kind \in {"object", "array"}
  <2>1. \A i \in DOMAIN x.items : f[x.items[i].value] = g[x.items[i].value]
    BY <1>1 DEF Held
  <2>2. Renewed(f, x) = Renewed(g, x)
    BY <2>1 DEF Renewed
  <2> QED BY <2>2 DEF NormalOf
<1>2. CASE x.kind \notin {"object", "array"}
  BY <1>2 DEF NormalOf
<1> QED BY <1>1, <1>2

LEMMA NormalExtends ==
  ASSUME NEW f, NEW S, NEW T, IsNormal(f, S), S \subseteq T, \A x \in T : Held(x) \subseteq S
  PROVE  \E g : IsNormal(g, T)
<1> DEFINE g == [x \in T |-> NormalOf(f, x)]
<1>1. DOMAIN g = T /\ g = [x \in T |-> g[x]] /\ \A x \in T : g[x] = NormalOf(f, x)
  OBVIOUS
<1>2. \A x \in S : f[x] = NormalOf(f, x)
  BY DEF IsNormal
<1>3. \A x \in S : g[x] = f[x]
  BY <1>1, <1>2
<1> HIDE DEF g
<1>4. ASSUME NEW x \in T
      PROVE  NormalOf(g, x) = NormalOf(f, x)
  <2>1. \A y \in Held(x) : g[y] = f[y]
    BY <1>3
  <2> QED BY <2>1, NormalFollows
<1>5. \A x \in T : g[x] = NormalOf(g, x)
  BY <1>1, <1>4
<1>6. IsNormal(g, T)
  BY <1>1, <1>5 DEF IsNormal
<1> QED BY <1>6

(* The values of v that are fewer than m levels above the deepest.         *)
Deepest(v, m) == UNION {Level(v, d) : d \in (MaxDepth + 1 - m)..MaxDepth}

LEMMA DeepestHold ==
  ASSUME NEW v, Fits(v, MaxDepth), NEW m \in Nat, m <= MaxDepth
  PROVE  /\ Deepest(v, m) \subseteq Deepest(v, m + 1)
         /\ \A x \in Deepest(v, m + 1) : Held(x) \subseteq Deepest(v, m)
<1>1. MaxDepth \in Nat /\ MaxDepth + 1 - (m + 1) \in 0..MaxDepth
  BY DepthAssumption
<1>2. \A d \in (MaxDepth + 1 - m)..MaxDepth : d \in (MaxDepth + 1 - (m + 1))..MaxDepth
  BY <1>1
<1>3. ASSUME NEW x \in Deepest(v, m + 1), NEW y \in Held(x)
      PROVE  y \in Deepest(v, m)
  <2>1. PICK d \in (MaxDepth + 1 - (m + 1))..MaxDepth : x \in Level(v, d)
    BY DEF Deepest
  <2>2. d \in Nat
    BY <1>1, <2>1
  <2>3. y \in Level(v, d + 1)
    BY <1>3, <2>1, <2>2, LevelBelow DEF Inside
  <2>4. d # MaxDepth
    BY <2>3 DEF Fits
  <2>5. d + 1 \in (MaxDepth + 1 - m)..MaxDepth
    BY <1>1, <2>1, <2>4
  <2> QED BY <2>3, <2>5 DEF Deepest
<1> QED BY <1>2, <1>3 DEF Deepest

LEMMA NormalExists ==
  ASSUME NEW v, Fits(v, MaxDepth)
  PROVE  \E f : IsNormal(f, Within(v))
<1>1. MaxDepth \in Nat
  BY DepthAssumption
<1> DEFINE missing == {m \in Nat : m <= MaxDepth + 1 /\ ~ \E f : IsNormal(f, Deepest(v, m))}
<1>2. missing = {}
  <2> SUFFICES ASSUME missing # {}
               PROVE  FALSE
    OBVIOUS
  <2>1. PICK m \in missing : \A k \in missing : m <= k
    BY FirstNumber
  <2>2. CASE m = 0
    <3>1. Deepest(v, 0) = {}
      BY <1>1 DEF Deepest
    <3> DEFINE f == [x \in {} |-> x]
    <3>2. IsNormal(f, {})
      BY DEF IsNormal
    <3> QED BY <2>1, <2>2, <3>1, <3>2
  <2>3. CASE m # 0
    <3>1. m - 1 \in Nat /\ (m - 1) + 1 = m /\ m - 1 <= MaxDepth /\ m - 1 \notin missing
      BY <1>1, <2>1, <2>3
    <3>2. PICK f : IsNormal(f, Deepest(v, m - 1))
      BY <1>1, <3>1
    <3>3. /\ Deepest(v, m - 1) \subseteq Deepest(v, m)
          /\ \A x \in Deepest(v, m) : Held(x) \subseteq Deepest(v, m - 1)
      BY <3>1, DeepestHold
    <3>4. \E g : IsNormal(g, Deepest(v, m))
      BY <3>2, <3>3, NormalExtends
    <3> QED BY <2>1, <3>4
  <2> QED BY <2>2, <2>3
<1>3. MaxDepth + 1 \in Nat /\ MaxDepth + 1 \notin missing /\ MaxDepth + 1 - (MaxDepth + 1) = 0
  BY <1>1, <1>2
<1>4. Deepest(v, MaxDepth + 1) = Within(v)
  BY <1>3 DEF Deepest, Within
<1> QED BY <1>1, <1>3, <1>4

LEMMA NormalIs ==
  ASSUME NEW v, Fits(v, MaxDepth)
  PROVE  \E f : IsNormal(f, Within(v)) /\ Normalize(v) = f[v]
<1> DEFINE g == CHOOSE f : IsNormal(f, Within(v))
<1>1. IsNormal(g, Within(v))
  BY NormalExists
<1>2. Normalize(v) = g[v]
  BY Zenon DEF Normalize, IsNormal, NormalOf, Renewed
<1> QED BY <1>1, <1>2

-----------------------------------------------------------------------------
(* Items that are all present stay as they are, and if as many are left as *)
(* there were, all of them were present.                                   *)
LEMMA Ranked ==
  ASSUME NEW n \in Nat, NEW k \in 1..n
  PROVE  /\ Cardinality({j \in 1..n : j <= k}) = k
         /\ (CHOOSE i \in 1..n : Cardinality({j \in 1..n : j <= i}) = k) = k
<1>1. ASSUME NEW i \in 1..n
      PROVE  Cardinality({j \in 1..n : j <= i}) = i
  <2>1. {j \in 1..n : j <= i} = 1..i
    OBVIOUS
  <2>2. Cardinality(1..i) = i
    BY FS_Interval
  <2> QED BY <2>1, <2>2
<1>2. \A i \in 1..n : Cardinality({j \in 1..n : j <= i}) = k <=> i = k
  BY <1>1
<1> HIDE DEF Cardinality
<1> QED BY <1>1, <1>2

LEMMA AllPresent ==
  ASSUME NEW s, \E S : s \in Seq(S)
  PROVE  /\ (\A i \in DOMAIN s : ~IsAbsent(s[i].value)) => PresentItems(s) = s
         /\ Len(PresentItems(s)) = Len(s) => \A i \in DOMAIN s : ~IsAbsent(s[i].value)
<1> DEFINE present == {i \in DOMAIN s : ~IsAbsent(s[i].value)}
           n == Len(s)
           At(k) == CHOOSE i \in present : Cardinality({j \in present : j <= i}) = k
<1>1. n \in Nat /\ DOMAIN s = 1..n /\ s = [k \in 1..n |-> s[k]]
  OBVIOUS
<1>2. PresentItems(s) = [k \in 1..Cardinality(present) |-> s[At(k)]]
  BY DEF PresentItems
<1>3. Cardinality(1..n) = n /\ IsFiniteSet(1..n)
  BY <1>1, FS_Interval
<1>4. IsFiniteSet(present) /\ Cardinality(present) \in Nat
      /\ (Cardinality(present) = n => present = 1..n)
  <2>1. present \in SUBSET (1..n)
    BY <1>1
  <2> HIDE DEF present, n
  <2> QED BY <1>3, <2>1, FS_Subset, FS_CardinalityType
<1>5. ASSUME \A i \in DOMAIN s : ~IsAbsent(s[i].value)
      PROVE  PresentItems(s) = s
  <2>1. present = 1..n
    BY <1>1, <1>5
  <2>2. \A k \in 1..n : At(k) = k
    BY <1>1, <2>1, Ranked
  <2>3. Cardinality(present) = n
    BY <1>3, <2>1
  <2> HIDE DEF present, n, At
  <2> QED BY <1>1, <1>2, <2>2, <2>3
<1>6. ASSUME Len(PresentItems(s)) = n
      PROVE  present = DOMAIN s
  <2>1. Len(PresentItems(s)) = Cardinality(present)
    <3> HIDE DEF present, At
    <3> QED BY <1>2, <1>4
  <2> QED BY <1>1, <1>4, <1>6, <2>1
<1> QED BY <1>5, <1>6

-----------------------------------------------------------------------------
(* What the scanner's values are made of: names that were read, and the    *)
(* numbers that were recorded.                                             *)
AreItems(items) ==
  /\ \E S : items \in Seq(S)
  /\ \A i \in DOMAIN items : items[i] = Item(items[i].name, items[i].value)
Drawn(v, names, codes) ==
  /\ v.kind = "float" => "number_token_form" \in codes
  /\ v.kind = "unsafe" => "unsafe_integer" \in codes
  /\ v.kind \in {"string", "object"} => \A i \in DOMAIN v.items : v.items[i].name \in names
  /\ v.kind \in {"object", "array"} => v = Tree(v.kind, v.items) /\ AreItems(v.items)
Sound(v, names, codes) == \A d \in Nat : \A x \in Level(v, d) : Drawn(x, names, codes)

LEMMA SoundAround ==
  ASSUME NEW v, NEW names, NEW codes, Drawn(v, names, codes),
         \A x \in Held(v) : Sound(x, names, codes)
  PROVE  Sound(v, names, codes)
<1> SUFFICES ASSUME NEW d \in Nat, NEW x \in Level(v, d)
             PROVE  Drawn(x, names, codes)
  BY DEF Sound
<1>1. CASE d = 0
  BY <1>1, LevelBelow
<1>2. CASE d # 0
  <2>1. d - 1 \in Nat /\ (d - 1) + 1 = d
    BY <1>2
  <2>2. Level(v, d) = UNION {Level(y, d - 1) : y \in Held(v)}
    BY <2>1, LevelsWithin
  <2>3. PICK y \in Held(v) : x \in Level(y, d - 1)
    BY <2>2
  <2> QED BY <2>1, <2>3 DEF Sound
<1> QED BY <1>1, <1>2

LEMMA SoundGrows ==
  ASSUME NEW v, NEW names, NEW codes, NEW moreNames, NEW moreCodes, Sound(v, names, codes),
         names \subseteq moreNames, codes \subseteq moreCodes
  PROVE  Sound(v, moreNames, moreCodes)
<1>1. \A x : Drawn(x, names, codes) => Drawn(x, moreNames, moreCodes)
  BY DEF Drawn
<1> QED BY <1>1 DEF Sound

LEMMA SoundWithin ==
  ASSUME NEW v, NEW names, NEW codes, Sound(v, names, codes)
  PROVE  \A x \in Within(v) : Drawn(x, names, codes)
<1>1. \A d \in 0..MaxDepth : d \in Nat
  BY DepthAssumption
<1> QED BY <1>1 DEF Sound, Within

(* A walk that finds nothing means that normalization changes nothing, and *)
(* the other way round.                                                    *)
LEMMA KeptAsItIs ==
  ASSUME NEW f, NEW x, NEW names, NEW codes, Drawn(x, names, codes), \A y \in Held(x) : f[y] = y,
         x.kind = "object" => \A i \in DOMAIN x.items : ~BreaksTheMemberRule(x.items[i].value)
  PROVE  NormalOf(f, x) = x
<1>1. CASE x.kind \in {"object", "array"}
  <2>1. x = Tree(x.kind, x.items) /\ AreItems(x.items)
    BY <1>1 DEF Drawn
  <2>2. x.items = [i \in DOMAIN x.items |-> x.items[i]]
    BY <2>1 DEF AreItems
  <2>3. \A i \in DOMAIN x.items : Item(x.items[i].name, f[x.items[i].value]) = x.items[i]
    BY <1>1, <2>1 DEF Held, AreItems
  <2>4. Renewed(f, x) = x.items
    BY <2>2, <2>3 DEF Renewed
  <2>5. CASE x.kind = "object"
    <3>1. \A i \in DOMAIN x.items : ~IsAbsent(x.items[i].value)
      BY <2>5 DEF BreaksTheMemberRule, IsAbsent
    <3>2. PresentItems(x.items) = x.items
      BY <2>1, <3>1, AllPresent DEF AreItems
    <3> QED BY <2>1, <2>4, <2>5, <3>2 DEF NormalOf
  <2>6. CASE x.kind # "object"
    BY <1>1, <2>1, <2>4, <2>6 DEF NormalOf
  <2> QED BY <2>5, <2>6
<1>2. CASE x.kind \notin {"object", "array"}
  BY <1>2 DEF NormalOf
<1> QED BY <1>1, <1>2

LEMMA SomethingGone ==
  ASSUME NEW f, NEW x, NEW names, NEW codes, Drawn(x, names, codes), NormalOf(f, x) = x
  PROVE  /\ \A y \in Held(x) : f[y] = y
         /\ x.kind = "object" => \A i \in DOMAIN x.items : ~BreaksTheMemberRule(x.items[i].value)
<1>1. CASE x.kind \notin {"object", "array"}
  BY <1>1 DEF Held
<1>2. CASE x.kind \in {"object", "array"}
  <2> DEFINE r == Renewed(f, x)
  <2>1. x = Tree(x.kind, x.items) /\ AreItems(x.items)
    BY <1>2 DEF Drawn
  <2>2. PICK S : x.items \in Seq(S)
    BY <2>1 DEF AreItems
  <2>3. /\ DOMAIN r = DOMAIN x.items /\ Len(r) = Len(x.items)
        /\ \E R : r \in Seq(R)
        /\ \A i \in DOMAIN x.items : r[i] = Item(x.items[i].name, f[x.items[i].value])
    <3> DEFINE n == Len(x.items)
               Of(i) == Item(x.items[i].name, f[x.items[i].value])
    <3>1. n \in Nat /\ DOMAIN x.items = 1..n
      BY <2>2
    <3>2. r = [i \in 1..n |-> Of(i)]
      BY <3>1 DEF Renewed
    <3> HIDE DEF r, n, Of
    <3>3. r \in Seq({Of(i) : i \in 1..n}) /\ Len(r) = n /\ DOMAIN r = 1..n
      BY <3>1, <3>2
    <3> QED BY <3>1, <3>2, <3>3 DEF n, Of
  <2> HIDE DEF r
  <2>4. r = x.items /\ (x.kind = "object" => \A i \in DOMAIN r : ~IsAbsent(r[i].value))
    <3>1. CASE x.kind = "object"
      <4>1. PresentItems(r) = x.items
        BY <2>1, <3>1 DEF NormalOf, Tree, r
      <4>2. \A i \in DOMAIN r : ~IsAbsent(r[i].value)
        BY <2>3, <4>1, AllPresent
      <4> QED BY <2>3, <4>1, <4>2, AllPresent
    <3>2. CASE x.kind # "object"
      BY <1>2, <2>1, <3>2 DEF NormalOf, Tree, r
    <3> QED BY <3>1, <3>2
  <2>5. \A i \in DOMAIN x.items : f[x.items[i].value] = x.items[i].value
    <3> SUFFICES ASSUME NEW i \in DOMAIN x.items
                 PROVE  f[x.items[i].value] = x.items[i].value
      OBVIOUS
    <3>1. /\ x.items[i] = Item(x.items[i].name, x.items[i].value)
          /\ x.items[i] = Item(x.items[i].name, f[x.items[i].value])
      BY <2>1, <2>3, <2>4 DEF AreItems
    <3>2. \A n, a, m, b : Item(n, a) = Item(m, b) => a = b
      BY DEF Item
    <3> QED BY <3>1, <3>2, Zenon
  <2> QED BY <1>2, <2>4, <2>5 DEF Held, IsAbsent, BreaksTheMemberRule
<1> QED BY <1>1, <1>2

LEMMA WalkMeansNormal ==
  ASSUME NEW v, Fits(v, MaxDepth), NEW names, NEW codes, Sound(v, names, codes)
  PROVE  ~PWalk(v) <=> Normalize(v) = v
<1>1. PICK f : IsNormal(f, Within(v)) /\ Normalize(v) = f[v]
  BY NormalIs
<1>2. /\ v \in Within(v)
      /\ \A x \in Within(v) : Held(x) \subseteq Within(v) /\ Drawn(x, names, codes)
  BY WithinGrows, SoundWithin
<1>3. \A x \in Within(v) : f[x] = NormalOf(f, x)
  BY <1>1 DEF IsNormal
<1>4. MaxDepth \in Nat
  BY DepthAssumption
<1>5. ASSUME ~PWalk(v)
      PROVE  f[v] = v
  <2> DEFINE wrong == {m \in Nat : m <= MaxDepth + 1 /\ \E x \in Deepest(v, m) : f[x] # x}
  <2>1. wrong = {}
    <3> SUFFICES ASSUME wrong # {}
                 PROVE  FALSE
      OBVIOUS
    <3>1. PICK m \in wrong : \A k \in wrong : m <= k
      BY FirstNumber
    <3>2. PICK x \in Deepest(v, m) : f[x] # x
      BY <3>1
    <3>3. m # 0
      BY <1>4, <3>2 DEF Deepest
    <3>4. m - 1 \in Nat /\ (m - 1) + 1 = m /\ m - 1 <= MaxDepth /\ m - 1 \notin wrong
      BY <1>4, <3>1, <3>3
    <3>5. Held(x) \subseteq Deepest(v, m - 1)
      BY <3>2, <3>4, DeepestHold
    <3>6. \A y \in Held(x) : f[y] = y
      BY <1>4, <3>4, <3>5
    <3>7. x \in Within(v)
      <4>1. (MaxDepth + 1 - m)..MaxDepth \subseteq 0..MaxDepth
        BY <1>4, <3>1
      <4> QED BY <3>2, <4>1 DEF Deepest, Within
    <3>8. x.kind = "object" => \A i \in DOMAIN x.items : ~BreaksTheMemberRule(x.items[i].value)
      BY <1>5, <3>7 DEF PWalk
    <3> QED BY <1>2, <1>3, <3>2, <3>6, <3>7, <3>8, KeptAsItIs
  <2>2. MaxDepth + 1 \in Nat /\ MaxDepth + 1 \notin wrong /\ MaxDepth + 1 - (MaxDepth + 1) = 0
    BY <1>4, <2>1
  <2>3. Deepest(v, MaxDepth + 1) = Within(v)
    BY <2>2 DEF Deepest, Within
  <2> QED BY <1>2, <1>4, <2>2, <2>3
<1>6. ASSUME f[v] = v
      PROVE  ~PWalk(v)
  <2> DEFINE wrong == {d \in Nat : d <= MaxDepth /\ \E x \in Level(v, d) : f[x] # x}
  <2>1. wrong = {}
    <3> SUFFICES ASSUME wrong # {}
                 PROVE  FALSE
      OBVIOUS
    <3>1. PICK d \in wrong : \A k \in wrong : d <= k
      BY FirstNumber
    <3>2. PICK x \in Level(v, d) : f[x] # x
      BY <3>1
    <3>3. d # 0
      BY <1>6, <3>2, LevelBelow
    <3>4. d - 1 \in Nat /\ (d - 1) + 1 = d /\ d - 1 \in 0..MaxDepth /\ d - 1 \notin wrong
      BY <1>4, <3>1, <3>3
    <3>5. PICK y \in Level(v, d - 1) : x \in Held(y)
      BY <3>2, <3>4, LevelBelow DEF Inside
    <3>6. f[y] = y /\ y \in Within(v)
      BY <3>4, <3>5 DEF Within
    <3> QED BY <1>2, <1>3, <3>2, <3>5, <3>6, SomethingGone
  <2>2. \A x \in Within(v) : f[x] = x
    BY <1>4, <2>1 DEF Within
  <2>3. ASSUME NEW x \in Within(v), x.kind = "object", NEW i \in DOMAIN x.items
        PROVE  ~BreaksTheMemberRule(x.items[i].value)
    BY <1>2, <1>3, <2>2, <2>3, SomethingGone
  <2> QED BY <2>3 DEF PWalk
<1> QED BY <1>1, <1>5, <1>6

-----------------------------------------------------------------------------
(* The inductive invariant of the values: what the frames hold, at the     *)
(* depths that are left to them, and what is recorded of the numbers.      *)
Names(t) == {Decoded[t[i]] : i \in {j \in 1..Len(t) : t[j] \in Spellings}}
CodesIn(f) == {c \in Codes : f[c] > 0}
FrameHolds(f, k, names, codes) ==
  /\ f.kind \in {"object", "array"}
  /\ AreItems(f.items)
  /\ \A i \in DOMAIN f.items :
       /\ f.kind = "object" => f.items[i].name \in names
       /\ Fits(f.items[i].value, MaxDepth - k) /\ Sound(f.items[i].value, names, codes)
  /\ f.kind = "object" /\ f.awaits \in {"colon", "value"} => f.key \in names
StackHolds(s, names, codes) ==
  /\ \A k \in 1..Len(s) : FrameHolds(s[k], k, names, codes)
  /\ \A k \in 1..(Len(s) - 1) : s[k].kind = "object" => s[k].awaits = "value"
NumbersAreRecorded(t, f) ==
  /\ \A i \in 1..Len(t) : t[i] # "huge"
  /\ f["number_token_form"] > 0 <=> \E i \in 1..Len(t) : t[i] \in LooseForms
  /\ f["unsafe_integer"] > 0 <=> \E i \in 1..Len(t) : t[i] = "unsafe"
ValueInv ==
  /\ outcome \in {"scanning", "parsed"} =>
       /\ NumbersAreRecorded(text, found)
       /\ value # Nothing => Fits(value, MaxDepth) /\ Sound(value, Names(text), CodesIn(found))
  /\ outcome = "scanning" => StackHolds(stack, Names(text), CodesIn(found))
  /\ outcome = "parsed" => value # Nothing

LEMMA Scalar ==
  ASSUME NEW t \in Scalars \ {"huge"}, NEW names, NEW codes, NEW n \in Nat,
         t \in Spellings => Decoded[t] \in names, NumberCode(t) \subseteq codes
  PROVE  Fits(ScalarValue(t), n) /\ Sound(ScalarValue(t), names, codes)
<1> DEFINE v == ScalarValue(t)
<1>1. CASE t \in Spellings
  <2>1. v = Tree("string", <<Item(Decoded[t], Nothing)>>)
    BY <1>1, SpellingsAssumption DEF ScalarValue, NumberTokens, ForeignNumbers
  <2>2. v.kind = "string" /\ v.items = <<Item(Decoded[t], Nothing)>>
    BY <2>1 DEF Tree
  <2>3. Held(v) = {}
    BY <2>2 DEF Held
  <2>4. \A i \in DOMAIN v.items : v.items[i].name = Decoded[t]
    BY <2>2 DEF Item
  <2> HIDE DEF v
  <2>5. Drawn(v, names, codes)
    BY <1>1, <2>2, <2>4 DEF Drawn
  <2>6. Fits(v, n) /\ Sound(v, names, codes)
    BY <2>3, <2>5, EmptyFits, SoundAround
  <2> QED BY <2>6 DEF v
<1>2. CASE t \notin Spellings
  <2>1. t \in NumberTokens \cup {"null"} /\ t # "huge"
    BY <1>2 DEF Scalars
  <2>2. v.kind = CASE t \in {"minus_zero", "foreign_int"} -> "int"
                   [] t = "foreign_float" -> "float"
                   [] OTHER -> t
    BY <1>2, <2>1 DEF ScalarValue, Tree
  <2>3. v.kind \notin {"object", "array", "string"}
    BY <2>1, <2>2 DEF NumberTokens, ForeignNumbers
  <2>4. /\ v.kind = "float" => "number_token_form" \in codes
        /\ v.kind = "unsafe" => "unsafe_integer" \in codes
    BY <2>2 DEF NumberCode, LooseForms, ForeignNumbers
  <2> HIDE DEF v
  <2>5. Held(v) = {} /\ Drawn(v, names, codes)
    BY <2>3, <2>4 DEF Held, Drawn
  <2>6. Fits(v, n) /\ Sound(v, names, codes)
    BY <2>5, EmptyFits, SoundAround
  <2> QED BY <2>6 DEF v
<1> QED BY <1>1, <1>2

(* A container that is closed.                                             *)
LEMMA Container ==
  ASSUME NEW f, NEW k, NEW names, NEW codes, FrameHolds(f, k, names, codes),
         k \in Nat, 1 <= k, k <= MaxDepth
  PROVE  /\ Fits(Tree(f.kind, f.items), MaxDepth - (k - 1))
         /\ Sound(Tree(f.kind, f.items), names, codes)
<1> DEFINE v == Tree(f.kind, f.items)
<1>1. v = Tree(v.kind, v.items) /\ v.kind = f.kind /\ v.items = f.items
  BY DEF Tree
<1>2. /\ MaxDepth - (k - 1) \in Nat /\ MaxDepth - (k - 1) > 0
      /\ (MaxDepth - (k - 1)) - 1 = MaxDepth - k
  BY DepthAssumption
<1> HIDE DEF v
<1>3. \A x \in Held(v) : Fits(x, MaxDepth - k) /\ Sound(x, names, codes)
  BY <1>1 DEF Held, FrameHolds
<1>4. Drawn(v, names, codes)
  BY <1>1 DEF FrameHolds, Drawn
<1>5. Fits(v, MaxDepth - (k - 1))
  BY <1>2, <1>3, FitsAround
<1>6. Sound(v, names, codes)
  BY <1>3, <1>4, SoundAround
<1> QED BY <1>5, <1>6 DEF v

Joined(items, new, kept) ==
  /\ AreItems(kept)
  /\ \A i \in DOMAIN kept : (\E j \in DOMAIN items : kept[i] = items[j]) \/ kept[i] = new

LEMMA ItemAppended ==
  ASSUME NEW items, AreItems(items), NEW new, new = Item(new.name, new.value)
  PROVE  Joined(items, new, Append(items, new))
<1> DEFINE kept == Append(items, new)
<1>1. PICK S : items \in Seq(S)
  BY DEF AreItems
<1> DEFINE T == S \cup {new}
<1>2. items \in Seq(T) /\ new \in T
  BY <1>1
<1>3. /\ kept \in Seq(T) /\ Len(items) \in Nat /\ DOMAIN items = 1..Len(items)
      /\ DOMAIN kept = 1..(Len(items) + 1)
      /\ kept[Len(items) + 1] = new
      /\ \A i \in 1..Len(items) : kept[i] = items[i]
  BY <1>2
<1>4. \A i \in DOMAIN kept : i \in 1..Len(items) \/ i = Len(items) + 1
  BY <1>3
<1>5. \A i \in DOMAIN kept : (\E j \in DOMAIN items : kept[i] = items[j]) \/ kept[i] = new
  BY <1>3, <1>4
<1>6. \A i \in DOMAIN kept : kept[i] = Item(kept[i].name, kept[i].value)
  BY <1>5 DEF AreItems
<1> QED BY <1>3, <1>5, <1>6 DEF AreItems, Joined

LEMMA ItemAssigned ==
  ASSUME NEW items, AreItems(items), NEW new, new = Item(new.name, new.value), NEW name,
         NEW kept, kept = [i \in DOMAIN items |-> IF items[i].name = name THEN new ELSE items[i]]
  PROVE  Joined(items, new, kept)
<1>1. PICK S : items \in Seq(S)
  BY DEF AreItems
<1> DEFINE T == S \cup {new}
           n == Len(items)
<1>2. n \in Nat /\ DOMAIN items = 1..n /\ DOMAIN kept = 1..n /\ kept = [i \in 1..n |-> kept[i]]
  BY <1>1
<1>3. \A i \in 1..n : kept[i] \in T /\ (kept[i] = new \/ kept[i] = items[i])
  BY <1>1, <1>2
<1> HIDE DEF T, n
<1>4. kept \in Seq(T)
  BY <1>2, <1>3
<1>5. \A i \in DOMAIN kept : kept[i] = Item(kept[i].name, kept[i].value)
  BY <1>2, <1>3 DEF AreItems
<1> QED BY <1>2, <1>3, <1>4, <1>5 DEF AreItems, Joined

LEMMA ItemJoins ==
  ASSUME NEW items, AreItems(items), NEW name, NEW v
  PROVE  Joined(items, Item(name, v), Assign(items, name, v))
         /\ Joined(items, Item(name, v), Append(items, Item(name, v)))
<1> DEFINE new == Item(name, v)
<1>1. new = Item(new.name, new.value)
  BY DEF Item
<1> HIDE DEF new
<1>2. Joined(items, new, Append(items, new))
  BY <1>1, ItemAppended
<1>3. Joined(items, new, [i \in DOMAIN items |-> IF items[i].name = name THEN new ELSE items[i]])
  BY <1>1, ItemAssigned
<1> QED BY <1>2, <1>3 DEF Assign, new

LEMMA StackHoldsMore ==
  ASSUME NEW s, NEW names, NEW codes, NEW moreNames, NEW moreCodes, StackHolds(s, names, codes),
         names \subseteq moreNames, codes \subseteq moreCodes
  PROVE  StackHolds(s, moreNames, moreCodes)
<1>1. ASSUME NEW f, NEW k, FrameHolds(f, k, names, codes)
      PROVE  FrameHolds(f, k, moreNames, moreCodes)
  <2>1. \A i \in DOMAIN f.items : Sound(f.items[i].value, moreNames, moreCodes)
    BY <1>1, SoundGrows DEF FrameHolds
  <2> QED BY <1>1, <2>1 DEF FrameHolds
<1> QED BY <1>1 DEF StackHolds

(* What the scanner's steps leave of a frame: what it is and what it holds.*)
Filled(c, k) == [c EXCEPT !.items = k, !.first = FALSE, !.awaits = "item"]

LEMMA FrameFilled ==
  ASSUME NEW c, IsFrame(c), NEW k
  PROVE  /\ IsFrame(Filled(c, k)) /\ Filled(c, k).awaits = "item"
         /\ Filled(c, k).kind = c.kind /\ Filled(c, k).items = k
<1> DEFINE r == [kind |-> c.kind, items |-> k, seen |-> c.seen, first |-> FALSE,
                 awaits |-> "item", key |-> c.key]
<1>1. ASSUME NEW f, f = [c EXCEPT !.items = k, !.first = FALSE, !.awaits = "item"]
      PROVE  f = r
  BY <1>1 DEF IsFrame
<1>2. Filled(c, k) = r
  BY <1>1 DEF Filled
<1> QED BY <1>2 DEF IsFrame

LEMMA FrameStays ==
  ASSUME NEW c, IsFrame(c), NEW x, NEW f,
         \/ f = [c EXCEPT !.awaits = x]
         \/ f = Named(c, x)
         \/ f = [c EXCEPT !.seen = @ \cup {x}, !.awaits = "value"]
  PROVE  f.kind = c.kind /\ f.items = c.items /\ (f = Named(c, x) \/ f.key = c.key)
<1>1. CASE f = [c EXCEPT !.awaits = x]
  <2>1. f = [kind |-> c.kind, items |-> c.items, seen |-> c.seen, first |-> c.first,
             awaits |-> x, key |-> c.key]
    BY <1>1 DEF IsFrame
  <2> QED BY <2>1
<1>2. CASE f = Named(c, x)
  <2>1. f = [kind |-> c.kind, items |-> c.items, seen |-> c.seen, first |-> FALSE,
             awaits |-> "colon", key |-> x]
    BY <1>2 DEF IsFrame, Named
  <2> QED BY <1>2, <2>1
<1>3. CASE f = [c EXCEPT !.seen = @ \cup {x}, !.awaits = "value"]
  <2>1. f = [kind |-> c.kind, items |-> c.items, seen |-> c.seen \cup {x}, first |-> c.first,
             awaits |-> "value", key |-> c.key]
    BY <1>3 DEF IsFrame
  <2> QED BY <2>1
<1> QED BY <1>1, <1>2, <1>3

(* The caller takes the value as one item more, or in place of another.    *)
Takes(c, v, names, kept) ==
  /\ AreItems(kept)
  /\ \A i \in DOMAIN kept :
       \/ \E j \in DOMAIN c.items : kept[i] = c.items[j]
       \/ kept[i].value = v /\ (c.kind = "object" => kept[i].name \in names)

LEMMA ItemKept ==
  ASSUME NEW c, NEW names, NEW v, AreItems(c.items), c.kind = "object" => c.key \in names, NEW kept,
         kept = IF c.kind = "object" THEN Assign(c.items, c.key, v) ELSE Append(c.items, Item("", v))
  PROVE  Takes(c, v, names, kept)
<1>1. ASSUME NEW name, Joined(c.items, Item(name, v), kept), c.kind = "object" => name \in names
      PROVE  Takes(c, v, names, kept)
  <2>1. Item(name, v).name = name /\ Item(name, v).value = v
    BY DEF Item
  <2> QED BY <1>1, <2>1 DEF Joined, Takes
<1>2. CASE c.kind = "object"
  <2>1. Joined(c.items, Item(c.key, v), kept)
    BY <1>2, ItemJoins
  <2> QED BY <1>1, <1>2, <2>1
<1>3. CASE c.kind # "object"
  <2>1. Joined(c.items, Item("", v), kept)
    BY <1>3, ItemJoins
  <2> QED BY <1>1, <1>3, <2>1
<1> QED BY <1>2, <1>3

LEMMA FrameTakes ==
  ASSUME NEW c, NEW n, NEW names, NEW codes, FrameHolds(c, n, names, codes),
         NEW v, Fits(v, MaxDepth - n), Sound(v, names, codes),
         NEW f, f.awaits = "item", f.kind = c.kind, Takes(c, v, names, f.items)
  PROVE  FrameHolds(f, n, names, codes)
<1>1. ASSUME NEW i \in DOMAIN f.items
      PROVE  /\ f.kind = "object" => f.items[i].name \in names
             /\ Fits(f.items[i].value, MaxDepth - n) /\ Sound(f.items[i].value, names, codes)
  BY DEF FrameHolds, Takes
<1> QED BY <1>1 DEF FrameHolds, Takes

LEMMA ReturnHolds ==
  ASSUME NEW c, IsStack(c), NEW v, NEW names, NEW codes, StackHolds(c, names, codes),
         c # <<>> => (c[Len(c)].kind = "object" => c[Len(c)].awaits = "value"),
         Len(c) <= MaxDepth, Fits(v, MaxDepth - Len(c)), Sound(v, names, codes),
         value # Nothing => Fits(value, MaxDepth) /\ Sound(value, names, codes),
         Returned(v, c)
  PROVE  /\ StackHolds(stack', names, codes)
         /\ value' # Nothing => Fits(value', MaxDepth) /\ Sound(value', names, codes)
<1>1. CASE c = <<>>
  <2>1. stack' = <<>> /\ value' = v /\ Len(c) = 0 /\ MaxDepth - 0 = MaxDepth
    BY <1>1, EmptyStack, DepthAssumption DEF Returned
  <2>2. StackHolds(<<>>, names, codes)
    BY EmptyStack DEF StackHolds
  <2> QED BY <2>1, <2>2
<1>2. CASE c # <<>>
  <2>1. Len(c) \in Nat /\ Len(c) > 0
    BY <1>2, Popped
  <2>2. PICK caller : caller = c[Len(c)]
    OBVIOUS
  <2>3. PICK kept : kept = IF caller.kind = "object" THEN Assign(caller.items, caller.key, v)
                           ELSE Append(caller.items, Item("", v))
    OBVIOUS
  <2>4. PICK f : f = Filled(caller, kept)
    OBVIOUS
  <2>5. stack' = [c EXCEPT ![Len(c)] = f] /\ value' = value
    BY <1>2, <2>2, <2>3, <2>4 DEF Returned, Filled
  <2>6. /\ IsFrame(caller) /\ FrameHolds(caller, Len(c), names, codes)
        /\ caller.kind = "object" => caller.awaits = "value"
    BY <1>2, <2>1, <2>2 DEF IsStack, StackHolds
  <2>7. IsFrame(f) /\ f.awaits = "item" /\ f.kind = caller.kind /\ f.items = kept
    BY <2>4, <2>6, FrameFilled
  <2>8. FrameHolds(f, Len(c), names, codes)
    <3>1. Takes(caller, v, names, kept)
      BY <2>3, <2>6, ItemKept DEF FrameHolds
    <3> QED BY <2>6, <2>7, <3>1, FrameTakes
  <2>9. /\ Len(stack') = Len(c) /\ stack'[Len(c)] = f
        /\ \A k \in 1..(Len(c) - 1) : stack'[k] = c[k]
    BY <1>2, <2>5, <2>7, Replaced
  <2>10. \A k \in 1..Len(c) : k \in 1..(Len(c) - 1) \/ k = Len(c)
    BY <2>1
  <2>11. \A k \in 1..Len(c) : FrameHolds(stack'[k], k, names, codes)
    BY <2>8, <2>9, <2>10 DEF StackHolds
  <2>12. StackHolds(stack', names, codes)
    BY <2>9, <2>11 DEF StackHolds
  <2> QED BY <2>5, <2>12
<1> QED BY <1>1, <1>2

(* One token more: what was read and recorded stays so.                    *)
LEMMA NamesGrow ==
  ASSUME NEW t, NEW x, NEW u, IsGrown(t, x, u)
  PROVE  Names(t) \subseteq Names(u) /\ (x \in Spellings => Decoded[x] \in Names(u))
<1>1. Len(t) \in Nat /\ Len(u) = Len(t) + 1
  BY DEF IsGrown
<1>2. \A i \in 1..Len(t) : i \in 1..Len(u) /\ u[i] = t[i]
  BY <1>1 DEF IsGrown
<1>3. Names(t) \subseteq Names(u)
  BY <1>2 DEF Names
<1>4. Len(u) \in 1..Len(u) /\ u[Len(u)] = x
  BY <1>1 DEF IsGrown
<1> QED BY <1>3, <1>4 DEF Names

LEMMA NumbersStay ==
  ASSUME NEW t, NEW x, NEW u, IsGrown(t, x, u), NEW f, NEW g, f \in [Codes -> Nat],
         x # "huge", NumbersAreRecorded(t, f),
         \A c \in Codes : g[c] = f[c] + (IF c \in NumberCode(x) THEN 1 ELSE 0)
                          \/ (c = "duplicate_key" /\ g[c] >= f[c] /\ g[c] \in Nat)
  PROVE  NumbersAreRecorded(u, g) /\ CodesIn(f) \subseteq CodesIn(g)
                                  /\ NumberCode(x) \subseteq CodesIn(g)
<1>1. Len(t) \in Nat /\ Len(u) = Len(t) + 1
  BY DEF IsGrown
<1>2. /\ \A i \in 1..Len(t) : i \in 1..Len(u) /\ u[i] = t[i]
      /\ Len(u) \in 1..Len(u) /\ u[Len(u)] = x
      /\ \A i \in 1..Len(u) : i \in 1..Len(t) \/ i = Len(u)
  BY <1>1 DEF IsGrown
<1>3. /\ g["number_token_form"] =
           f["number_token_form"] + (IF x \in LooseForms THEN 1 ELSE 0)
      /\ g["unsafe_integer"] = f["unsafe_integer"] + (IF x = "unsafe" THEN 1 ELSE 0)
      /\ f["number_token_form"] \in Nat /\ f["unsafe_integer"] \in Nat /\ f["duplicate_key"] \in Nat
      /\ g["duplicate_key"] >= f["duplicate_key"]
  BY DEF Codes, NumberCode, LooseForms, ForeignNumbers
<1>4. CodesIn(f) \subseteq CodesIn(g)
  BY <1>3 DEF CodesIn, Codes
<1>5. NumberCode(x) \subseteq CodesIn(g)
  BY <1>3 DEF CodesIn, Codes, NumberCode, LooseForms, ForeignNumbers
<1>6. \A i \in 1..Len(u) : u[i] # "huge"
  BY <1>2 DEF NumbersAreRecorded
<1>7. g["number_token_form"] > 0 <=> \E i \in 1..Len(u) : u[i] \in LooseForms
  BY <1>2, <1>3 DEF NumbersAreRecorded, LooseForms, ForeignNumbers
<1>8. g["unsafe_integer"] > 0 <=> \E i \in 1..Len(u) : u[i] = "unsafe"
  BY <1>2, <1>3 DEF NumbersAreRecorded
<1> QED BY <1>4, <1>5, <1>6, <1>7, <1>8 DEF NumbersAreRecorded

LEMMA ReadHolds ==
  ASSUME ScanInv, ValueInv, NEW x \in Tokens, Read(x), x # "huge",
         \A c \in Codes : found'[c] = found[c] + (IF c \in NumberCode(x) THEN 1 ELSE 0)
                          \/ (c = "duplicate_key" /\ found'[c] >= found[c] /\ found'[c] \in Nat)
  PROVE  /\ NumbersAreRecorded(text', found')
         /\ StackHolds(stack, Names(text'), CodesIn(found'))
         /\ value # Nothing =>
              Fits(value, MaxDepth) /\ Sound(value, Names(text'), CodesIn(found'))
         /\ x \in Spellings => Decoded[x] \in Names(text')
         /\ NumberCode(x) \subseteq CodesIn(found')
         /\ outcome = "scanning"
         /\ IsStack(stack) /\ Len(stack) \in Nat /\ Len(stack) <= MaxDepth
<1>1. /\ IsGrown(text, x, text') /\ outcome = "scanning"
      /\ found \in [Codes -> Nat] /\ StackFits(stack, text)
      /\ IsStack(stack) /\ Len(stack) <= MaxDepth
  BY ReadGrows DEF Counted, Descended, StackFits
<1>2. /\ NumbersAreRecorded(text, found) /\ StackHolds(stack, Names(text), CodesIn(found))
      /\ value # Nothing => Fits(value, MaxDepth) /\ Sound(value, Names(text), CodesIn(found))
  BY <1>1 DEF ValueInv
<1>3. Names(text) \subseteq Names(text') /\ (x \in Spellings => Decoded[x] \in Names(text'))
  BY <1>1, NamesGrow
<1>4. /\ NumbersAreRecorded(text', found') /\ CodesIn(found) \subseteq CodesIn(found')
      /\ NumberCode(x) \subseteq CodesIn(found')
  BY <1>1, <1>2, NumbersStay
<1>5. StackHolds(stack, Names(text'), CodesIn(found'))
  BY <1>2, <1>3, <1>4, StackHoldsMore
<1>6. value # Nothing => Fits(value, MaxDepth) /\ Sound(value, Names(text'), CodesIn(found'))
  BY <1>2, <1>3, <1>4, SoundGrows
<1>7. Len(stack) \in Nat
  BY <1>1 DEF IsStack
<1> QED BY <1>1, <1>3, <1>4, <1>5, <1>6, <1>7

(* Tokens that leave what is recorded as it is.                            *)
LEMMA PlainRead ==
  ASSUME ScanInv, NEW x \in Tokens, Read(x), UNCHANGED found, x \notin NumberTokens
  PROVE  /\ x # "huge"
         /\ \A c \in Codes : found'[c] = found[c] + (IF c \in NumberCode(x) THEN 1 ELSE 0)
<1>1. found \in [Codes -> Nat]
  BY ReadGrows DEF Counted
<1> QED BY <1>1 DEF NumberTokens, ForeignNumbers, LooseForms, NumberCode

LEMMA NoNumbers ==
  \A x : x \in Openers \cup Closers \cup Spellings \cup {",", ":"} => x \notin NumberTokens
BY SpellingsAssumption DEF Openers, Closers, NumberTokens, ForeignNumbers

(* A new innermost frame.                                                  *)
LEMMA TopHolds ==
  ASSUME IsStack(stack), stack # <<>>, NEW names, NEW codes, StackHolds(stack, names, codes),
         NEW f, IsFrame(f), FrameHolds(f, Len(stack), names, codes), stack' = WithTop(f)
  PROVE  StackHolds(stack', names, codes)
<1>1. /\ Len(stack) \in Nat /\ Len(stack) > 0 /\ Len(stack') = Len(stack)
      /\ stack'[Len(stack)] = f
      /\ \A k \in 1..(Len(stack) - 1) : stack'[k] = stack[k]
  BY TopReplaced
<1>2. \A k \in 1..Len(stack) : k \in 1..(Len(stack) - 1) \/ k = Len(stack)
  BY <1>1
<1>3. \A k \in 1..Len(stack) : FrameHolds(stack'[k], k, names, codes)
  BY <1>1, <1>2 DEF StackHolds
<1> QED BY <1>1, <1>3 DEF StackHolds

LEMMA TopHeld ==
  ASSUME IsStack(stack), stack # <<>>, NEW names, NEW codes, StackHolds(stack, names, codes)
  PROVE  FrameHolds(Top, Len(stack), names, codes) /\ IsFrame(Top) /\ Len(stack) > 0
<1>1. IsFrame(Top) /\ Len(stack) \in Nat /\ Len(stack) > 0
  BY TopIsAFrame
<1> QED BY <1>1 DEF StackHolds, Top

LEMMA ScalarValueHolds ==
  ASSUME ScanInv, ValueInv, NEW t, ReadScalar(t)
  PROVE  ValueInv'
<1>1. /\ t \in Tokens /\ t \in Scalars \ {"huge"} /\ t # "huge" /\ Read(t) /\ ValueExpected
      /\ Record(NumberCode(t)) /\ Returned(ScalarValue(t), stack) /\ outcome' = outcome
  BY PlainTokens DEF ReadScalar
<1>2. found \in [Codes -> Nat]
  BY <1>1, ReadGrows DEF Counted
<1>3. \A c \in Codes : found'[c] = found[c] + (IF c \in NumberCode(t) THEN 1 ELSE 0)
  BY <1>1, <1>2, Recorded
<1>4. /\ NumbersAreRecorded(text', found')
      /\ StackHolds(stack, Names(text'), CodesIn(found'))
      /\ value # Nothing => Fits(value, MaxDepth) /\ Sound(value, Names(text'), CodesIn(found'))
      /\ t \in Spellings => Decoded[t] \in Names(text')
      /\ NumberCode(t) \subseteq CodesIn(found')
      /\ outcome = "scanning"
      /\ IsStack(stack) /\ Len(stack) \in Nat /\ Len(stack) <= MaxDepth
  BY <1>1, <1>3, ReadHolds
<1>5. MaxDepth - Len(stack) \in Nat
  BY <1>4, DepthAssumption
<1>6. /\ Fits(ScalarValue(t), MaxDepth - Len(stack))
      /\ Sound(ScalarValue(t), Names(text'), CodesIn(found'))
  BY <1>1, <1>4, <1>5, Scalar
<1>7. stack # <<>> => (stack[Len(stack)].kind = "object" => stack[Len(stack)].awaits = "value")
  BY <1>1 DEF ValueExpected, InArray, Top
<1>8. /\ StackHolds(stack', Names(text'), CodesIn(found'))
      /\ value' # Nothing => Fits(value', MaxDepth) /\ Sound(value', Names(text'), CodesIn(found'))
  BY <1>1, <1>4, <1>6, <1>7, ReturnHolds
<1> QED BY <1>1, <1>4, <1>8 DEF ValueInv

LEMMA OpenHolds ==
  ASSUME ScanInv, ValueInv, NEW t, Open(t)
  PROVE  ValueInv'
<1>1. /\ t \in Tokens /\ t \in Openers /\ Read(t) /\ ValueExpected
      /\ UNCHANGED <<found, value>>
  BY PlainTokens DEF Open
<1>2. /\ NumbersAreRecorded(text', found')
      /\ StackHolds(stack, Names(text'), CodesIn(found'))
      /\ value # Nothing => Fits(value, MaxDepth) /\ Sound(value, Names(text'), CodesIn(found'))
      /\ outcome = "scanning"
      /\ IsStack(stack) /\ Len(stack) \in Nat
  BY <1>1, PlainRead, NoNumbers, ReadHolds
<1>3. CASE depth' > MaxDepth
  <2>1. outcome' = "too_deep"
    BY <1>3 DEF Open
  <2> QED BY <2>1 DEF ValueInv
<1>4. CASE ~(depth' > MaxDepth)
  <2>1. stack' = Append(stack, Frame(t)) /\ outcome' = "scanning"
    BY <1>2, <1>4 DEF Open
  <2>2. /\ IsFrame(Frame(t)) /\ Frame(t).kind \in {"object", "array"}
        /\ Frame(t).items = <<>> /\ Frame(t).awaits = "item"
    BY DEF Frame, IsFrame
  <2>3. AreItems(<<>>) /\ DOMAIN <<>> = {}
    <3>1. <<>> \in Seq({}) /\ DOMAIN <<>> = {}
      OBVIOUS
    <3> QED BY <3>1 DEF AreItems
  <2>4. /\ Len(stack') = Len(stack) + 1
        /\ stack'[Len(stack) + 1] = Frame(t)
        /\ \A k \in 1..Len(stack) : stack'[k] = stack[k]
    BY <1>2, <2>1, <2>2, Pushed
  <2>5. FrameHolds(Frame(t), Len(stack) + 1, Names(text'), CodesIn(found'))
    <3>1. AreItems(Frame(t).items) /\ DOMAIN (Frame(t).items) = {}
      BY <2>2, <2>3
    <3> QED BY <2>2, <3>1, Zenon DEF FrameHolds
  <2>6. \A k \in 1..(Len(stack) + 1) : k \in 1..Len(stack) \/ k = Len(stack) + 1
    BY <1>2
  <2>7. \A k \in 1..Len(stack') : FrameHolds(stack'[k], k, Names(text'), CodesIn(found'))
    BY <1>2, <2>4, <2>5, <2>6 DEF StackHolds
  <2>8. \A k \in 1..(Len(stack') - 1) : stack'[k].kind = "object" => stack'[k].awaits = "value"
    <3>1. \A k \in 1..Len(stack) : k \in 1..(Len(stack) - 1) \/ (k = Len(stack) /\ stack # <<>>)
      BY <1>2, EmptyStack
    <3>2. stack # <<>> => (stack[Len(stack)].kind = "object" => stack[Len(stack)].awaits = "value")
      BY <1>1 DEF ValueExpected, InArray, Top
    <3>3. \A k \in 1..Len(stack) : stack[k].kind = "object" => stack[k].awaits = "value"
      BY <1>2, <3>1, <3>2 DEF StackHolds
    <3>4. (Len(stack) + 1) - 1 = Len(stack)
      BY <1>2
    <3> QED BY <2>4, <3>3, <3>4
  <2>9. StackHolds(stack', Names(text'), CodesIn(found'))
    BY <2>7, <2>8 DEF StackHolds
  <2> QED BY <1>1, <1>2, <2>1, <2>9 DEF ValueInv
<1> QED BY <1>3, <1>4

LEMMA CloseHolds ==
  ASSUME ScanInv, ValueInv, NEW t, Close(t)
  PROVE  ValueInv'
<1>1. /\ t \in Tokens /\ t \in Closers /\ Read(t) /\ stack # <<>>
      /\ UNCHANGED <<found, outcome>>
      /\ Returned(Tree(Top.kind, Top.items), Below)
  BY PlainTokens DEF Close, Closers
<1>2. /\ NumbersAreRecorded(text', found')
      /\ StackHolds(stack, Names(text'), CodesIn(found'))
      /\ value # Nothing => Fits(value, MaxDepth) /\ Sound(value, Names(text'), CodesIn(found'))
      /\ outcome = "scanning"
      /\ IsStack(stack) /\ Len(stack) \in Nat /\ Len(stack) <= MaxDepth
  BY <1>1, PlainRead, NoNumbers, ReadHolds
<1>3. /\ IsStack(Below) /\ Len(stack) > 0 /\ Len(Below) = Len(stack) - 1
      /\ \A k \in 1..(Len(stack) - 1) : Below[k] = stack[k]
  BY <1>1, <1>2, Popped DEF Below
<1>4. /\ Fits(Tree(Top.kind, Top.items), MaxDepth - (Len(stack) - 1))
      /\ Sound(Tree(Top.kind, Top.items), Names(text'), CodesIn(found'))
  <2>1. FrameHolds(Top, Len(stack), Names(text'), CodesIn(found'))
    BY <1>1, <1>2, TopHeld
  <2> QED BY <1>2, <1>3, <2>1, Container
<1>5. StackHolds(Below, Names(text'), CodesIn(found'))
  <2>1. \A k \in 1..Len(Below) : k \in 1..(Len(stack) - 1) /\ k \in 1..Len(stack)
    BY <1>2, <1>3
  <2>2. \A k \in 1..(Len(Below) - 1) : k \in 1..(Len(stack) - 1)
    BY <1>2, <1>3
  <2> QED BY <1>2, <1>3, <2>1, <2>2 DEF StackHolds
<1>6. Below # <<>> => (Below[Len(Below)].kind = "object" => Below[Len(Below)].awaits = "value")
  <2>1. Below # <<>> => Len(Below) \in 1..(Len(stack) - 1)
    BY <1>2, <1>3, Popped
  <2> QED BY <1>2, <1>3, <2>1 DEF StackHolds
<1>7. Len(Below) <= MaxDepth
  BY <1>2, <1>3, DepthAssumption
<1>8. /\ StackHolds(stack', Names(text'), CodesIn(found'))
      /\ value' # Nothing => Fits(value', MaxDepth) /\ Sound(value', Names(text'), CodesIn(found'))
  BY <1>1, <1>2, <1>3, <1>4, <1>5, <1>6, <1>7, ReturnHolds
<1> QED BY <1>1, <1>2, <1>8 DEF ValueInv

LEMMA CommaHolds ==
  ASSUME ScanInv, ValueInv, Comma
  PROVE  ValueInv'
<1> DEFINE w == IF Top.kind = "object" THEN "key" ELSE "value"
<1>1. /\ stack # <<>> /\ Read(",") /\ UNCHANGED <<found, value, outcome>>
      /\ stack' = WithTop([Top EXCEPT !.awaits = w]) /\ "," \in Tokens
  BY Separators DEF Comma
<1>2. PICK f : f = [Top EXCEPT !.awaits = w]
  OBVIOUS
<1>3. /\ NumbersAreRecorded(text', found')
      /\ StackHolds(stack, Names(text'), CodesIn(found'))
      /\ value # Nothing => Fits(value, MaxDepth) /\ Sound(value, Names(text'), CodesIn(found'))
      /\ outcome = "scanning" /\ IsStack(stack)
  BY <1>1, PlainRead, NoNumbers, ReadHolds
<1>4. FrameHolds(Top, Len(stack), Names(text'), CodesIn(found')) /\ IsFrame(Top)
  BY <1>1, <1>3, TopHeld
<1>5. f.awaits = "value" => Top.kind # "object"
  <2>1. f.awaits = w
    BY <1>2, <1>4, FrameWaits
  <2> QED BY <2>1
<1>6. IsFrame(f) /\ f.awaits # "colon" /\ f.kind = Top.kind /\ f.items = Top.items
  <2> HIDE DEF w
  <2>1. IsFrame(f) /\ f.awaits = w
    BY <1>2, <1>4, FrameWaits
  <2>2. f.kind = Top.kind /\ f.items = Top.items
    BY <1>2, <1>4, FrameStays
  <2>3. w # "colon"
    BY DEF w
  <2> QED BY <2>1, <2>2, <2>3
<1>7. FrameHolds(f, Len(stack), Names(text'), CodesIn(found'))
  BY <1>4, <1>5, <1>6 DEF FrameHolds
<1>8. StackHolds(stack', Names(text'), CodesIn(found'))
  BY <1>1, <1>2, <1>3, <1>6, <1>7, TopHolds
<1> QED BY <1>1, <1>3, <1>8 DEF ValueInv

LEMMA ReadNameHolds ==
  ASSUME ScanInv, ValueInv, NEW t, ReadName(t)
  PROVE  ValueInv'
<1>1. /\ t \in Tokens /\ t \in Spellings /\ stack # <<>> /\ Read(t)
      /\ UNCHANGED <<found, value, outcome>> /\ stack' = WithTop(Named(Top, Decoded[t]))
  BY PlainTokens DEF ReadName, NameExpected, InObject, Named
<1>2. PICK f : f = Named(Top, Decoded[t])
  OBVIOUS
<1>3. /\ NumbersAreRecorded(text', found')
      /\ StackHolds(stack, Names(text'), CodesIn(found'))
      /\ value # Nothing => Fits(value, MaxDepth) /\ Sound(value, Names(text'), CodesIn(found'))
      /\ Decoded[t] \in Names(text')
      /\ outcome = "scanning" /\ IsStack(stack)
  BY <1>1, PlainRead, NoNumbers, ReadHolds
<1>4. FrameHolds(Top, Len(stack), Names(text'), CodesIn(found')) /\ IsFrame(Top)
  BY <1>1, <1>3, TopHeld
<1>5. IsFrame(f) /\ f.key = Decoded[t] /\ f.kind = Top.kind /\ f.items = Top.items
  <2>1. IsFrame(f) /\ f.key = Decoded[t]
    BY <1>2, <1>4, FrameNames
  <2>2. f.kind = Top.kind /\ f.items = Top.items
    BY <1>2, <1>4, FrameStays
  <2> QED BY <2>1, <2>2
<1>6. FrameHolds(f, Len(stack), Names(text'), CodesIn(found'))
  BY <1>3, <1>4, <1>5 DEF FrameHolds
<1>7. StackHolds(stack', Names(text'), CodesIn(found'))
  BY <1>1, <1>2, <1>3, <1>5, <1>6, TopHolds
<1> QED BY <1>1, <1>3, <1>7 DEF ValueInv

LEMMA ColonHolds ==
  ASSUME ScanInv, ValueInv, Colon
  PROVE  ValueInv'
<1> DEFINE k == Top.key
           codes == IF Top.key \in Top.seen THEN {"duplicate_key"} ELSE {}
<1>1. /\ stack # <<>> /\ Top.awaits = "colon" /\ Top.kind = "object" /\ Read(":") /\ ":" \in Tokens
      /\ Record(codes) /\ UNCHANGED <<value, outcome>>
      /\ stack' = WithTop([Top EXCEPT !.seen = @ \cup {k}, !.awaits = "value"])
  BY Separators DEF Colon, InObject
<1> HIDE DEF k
<1>2. PICK f : f = [Top EXCEPT !.seen = @ \cup {k}, !.awaits = "value"]
  OBVIOUS
<1>3. /\ \A c \in Codes : found'[c] = found[c] + (IF c \in NumberCode(":") THEN 1 ELSE 0)
                          \/ (c = "duplicate_key" /\ found'[c] >= found[c] /\ found'[c] \in Nat)
      /\ ":" # "huge"
  <2>1. found \in [Codes -> Nat]
    BY <1>1, ReadGrows DEF Counted
  <2>2. \A c \in Codes : found'[c] = found[c] + (IF c \in codes THEN 1 ELSE 0)
    BY <1>1, <2>1, Recorded
  <2>3. \A c \in codes : c = "duplicate_key"
    OBVIOUS
  <2>4. NumberCode(":") = {}
    BY DEF NumberCode, LooseForms, ForeignNumbers
  <2> HIDE DEF codes
  <2> QED BY <2>1, <2>2, <2>3, <2>4
<1>4. /\ NumbersAreRecorded(text', found')
      /\ StackHolds(stack, Names(text'), CodesIn(found'))
      /\ value # Nothing => Fits(value, MaxDepth) /\ Sound(value, Names(text'), CodesIn(found'))
      /\ outcome = "scanning" /\ IsStack(stack)
  BY <1>1, <1>3, ReadHolds
<1>5. FrameHolds(Top, Len(stack), Names(text'), CodesIn(found')) /\ IsFrame(Top)
  BY <1>1, <1>4, TopHeld
<1>6. IsFrame(f) /\ f.key = Top.key /\ f.kind = Top.kind /\ f.items = Top.items
  <2>1. IsFrame(f)
    BY <1>2, <1>5, FrameSees
  <2>2. f.kind = Top.kind /\ f.items = Top.items
    BY <1>2, <1>5, FrameStays
  <2>3. f.key = Top.key
    <3>1. f = [kind |-> Top.kind, items |-> Top.items, seen |-> Top.seen \cup {k},
               first |-> Top.first, awaits |-> "value", key |-> Top.key]
      BY <1>2, <1>5 DEF IsFrame
    <3> QED BY <3>1
  <2> QED BY <2>1, <2>2, <2>3
<1>7. Top.key \in Names(text')
  BY <1>1, <1>5 DEF FrameHolds
<1>8. FrameHolds(f, Len(stack), Names(text'), CodesIn(found'))
  BY <1>5, <1>6, <1>7 DEF FrameHolds
<1>9. StackHolds(stack', Names(text'), CodesIn(found'))
  BY <1>1, <1>2, <1>4, <1>6, <1>8, TopHolds
<1> QED BY <1>1, <1>4, <1>9 DEF ValueInv

LEMMA ValueKeeps ==
  ASSUME ScanInv, ValueInv, ScannerNext
  PROVE  ValueInv'
<1>1. CASE EndOfText
  <2>1. /\ outcome = "scanning" /\ UNCHANGED <<text, found, value>>
        /\ outcome' = IF stack = <<>> /\ value # Nothing THEN "parsed" ELSE "error"
    BY <1>1 DEF EndOfText
  <2> QED BY <2>1 DEF ValueInv
<1>2. CASE \E t \in Tokens : Unexpected(t)
  BY <1>2 DEF Unexpected, ValueInv
<1> QED BY <1>1, <1>2, ScalarValueHolds, OpenHolds, CloseHolds, ReadNameHolds, CommaHolds,
           ColonHolds DEF ScannerNext

LEMMA ValueStart ==
  ASSUME ScannerInit
  PROVE  ValueInv
<1>1. /\ text = <<>> /\ stack = <<>> /\ value = Nothing /\ outcome = "scanning"
      /\ found = [c \in Codes |-> 0]
  BY DEF ScannerInit
<1>2. Len(text) = 0 /\ found["number_token_form"] = 0 /\ found["unsafe_integer"] = 0
  BY <1>1 DEF Codes
<1>3. NumbersAreRecorded(text, found)
  BY <1>2 DEF NumbersAreRecorded
<1>4. StackHolds(stack, Names(text), CodesIn(found))
  BY <1>1, EmptyStack DEF StackHolds
<1> QED BY <1>1, <1>3, <1>4 DEF ValueInv

LEMMA ValueWaits ==
  ASSUME ValueInv, UNCHANGED scannerVars
  PROVE  ValueInv'
BY DEF ValueInv, scannerVars

(* Whatever text is scanned, what the scanner returns is no deeper than    *)
(* the limit and made of names and numbers of the text, the numbers that   *)
(* are not safe integers recorded.                                         *)
THEOREM ValueInvariant == Spec => []ValueInv
<1>1. Init => ValueInv
  BY ValueStart DEF Init
<1>2. ScanInv /\ ValueInv /\ [Next]_vars => ValueInv'
  <2> SUFFICES ASSUME ScanInv, ValueInv, [Next]_vars
               PROVE  ValueInv'
    OBVIOUS
  <2>1. CASE Scan
    BY <2>1, ValueKeeps DEF Scan
  <2>2. CASE Usage \/ Unreadable \/ Report \/ SelfTestVector \/ SelfTestEnds \/ NoSuite
    BY <2>2, ValueWaits DEF Usage, Unreadable, Report, SelfTestVector, SelfTestEnds, NoSuite
  <2>3. CASE UNCHANGED vars
    BY <2>3, ValueWaits DEF vars
  <2> QED BY <2>1, <2>2, <2>3 DEF Next
<1> QED BY <1>1, <1>2, ScannerInvariant, PTL DEF Spec

(* Nothing is recorded for a text exactly when no member repeats and every *)
(* number is a safe integer written as one.                                *)
LEMMA NothingRecorded ==
  ASSUME ScanInv, ValueInv, outcome = "parsed"
  PROVE  (\A c \in Codes : ~(found[c] > 0)) <=>
           /\ Repeats(text, SameName) = {}
           /\ \A i \in DOMAIN text : text[i] \in NumberTokens => text[i] = "int"
<1>1. /\ text \in Seq(Tokens) /\ Counted /\ NumbersAreRecorded(text, found)
  BY DEF ScanInv, ValueInv
<1>2. DOMAIN text = 1..Len(text)
  BY <1>1
<1>3. found["duplicate_key"] = Cardinality(Repeats(text, SameName))
  BY <1>1, RepeatsAreWithin DEF Counted
<1>4. IsFiniteSet(Repeats(text, SameName)) /\ Repeats(text, SameName) = RepeatsWithin(text)
  BY <1>1, RepeatsAreFinite, RepeatsAreWithin DEF Counted
<1>5. found["duplicate_key"] = 0 <=> Repeats(text, SameName) = {}
  BY <1>3, <1>4, FS_EmptySet
<1>6. /\ found["duplicate_key"] \in Nat /\ found["number_token_form"] \in Nat
      /\ found["unsafe_integer"] \in Nat
  BY <1>1 DEF Counted, Codes
<1>7. (\A c \in Codes : ~(found[c] > 0)) <=>
        /\ found["duplicate_key"] = 0
        /\ ~(found["number_token_form"] > 0) /\ ~(found["unsafe_integer"] > 0)
  BY <1>6 DEF Codes
<1>8. ~(found["number_token_form"] > 0) /\ ~(found["unsafe_integer"] > 0) <=>
        \A i \in 1..Len(text) : text[i] \in NumberTokens => text[i] = "int"
  BY <1>1 DEF NumbersAreRecorded, NumberTokens, ForeignNumbers, LooseForms
<1> QED BY <1>2, <1>5, <1>7, <1>8

LEMMA ParsedIsNormal ==
  ASSUME ValueInv, outcome = "parsed"
  PROVE  ~PWalk(value) <=> Normalize(value) = value
<1>1. Fits(value, MaxDepth) /\ Sound(value, Names(text), CodesIn(found))
  BY DEF ValueInv
<1> QED BY <1>1, WalkMeansNormal

(* check and normalize, which walk a record each on their own, agree on    *)
(* every text and for every nesting limit: a record conforms exactly when  *)
(* it is its own normal form, no member repeats and every number is a safe *)
(* integer (lib/cpb/check.py, lib/cpb/canonicalize.py).                    *)
THEOREM ConformingIsNormal == Spec => []ConformingMeansNormalForm
<1>1. ScanInv /\ ValueInv => ConformingMeansNormalForm
  <2> SUFFICES ASSUME ScanInv, ValueInv, outcome = "parsed"
               PROVE  Verdict = "conforming" <=>
                        /\ Normalize(value) = value
                        /\ Repeats(text, SameName) = {}
                        /\ \A i \in DOMAIN text : text[i] \in NumberTokens => text[i] = "int"
    BY DEF ConformingMeansNormalForm
  <2>1. Verdict = "conforming" <=> (\A c \in Codes : ~(found[c] > 0)) /\ ~PWalk(value)
    BY DEF Verdict
  <2> QED BY <2>1, NothingRecorded, ParsedIsNormal
<1> QED BY <1>1, ScannerInvariant, ValueInvariant, PTL

(* A record cpb-check exits 0 for is one canonical_digest_json digests, if *)
(* it is an object and its strings can be encoded: no float, unsafe        *)
(* integer or repeated member gets past the one and stops the other.       *)
THEOREM ConformingIsDigested == Spec => []ConformingIsDigestible
<1>1. ScanInv /\ ValueInv /\ ExitZeroIsEarned => ConformingIsDigestible
  <2> SUFFICES ASSUME ScanInv, ValueInv, ExitZeroIsEarned, args = "record", status = 0,
                      value.kind = "object",
                      \A i \in DOMAIN text : text[i] \in Spellings => Decoded[text[i]] \notin Lone
               PROVE  ~DigestRefused(value, found)
    BY DEF ConformingIsDigestible
  <2>1. outcome = "parsed" /\ Verdict = "conforming"
    BY DEF ExitZeroIsEarned
  <2>2. (\A c \in Codes : ~(found[c] > 0)) /\ ~PWalk(value)
    BY <2>1 DEF Verdict
  <2>3. Normalize(value) = value
    BY <2>1, <2>2, ParsedIsNormal
  <2>4. Sound(value, Names(text), {})
    <3>1. Sound(value, Names(text), CodesIn(found))
      BY <2>1 DEF ValueInv
    <3>2. CodesIn(found) = {}
      BY <2>2 DEF CodesIn
    <3> QED BY <3>1, <3>2
  <2>5. Names(text) \cap Lone = {}
    <3>1. DOMAIN text = 1..Len(text)
      BY DEF ScanInv
    <3> QED BY <3>1 DEF Names
  <2>6. ~SerializerRefuses(value)
    BY <2>4, <2>5, SoundWithin DEF SerializerRefuses, Drawn
  <2> QED BY <2>2, <2>3, <2>6 DEF DigestRefused
<1> QED BY <1>1, ScannerInvariant, ValueInvariant, ZeroIsEarned, PTL
=============================================================================
