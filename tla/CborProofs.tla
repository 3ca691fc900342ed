----------------------------- MODULE CborProofs -----------------------------
(***************************************************************************)
(* Proofs about the CBOR decoder for every input, every nesting limit and  *)
(* every item budget: what it accepts is within its limits, level by level,*)
(* with distinct keys in every map and no more items than its budget, and  *)
(* what it refuses for its size is at a limit.                             *)
(***************************************************************************)
EXTENDS CborDecoder, FiniteSetTheorems, WellFoundedInduction, TLAPS

-----------------------------------------------------------------------------
(* The levels of an item.  What holds at each depth is shown by the first  *)
(* one at which it would not.                                              *)
Inside(items) == UNION {Range(x.items) : x \in items}
Under(places) ==
  UNION {{<<Append(p[1], i), p[2].items[i]>> : i \in DOMAIN p[2].items} : p \in places}
ArePlaces(g, v, n) == g = [d \in 0..n |-> IF d = 0 THEN {<<<<>>, v>>} ELSE Under(g[d - 1])]

LEMMA FirstDepth ==
  ASSUME NEW depths, depths \subseteq Nat, depths # {}
  PROVE  \E d \in depths : \A e \in depths : d <= e
<1>1. PICK d \in depths : \A e \in depths : ~ (<<e, d>> \in OpToRel(<, Nat))
  BY NatLessThanWellFounded, WFMin
<1>2. \A e \in depths : <<e, d>> \notin OpToRel(<, Nat) => d <= e
  BY DEF OpToRel
<1> QED BY <1>1, <1>2

LEMMA PlacesGrow ==
  ASSUME NEW v, NEW n \in Nat, NEW g, ArePlaces(g, v, n)
  PROVE  \E h : ArePlaces(h, v, n + 1)
<1> DEFINE m == n + 1
           h == [d \in 0..m |-> IF d = m THEN Under(g[n]) ELSE g[d]]
<1>1. /\ m \in Nat /\ m # 0 /\ m - 1 = n /\ n \in 0..m /\ n # m /\ m \in 0..m
      /\ \A d \in 0..m : d = m \/ d \in 0..n
      /\ \A d \in 0..n : d # m /\ d \in 0..m /\ (d # 0 => d - 1 \in 0..n)
  OBVIOUS
<1>2. DOMAIN h = 0..m /\ h = [d \in 0..m |-> h[d]]
  OBVIOUS
<1>3. h[m] = Under(g[n]) /\ \A d \in 0..n : h[d] = g[d]
  BY <1>1
<1>4. \A d \in 0..n : g[d] = IF d = 0 THEN {<<<<>>, v>>} ELSE Under(g[d - 1])
  BY DEF ArePlaces
<1> HIDE DEF h, m
<1>5. \A d \in 0..m : h[d] = IF d = 0 THEN {<<<<>>, v>>} ELSE Under(h[d - 1])
  <2> SUFFICES ASSUME NEW d \in 0..m
               PROVE  h[d] = IF d = 0 THEN {<<<<>>, v>>} ELSE Under(h[d - 1])
    OBVIOUS
  <2>1. CASE d = m
    BY <1>1, <1>3, <2>1
  <2>2. CASE d # m
    BY <1>1, <1>3, <1>4, <2>2
  <2> QED BY <2>1, <2>2
<1>6. ArePlaces(h, v, m)
  BY <1>2, <1>5 DEF ArePlaces
<1> QED BY <1>6 DEF m

LEMMA PlacesExist ==
  ASSUME NEW v, NEW n \in Nat
  PROVE  \E g : ArePlaces(g, v, n)
<1> DEFINE missing == {m \in Nat : ~ \E g : ArePlaces(g, v, m)}
<1> SUFFICES ASSUME missing # {}
             PROVE  FALSE
  OBVIOUS
<1>1. PICK m \in missing : \A k \in missing : m <= k
  BY FirstDepth
<1>2. CASE m = 0
  <2> DEFINE g == [d \in 0..0 |-> {<<<<>>, v>>}]
  <2>1. ArePlaces(g, v, 0)
    BY DEF ArePlaces
  <2> QED BY <1>1, <1>2, <2>1
<1>3. CASE m # 0
  <2>1. m - 1 \in Nat /\ (m - 1) + 1 = m /\ m - 1 \notin missing
    BY <1>1, <1>3
  <2>2. PICK g : ArePlaces(g, v, m - 1)
    BY <2>1
  <2> QED BY <1>1, <2>1, <2>2, PlacesGrow
<1> QED BY <1>2, <1>3

LEMMA PlacesAgree ==
  ASSUME NEW v, NEW n \in Nat, NEW m \in Nat, NEW g, NEW h, ArePlaces(g, v, n), ArePlaces(h, v, m)
  PROVE  \A d \in 0..n : d \in 0..m => g[d] = h[d]
<1> DEFINE differ == {d \in Nat : d \in 0..n /\ d \in 0..m /\ g[d] # h[d]}
<1> SUFFICES ASSUME differ # {}
             PROVE  FALSE
  OBVIOUS
<1>1. PICK d \in differ : \A e \in differ : d <= e
  BY FirstDepth
<1>2. /\ g[d] = IF d = 0 THEN {<<<<>>, v>>} ELSE Under(g[d - 1])
      /\ h[d] = IF d = 0 THEN {<<<<>>, v>>} ELSE Under(h[d - 1])
  BY <1>1 DEF ArePlaces
<1>3. d # 0
  BY <1>1, <1>2
<1>4. d - 1 \in Nat /\ d - 1 \in 0..n /\ d - 1 \in 0..m /\ d - 1 \notin differ
  BY <1>1, <1>3
<1> QED BY <1>1, <1>2, <1>3, <1>4

LEMMA PlacesAre ==
  ASSUME NEW v, NEW n \in Nat
  PROVE  \E g : ArePlaces(g, v, n) /\ Places(v, n) = g[n]
<1> DEFINE g == CHOOSE places : places = [d \in 0..n |->
                  IF d = 0 THEN {<<<<>>, v>>}
                  ELSE UNION {{<<Append(p[1], i), p[2].items[i]>> : i \in DOMAIN p[2].items} :
                                p \in places[d - 1]}]
<1>1. ArePlaces(g, v, n)
  <2>1. \E places : ArePlaces(places, v, n)
    BY PlacesExist
  <2> QED BY <2>1, Zenon DEF ArePlaces, Under
<1>2. Places(v, n) = g[n]
  BY DEF Places
<1> QED BY <1>1, <1>2

(* The next places are those of the items held at these.                   *)
LEMMA PlacesBelow ==
  ASSUME NEW v, NEW n \in Nat
  PROVE  Places(v, 0) = {<<<<>>, v>>} /\ Places(v, n + 1) = Under(Places(v, n))
<1>1. PICK g : ArePlaces(g, v, n) /\ Places(v, n) = g[n]
  BY PlacesAre
<1>2. PICK h : ArePlaces(h, v, n + 1) /\ Places(v, n + 1) = h[n + 1]
  BY PlacesAre
<1>3. PICK f : ArePlaces(f, v, 0) /\ Places(v, 0) = f[0]
  BY PlacesAre
<1>4. f[0] = {<<<<>>, v>>}
  BY <1>3 DEF ArePlaces
<1>5. n + 1 \in 0..(n + 1) /\ n + 1 # 0 /\ (n + 1) - 1 = n /\ n \in 0..n /\ n \in 0..(n + 1)
  OBVIOUS
<1>6. h[n + 1] = Under(h[n])
  BY <1>2, <1>5 DEF ArePlaces
<1>7. g[n] = h[n]
  BY <1>1, <1>2, <1>5, PlacesAgree
<1> QED BY <1>1, <1>2, <1>3, <1>4, <1>6, <1>7

LEMMA LevelBelow ==
  ASSUME NEW v, NEW n \in Nat
  PROVE  Level(v, 0) = {v} /\ Level(v, n + 1) = Inside(Level(v, n))
<1>1. Level(v, 0) = {v}
  <2> DEFINE root == <<<<>>, v>>
  <2>1. Level(v, 0) = {p[2] : p \in {root}}
    BY PlacesBelow, Zenon DEF Level
  <2>2. root[2] = v
    OBVIOUS
  <2> HIDE DEF root
  <2> QED BY <2>1, <2>2
<1>2. Level(v, n + 1) = Inside(Level(v, n))
  <2> DEFINE S == Places(v, n)
  <2>1. Level(v, n + 1) = {q[2] : q \in Under(S)}
    BY PlacesBelow DEF Level
  <2>2. Level(v, n) = {p[2] : p \in S}
    BY DEF Level
  <2> HIDE DEF S
  <2>3. \A x \in {q[2] : q \in Under(S)} : \E p \in S : x \in Range(p[2].items)
    <3> TAKE x \in {q[2] : q \in Under(S)}
    <3>1. PICK q \in Under(S) : x = q[2]
      OBVIOUS
    <3>2. PICK p \in S : q \in {<<Append(p[1], i), p[2].items[i]>> : i \in DOMAIN p[2].items}
      BY <3>1 DEF Under
    <3>3. PICK i \in DOMAIN p[2].items : q = <<Append(p[1], i), p[2].items[i]>>
      BY <3>2
    <3> QED BY <3>1, <3>3 DEF Range
  <2>4. \A p \in S : \A x \in Range(p[2].items) : x \in {q[2] : q \in Under(S)}
    <3> TAKE p \in S
    <3> TAKE x \in Range(p[2].items)
    <3>1. PICK i \in DOMAIN p[2].items : x = p[2].items[i]
      BY DEF Range
    <3>2. <<Append(p[1], i), p[2].items[i]>> \in Under(S)
      BY DEF Under
    <3> QED BY <3>1, <3>2
  <2> QED BY <2>1, <2>2, <2>3, <2>4 DEF Inside
<1> QED BY <1>1, <1>2

(* Below an item is what is below each of the items it holds.              *)
LEMMA LevelsWithin ==
  ASSUME NEW v, NEW n \in Nat
  PROVE  Level(v, n + 1) = UNION {Level(x, n) : x \in Range(v.items)}
<1> DEFINE Deeper(d) == UNION {Level(x, d) : x \in Range(v.items)}
           wrong == {d \in Nat : Level(v, d + 1) # Deeper(d)}
<1> SUFFICES ASSUME wrong # {}
             PROVE  FALSE
  OBVIOUS
<1>1. PICK d \in wrong : \A e \in wrong : d <= e
  BY FirstDepth
<1>2. CASE d = 0
  <2>1. Level(v, 0 + 1) = Inside({v})
    BY LevelBelow
  <2>2. Inside({v}) = Range(v.items)
    BY DEF Inside
  <2>3. \A x : Level(x, 0) = {x}
    BY LevelBelow
  <2>4. Deeper(0) = Range(v.items)
    BY <2>3
  <2> QED BY <1>1, <1>2, <2>1, <2>2, <2>4
<1>3. CASE d # 0
  <2>1. d - 1 \in Nat /\ (d - 1) + 1 = d /\ d \in Nat
    BY <1>1, <1>3
  <2>2. Level(v, d) = Deeper(d - 1)
    BY <1>1, <2>1
  <2>3. Level(v, d + 1) = Inside(Deeper(d - 1))
    <3>1. Level(v, d + 1) = Inside(Level(v, d))
      BY <2>1, LevelBelow
    <3> QED BY <2>2, <3>1, Zenon
  <2>4. \A x : Level(x, d) = Inside(Level(x, d - 1))
    BY <2>1, LevelBelow
  <2>5. Inside(Deeper(d - 1)) = UNION {Inside(Level(x, d - 1)) : x \in Range(v.items)}
    BY DEF Inside
  <2>6. Inside(Deeper(d - 1)) = Deeper(d)
    BY <2>4, <2>5
  <2> QED BY <1>1, <2>3, <2>6
<1> QED BY <1>2, <1>3

-----------------------------------------------------------------------------
(* An item whose levels are within a limit and whose maps have different   *)
(* keys.                                                                   *)
KeysFit(v) == v.kind = "map" => KeysDiffer(v.items)
Fits(v, n) ==
  /\ Level(v, n + 1) = {}
  /\ \A d \in 0..n : \A x \in Level(v, d) : KeysFit(x)

LEMMA FitsAround ==
  ASSUME NEW v, NEW n \in Nat, KeysFit(v),
         \A x \in Range(v.items) : n > 0 /\ Fits(x, n - 1)
  PROVE  Fits(v, n)
<1>1. Level(v, n + 1) = {}
  <2>1. Level(v, n + 1) = UNION {Level(x, n) : x \in Range(v.items)}
    BY LevelsWithin
  <2>2. \A x \in Range(v.items) : Level(x, n) = {}
    <3> SUFFICES ASSUME NEW x \in Range(v.items)
                 PROVE  Level(x, n) = {}
      OBVIOUS
    <3>1. (n - 1) + 1 = n
      OBVIOUS
    <3> QED BY <3>1, Zenon DEF Fits
  <2> QED BY <2>1, <2>2
<1>2. ASSUME NEW d \in 0..n, NEW x \in Level(v, d)
      PROVE  KeysFit(x)
  <2>1. CASE d = 0
    <3>1. Level(v, 0) = {v}
      BY LevelBelow
    <3> QED BY <1>2, <2>1, <3>1
  <2>2. CASE d # 0
    <3>1. d - 1 \in Nat /\ (d - 1) + 1 = d /\ d - 1 \in 0..(n - 1)
      BY <2>2
    <3>2. Level(v, d) = UNION {Level(y, d - 1) : y \in Range(v.items)}
      <4>1. Level(v, (d - 1) + 1) = UNION {Level(y, d - 1) : y \in Range(v.items)}
        BY <3>1, LevelsWithin
      <4> QED BY <3>1, <4>1
    <3>3. PICK y \in Range(v.items) : x \in Level(y, d - 1)
      BY <1>2, <3>2
    <3> QED BY <3>1, <3>3 DEF Fits
  <2> QED BY <2>1, <2>2
<1> QED BY <1>1, <1>2 DEF Fits

LEMMA EmptyFits ==
  ASSUME NEW v, v.items = <<>>, NEW n \in Nat
  PROVE  Fits(v, n)
<1>1. Range(v.items) = {}
  BY DEF Range
<1>2. KeysFit(v)
  BY DEF KeysFit, KeysDiffer
<1> QED BY <1>1, <1>2, FitsAround

-----------------------------------------------------------------------------
(* The suspended activations, outermost first: those items that the k-th   *)
(* holds already leave it the levels below it.                             *)
IsFrame(f) ==
  /\ f = [kind |-> f.kind, content |-> f.content, left |-> f.left, items |-> f.items]
  /\ \E S : f.items \in Seq(S)
FrameFits(f, k) ==
  /\ IsFrame(f)
  /\ KeysFit(f)
  /\ \A x \in Range(f.items) : k <= MaxDepth /\ Fits(x, MaxDepth - k)
StackFits(s) ==
  /\ \E S : s \in Seq(S)
  /\ Len(s) <= MaxDepth + 1
  /\ \A k \in 1..Len(s) : FrameFits(s[k], k)

(* One more item.                                                          *)
LEMMA ItemsGrow ==
  ASSUME NEW items, NEW S, items \in Seq(S), NEW v
  PROVE  LET more == Append(items, v) IN
         /\ more \in Seq(S \cup {v}) /\ Range(more) = Range(items) \cup {v}
         /\ Len(items) \in Nat /\ Len(more) = Len(items) + 1 /\ more[Len(items) + 1] = v
         /\ DOMAIN items = 1..Len(items) /\ DOMAIN more = 1..(Len(items) + 1)
         /\ \A i \in 1..Len(items) : more[i] = items[i]
<1> DEFINE more == Append(items, v)
           n == Len(items)
<1>1. items \in Seq(S \cup {v}) /\ v \in S \cup {v}
  OBVIOUS
<1>2. /\ more \in Seq(S \cup {v}) /\ n \in Nat /\ Len(more) = n + 1 /\ more[n + 1] = v
      /\ DOMAIN items = 1..n /\ DOMAIN more = 1..(n + 1)
      /\ \A i \in 1..n : more[i] = items[i]
  BY <1>1
<1> HIDE DEF more, n
<1>3. Range(more) = Range(items) \cup {v}
  <2>1. \A i \in 1..(n + 1) : i = n + 1 \/ i \in 1..n
    BY <1>2
  <2>2. n + 1 \in 1..(n + 1) /\ \A i \in 1..n : i \in 1..(n + 1)
    BY <1>2
  <2> QED BY <1>2, <2>1, <2>2 DEF Range
<1> QED BY <1>2, <1>3 DEF more, n

LEMMA KeysStayDifferent ==
  ASSUME NEW f, IsFrame(f), KeysFit(f), NEW v, AtKey(f) => ~RepeatsAKey(f, v), f.kind = "map"
  PROVE  KeysDiffer(Append(f.items, v))
<1> DEFINE items == f.items
           more == Append(items, v)
           n == Len(items)
<1>1. PICK S : items \in Seq(S)
  BY DEF IsFrame
<1>2. /\ n \in Nat /\ more[n + 1] = v /\ DOMAIN items = 1..n /\ DOMAIN more = 1..(n + 1)
      /\ \A i \in 1..n : more[i] = items[i]
  BY <1>1, ItemsGrow
<1>3. AtKey(f) <=> n % 2 = 0
  BY DEF AtKey
<1>4. KeysDiffer(items)
  BY DEF KeysFit
<1>5. ASSUME AtKey(f)
      PROVE  \A i \in 1..n : i % 2 = 1 /\ items[i].kind # "nan" => items[i] # v
  BY <1>2, <1>5 DEF RepeatsAKey, SameKey
<1> HIDE DEF items, more, n
<1> SUFFICES ASSUME NEW i \in 1..(n + 1), NEW j \in 1..(n + 1),
                    i < j, i % 2 = 1, j % 2 = 1, more[i].kind # "nan"
             PROVE  more[i] # more[j]
  BY <1>2 DEF KeysDiffer, more, items
<1>6. i \in 1..n /\ more[i] = items[i]
  BY <1>2
<1>7. CASE j = n + 1
  <2>1. n % 2 = 0
    BY <1>2, <1>7
  <2> QED BY <1>2, <1>3, <1>5, <1>6, <1>7, <2>1
<1>8. CASE j # n + 1
  <2>1. j \in 1..n /\ more[j] = items[j]
    BY <1>2, <1>8
  <2> QED BY <1>2, <1>4, <1>6, <2>1 DEF KeysDiffer
<1> QED BY <1>7, <1>8

-----------------------------------------------------------------------------
(* Stacks grow, shrink and change at their top.                            *)
LEMMA StackPushed ==
  ASSUME NEW s, StackFits(s), Len(s) <= MaxDepth, NEW f, FrameFits(f, Len(s) + 1)
  PROVE  StackFits(Append(s, f))
<1> DEFINE r == Append(s, f)
           n == Len(s)
<1>1. PICK S : s \in Seq(S)
  BY DEF StackFits
<1>2. /\ r \in Seq(S \cup {f}) /\ n \in Nat /\ Len(r) = n + 1 /\ r[n + 1] = f
      /\ \A k \in 1..n : r[k] = s[k]
  BY <1>1, ItemsGrow
<1>3. FrameFits(f, n + 1) /\ \A k \in 1..n : FrameFits(s[k], k)
  BY DEF StackFits
<1>4. Len(r) <= MaxDepth + 1
  BY <1>2, LimitsAssumption
<1> HIDE DEF r, n
<1>5. \A k \in 1..(n + 1) : FrameFits(r[k], k)
  <2>1. \A k \in 1..(n + 1) : k = n + 1 \/ k \in 1..n
    BY <1>2
  <2> QED BY <1>2, <1>3, <2>1
<1>6. StackFits(r)
  BY <1>2, <1>4, <1>5 DEF StackFits
<1> QED BY <1>6 DEF r

LEMMA StackPopped ==
  ASSUME NEW s, StackFits(s), s # <<>>
  PROVE  LET r == SubSeq(s, 1, Len(s) - 1) IN
         /\ StackFits(r) /\ Len(s) \in Nat /\ Len(s) > 0 /\ Len(r) = Len(s) - 1
         /\ Len(r) <= MaxDepth
<1> DEFINE r == SubSeq(s, 1, Len(s) - 1)
           n == Len(s) - 1
<1>1. PICK S : s \in Seq(S)
  BY DEF StackFits
<1>2. n \in Nat /\ Len(s) = n + 1 /\ 1 \in Int /\ \A i \in 1..n : s[i] \in S
  BY <1>1
<1>3. r = SubSeq(s, 1, n)
  OBVIOUS
<1> HIDE DEF n, r
<1>4. /\ SubSeq(s, 1, n) \in Seq(S) /\ Len(SubSeq(s, 1, n)) = n
      /\ \A i \in 1..n : SubSeq(s, 1, n)[i] = s[i]
  BY <1>1, <1>2
<1>5. n <= MaxDepth /\ n <= MaxDepth + 1
  BY <1>2, LimitsAssumption DEF StackFits
<1>6. \A k \in 1..n : k \in 1..Len(s)
  BY <1>2
<1>7. StackFits(r)
  BY <1>3, <1>4, <1>5, <1>6 DEF StackFits
<1> QED BY <1>2, <1>3, <1>4, <1>5, <1>7 DEF r, n

LEMMA StackReplaced ==
  ASSUME NEW s, StackFits(s), s # <<>>, NEW f, FrameFits(f, Len(s))
  PROVE  StackFits([s EXCEPT ![Len(s)] = f])
<1> DEFINE r == [s EXCEPT ![Len(s)] = f]
           n == Len(s)
<1>1. PICK S : s \in Seq(S)
  BY DEF StackFits
<1>2. n \in Nat /\ n > 0
  BY <1>1
<1>3. r \in Seq(S \cup {f}) /\ Len(r) = n /\ r[n] = f /\ \A k \in 1..(n - 1) : r[k] = s[k]
  BY <1>1, <1>2
<1>4. n <= MaxDepth + 1 /\ FrameFits(f, n) /\ \A k \in 1..n : FrameFits(s[k], k)
  BY DEF StackFits
<1> HIDE DEF r, n
<1>5. \A k \in 1..n : FrameFits(r[k], k)
  <2>1. \A k \in 1..n : k = n \/ k \in 1..(n - 1)
    BY <1>2
  <2> QED BY <1>3, <1>4, <2>1
<1>6. StackFits(r)
  BY <1>3, <1>4, <1>5 DEF StackFits
<1> QED BY <1>6 DEF r, n

(* The innermost activation.                                               *)
LEMMA TopFits ==
  ASSUME NEW s, StackFits(s), s # <<>>
  PROVE  FrameFits(s[Len(s)], Len(s)) /\ Len(s) \in Nat /\ Len(s) > 0
<1>1. PICK S : s \in Seq(S)
  BY DEF StackFits
<1>2. Len(s) \in Nat /\ Len(s) > 0 /\ Len(s) \in 1..Len(s)
  BY <1>1
<1> QED BY <1>2 DEF StackFits

LEMMA FrameReceives ==
  ASSUME NEW c, NEW k \in Nat, k <= MaxDepth, FrameFits(c, k),
         NEW v, Fits(v, MaxDepth - k), AtKey(c) => ~RepeatsAKey(c, v),
         NEW n, NEW f, f = [c EXCEPT !.items = Append(c.items, v), !.left = n]
  PROVE  FrameFits(f, k)
<1> DEFINE r == [kind |-> c.kind, content |-> c.content, left |-> n, items |-> Append(c.items, v)]
<1>1. f = r
  BY DEF FrameFits, IsFrame
<1>2. PICK S : c.items \in Seq(S)
  BY DEF FrameFits, IsFrame
<1>3. r.items \in Seq(S \cup {v}) /\ Range(r.items) = Range(c.items) \cup {v}
  BY <1>2, ItemsGrow
<1>4. IsFrame(r)
  BY <1>3 DEF IsFrame
<1>5. KeysFit(r)
  <2>1. IsFrame(c) /\ KeysFit(c)
    BY DEF FrameFits
  <2>2. ASSUME c.kind = "map"
        PROVE  KeysDiffer(Append(c.items, v))
    BY <2>1, <2>2, KeysStayDifferent
  <2> QED BY <2>2 DEF KeysFit
<1>6. \A x \in Range(r.items) : Fits(x, MaxDepth - k)
  BY <1>3 DEF FrameFits
<1> HIDE DEF r
<1>7. FrameFits(r, k)
  BY <1>4, <1>5, <1>6 DEF FrameFits
<1> QED BY <1>1, <1>7

(* Whatever is returned to an activation leaves every level in its place.  *)
LEMMA Delivered ==
  ASSUME StackFits(stack), Fits(value, MaxDepth),
         NEW callers, StackFits(callers), Len(callers) <= MaxDepth,
         NEW v, Fits(v, MaxDepth - Len(callers)), Deliver(v, callers)
  PROVE  StackFits(stack') /\ Fits(value', MaxDepth) /\ outcome' \in {outcome, "malformed", "duplicate"}
<1>1. CASE callers = <<>>
  <2>1. stack' = <<>> /\ value' = v /\ outcome' = outcome
    BY <1>1 DEF Deliver
  <2>2. Len(callers) = 0 /\ MaxDepth - 0 = MaxDepth
    BY <1>1, LimitsAssumption
  <2> QED BY <1>1, <2>1, <2>2
<1>2. CASE callers # <<>>
  <2> DEFINE caller == callers[Len(callers)]
             left == IF caller.left = Endless THEN caller.left ELSE caller.left - 1
             frame == [caller EXCEPT !.items = Append(caller.items, v), !.left = left]
             more == [caller EXCEPT !.items = Append(@, v), !.left = IF @ = Endless THEN @ ELSE @ - 1]
             Stops == outcome' \in {"malformed", "duplicate"} /\ UNCHANGED <<stack, value>>
             Takes == /\ stack' = [callers EXCEPT ![Len(callers)] = more]
                      /\ UNCHANGED <<value, outcome>>
  <2>1. Stops \/ (Takes /\ (AtKey(caller) => ~RepeatsAKey(caller, v)))
    BY <1>2 DEF Deliver, Stop
  <2>2. CASE Stops
    BY <2>2
  <2>3. CASE Takes /\ (AtKey(caller) => ~RepeatsAKey(caller, v))
    <3>1. FrameFits(caller, Len(callers)) /\ Len(callers) \in Nat
      BY <1>2, TopFits
    <3>2. more = frame
      OBVIOUS
    <3> HIDE DEF caller, frame, left, more
    <3>3. FrameFits(frame, Len(callers))
      BY <2>3, <3>1, FrameReceives DEF frame
    <3> QED BY <1>2, <2>3, <3>2, <3>3, StackReplaced
  <2> QED BY <2>1, <2>2, <2>3
<1> QED BY <1>1, <1>2

-----------------------------------------------------------------------------
(* The inductive invariant: the levels of what is decoded so far, and the  *)
(* items that its heads were charged for.                                  *)
Charged ==
  /\ \E S : data \in Seq(S)
  /\ budget \in Nat
  /\ budget + Len(data) >= MaxItems
RefusedAtALimit ==
  outcome = "too_large" => Len(data) >= MaxItems \/ Len(stack) = MaxDepth + 1
DecodeInv ==
  /\ StackFits(stack)
  /\ Fits(value, MaxDepth) /\ Fits(outer, MaxDepth)
  /\ Charged
  /\ RefusedAtALimit

LEMMA NothingFits == Fits(Nothing, MaxDepth) /\ StackFits(<<>>)
<1>1. Nothing.items = <<>>
  BY DEF Nothing, Item
<1>2. <<>> \in Seq({}) /\ Len(<<>>) = 0
  OBVIOUS
<1>3. StackFits(<<>>)
  BY <1>2, LimitsAssumption DEF StackFits
<1> QED BY <1>1, <1>3, EmptyFits, LimitsAssumption

LEMMA OneMoreHead ==
  ASSUME NEW s, \E S : s \in Seq(S), NEW h
  PROVE  (\E S : Append(s, h) \in Seq(S)) /\ Len(s) \in Nat /\ Len(Append(s, h)) = Len(s) + 1
<1>1. PICK S : s \in Seq(S)
  OBVIOUS
<1>2. Append(s, h) \in Seq(S \cup {h}) /\ Len(s) \in Nat /\ Len(Append(s, h)) = Len(s) + 1
  BY <1>1, ItemsGrow
<1> QED BY <1>2

(* A head is read and charged, within the limits.                          *)
LEMMA ReadCharges ==
  ASSUME Charged, NEW h, Read(h)
  PROVE  Charged' /\ outcome = "decoding" /\ Len(stack) <= MaxDepth
<1>1. /\ outcome = "decoding" /\ Len(stack) <= MaxDepth /\ budget > 0
      /\ data' = Append(data, h) /\ budget' = budget - 1
  BY DEF Read, ItemExpected, IsRunning
<1>2. (\E S : data' \in Seq(S)) /\ Len(data) \in Nat /\ Len(data') = Len(data) + 1
  BY <1>1, OneMoreHead DEF Charged
<1> QED BY <1>1, <1>2, LimitsAssumption DEF Charged

LEMMA ReadRefusedKeeps ==
  ASSUME DecodeInv, NEW h, ReadRefused(h)
  PROVE  DecodeInv'
<1>1. Charged'
  BY ReadCharges DEF DecodeInv, ReadRefused
<1>2. outcome' = "malformed" /\ UNCHANGED <<stack, value, outer>>
  BY DEF ReadRefused, Stop, UnchangedCall
<1>3. StackFits(stack') /\ Fits(value', MaxDepth) /\ Fits(outer', MaxDepth)
  BY <1>2 DEF DecodeInv
<1> QED BY <1>1, <1>2, <1>3 DEF DecodeInv, RefusedAtALimit

LEMMA ReadLeafKeeps ==
  ASSUME DecodeInv, NEW h, ReadLeaf(h)
  PROVE  DecodeInv'
<1> DEFINE leaf == Item(h.kind, h.content, <<>>)
<1>1. Charged' /\ outcome = "decoding" /\ Len(stack) <= MaxDepth
  BY ReadCharges DEF DecodeInv, ReadLeaf
<1>2. Deliver(leaf, stack) /\ outer' = outer
  BY DEF ReadLeaf, UnchangedCall
<1>3. leaf.items = <<>>
  BY DEF Item
<1>4. MaxDepth - Len(stack) \in Nat
  <2>1. PICK S : stack \in Seq(S)
    BY DEF DecodeInv, StackFits
  <2> QED BY <1>1, <2>1, LimitsAssumption
<1> HIDE DEF leaf
<1>5. Fits(leaf, MaxDepth - Len(stack))
  BY <1>3, <1>4, EmptyFits
<1>6. StackFits(stack') /\ Fits(value', MaxDepth) /\ outcome' \in {outcome, "malformed", "duplicate"}
  BY <1>1, <1>2, <1>5, Delivered DEF DecodeInv
<1> QED BY <1>1, <1>2, <1>6 DEF DecodeInv, RefusedAtALimit

LEMMA ReadOpeningKeeps ==
  ASSUME DecodeInv, NEW h, ReadOpening(h)
  PROVE  DecodeInv'
<1> DEFINE f == Frame(h)
<1>1. Charged' /\ outcome = "decoding" /\ Len(stack) <= MaxDepth
  BY ReadCharges DEF DecodeInv, ReadOpening
<1>2. stack' = Append(stack, f) /\ UNCHANGED <<value, outcome, outer>>
  BY DEF ReadOpening, UnchangedCall
<1>3. f = [kind |-> f.kind, content |-> f.content, left |-> f.left, items |-> f.items] /\ f.items = <<>>
  BY DEF Frame
<1> HIDE DEF f
<1>4. FrameFits(f, Len(stack) + 1)
  <2>1. <<>> \in Seq({}) /\ Range(<<>>) = {} /\ KeysDiffer(<<>>)
    BY DEF Range, KeysDiffer
  <2> QED BY <1>3, <2>1 DEF FrameFits, IsFrame, KeysFit
<1>5. StackFits(stack')
  BY <1>1, <1>2, <1>4, StackPushed DEF DecodeInv
<1> QED BY <1>1, <1>2, <1>5 DEF DecodeInv, RefusedAtALimit

(* A break ends its activation and changes none of its items.              *)
LEMMA BreakKeepsStack ==
  ASSUME StackFits(stack), stack # <<>>
  PROVE  StackFits(WithTop([Top EXCEPT !.left = 0]))
<1> DEFINE f == [Top EXCEPT !.left = 0]
           r == [kind |-> Top.kind, content |-> Top.content, left |-> 0, items |-> Top.items]
<1>1. FrameFits(Top, Len(stack))
  BY TopFits DEF Top
<1>2. f = r
  BY <1>1 DEF FrameFits, IsFrame
<1>3. IsFrame(r)
  BY <1>1 DEF FrameFits, IsFrame
<1>4. FrameFits(r, Len(stack))
  BY <1>1, <1>3 DEF FrameFits, KeysFit
<1> HIDE DEF f, r
<1> QED BY <1>2, <1>4, StackReplaced DEF WithTop, f

LEMMA ReadBreakKeeps ==
  ASSUME DecodeInv, ReadBreak
  PROVE  DecodeInv'
<1>1. Charged' /\ outcome = "decoding"
  BY ReadCharges DEF DecodeInv, ReadBreak
<1>2. /\ stack # <<>> /\ stack' = WithTop([Top EXCEPT !.left = 0])
      /\ UNCHANGED <<value, outcome, outer>>
  BY DEF ReadBreak, BreakAllowed, UnchangedCall
<1>3. StackFits(stack')
  BY <1>2, BreakKeepsStack DEF DecodeInv
<1> QED BY <1>1, <1>2, <1>3 DEF DecodeInv, RefusedAtALimit

LEMMA ReadStringBreakKeeps ==
  ASSUME DecodeInv, ReadStringBreak
  PROVE  DecodeInv'
<1>1. /\ stack # <<>> /\ stack' = WithTop([Top EXCEPT !.left = 0]) /\ outcome = "decoding"
      /\ data' = Append(data, Break) /\ UNCHANGED <<budget, value, outcome, outer>>
  BY DEF ReadStringBreak, InString, UnchangedCall
<1>2. StackFits(stack')
  BY <1>1, BreakKeepsStack DEF DecodeInv
<1>3. (\E S : data' \in Seq(S)) /\ Len(data) \in Nat /\ Len(data') = Len(data) + 1
  BY <1>1, OneMoreHead DEF DecodeInv, Charged
<1>4. Charged'
  BY <1>1, <1>3, LimitsAssumption DEF DecodeInv, Charged
<1> QED BY <1>1, <1>2, <1>4 DEF DecodeInv, RefusedAtALimit

(* A complete item holds what its activation held.                         *)
LEMMA ReturnKeeps ==
  ASSUME DecodeInv, Return
  PROVE  DecodeInv'
<1> DEFINE content == IF IsString(Top) THEN FlattenSeq(Joined(Top.items)) ELSE Top.content
           items == IF IsString(Top) THEN <<>> ELSE Top.items
           v == Item(Top.kind, content, items)
           k == Len(stack)
<1>1. /\ stack # <<>> /\ outcome = "decoding" /\ Deliver(v, Below)
      /\ UNCHANGED <<outer, data, budget>>
  BY DEF Return, IsRunning, UnchangedCall
<1>2. v.kind = Top.kind /\ v.items = items
  BY DEF Item
<1> HIDE DEF v, content
<1>3. FrameFits(Top, k) /\ k \in Nat /\ k > 0
  BY <1>1, TopFits DEF Top, DecodeInv
<1>4. StackFits(Below) /\ Len(Below) = k - 1 /\ Len(Below) <= MaxDepth
  BY <1>1, StackPopped DEF Below, DecodeInv
<1>5. items = Top.items \/ items = <<>>
  OBVIOUS
<1> HIDE DEF items, k
<1>6. KeysFit(v)
  BY <1>2, <1>3, <1>5 DEF FrameFits, KeysFit, KeysDiffer
<1>7. \A x \in Range(v.items) : k <= MaxDepth /\ Fits(x, MaxDepth - k)
  <2>1. Range(<<>>) = {}
    BY DEF Range
  <2> QED BY <1>2, <1>3, <1>5, <2>1 DEF FrameFits
<1>8. Fits(v, MaxDepth - Len(Below))
  <2>1. MaxDepth - Len(Below) \in Nat /\ (MaxDepth - Len(Below)) - 1 = MaxDepth - k
        /\ (k <= MaxDepth => MaxDepth - Len(Below) > 0)
    BY <1>3, <1>4, LimitsAssumption
  <2> QED BY <1>6, <1>7, <2>1, FitsAround
<1>9. StackFits(stack') /\ Fits(value', MaxDepth) /\ outcome' \in {outcome, "malformed", "duplicate"}
  BY <1>1, <1>4, <1>8, Delivered DEF DecodeInv
<1> QED BY <1>1, <1>9 DEF DecodeInv, RefusedAtALimit, Charged

LEMMA RefuseKeeps ==
  ASSUME DecodeInv, Refuse
  PROVE  DecodeInv'
<1>1. (Len(stack) > MaxDepth \/ budget = 0) /\ UNCHANGED <<data, stack, budget, value, outer>>
  BY DEF Refuse, UnchangedCall
<1>2. Len(stack) <= MaxDepth + 1 /\ Len(stack) \in Nat
  <2>1. PICK S : stack \in Seq(S)
    BY DEF DecodeInv, StackFits
  <2> QED BY <2>1 DEF DecodeInv, StackFits
<1>3. Len(data) \in Nat
  <2>1. PICK S : data \in Seq(S)
    BY DEF DecodeInv, Charged
  <2> QED BY <2>1
<1>4. Len(data) >= MaxItems \/ Len(stack) = MaxDepth + 1
  BY <1>1, <1>2, <1>3, LimitsAssumption DEF DecodeInv, Charged
<1> QED BY <1>1, <1>4 DEF DecodeInv, RefusedAtALimit, Charged

LEMMA EndsKeep ==
  ASSUME DecodeInv, Truncated \/ Trailing \/ Oversize \/ AcceptItem \/ AcceptProtected
  PROVE  DecodeInv'
<1>1. /\ UNCHANGED <<stack, value, outer, budget>>
      /\ outcome' \in {"truncated", "malformed", "accepted"}
  BY DEF Truncated, Trailing, Oversize, AcceptItem, AcceptProtected, Stop, UnchangedCall
<1>2. data' = data \/ \E h : data' = Append(data, h)
  BY DEF Truncated, Trailing, Oversize, AcceptItem, AcceptProtected
<1>3. Charged'
  <2>1. CASE data' = data
    BY <1>1, <2>1 DEF DecodeInv, Charged
  <2>2. CASE \E h : data' = Append(data, h)
    <3>1. (\E S : data' \in Seq(S)) /\ Len(data) \in Nat /\ Len(data') = Len(data) + 1
      BY <2>2, OneMoreHead DEF DecodeInv, Charged
    <3> QED BY <1>1, <3>1, LimitsAssumption DEF DecodeInv, Charged
  <2> QED BY <1>2, <2>1, <2>2
<1> QED BY <1>1, <1>3 DEF DecodeInv, RefusedAtALimit

LEMMA AcceptOuterKeeps ==
  ASSUME DecodeInv, AcceptOuter
  PROVE  DecodeInv'
<1> DEFINE Ended == outcome' \in {"malformed", "accepted"} /\ UNCHANGED <<stack, value, data, budget>>
           GoesOn == /\ outcome' = "decoding" /\ data' = <<>> /\ stack' = <<>>
                     /\ value' = Nothing /\ budget' = MaxItems
<1>1. outcome = "decoding" /\ outer' = value /\ (Ended \/ GoesOn)
  BY DEF AcceptOuter, Stop
<1>2. Fits(outer', MaxDepth)
  BY <1>1 DEF DecodeInv
<1>3. CASE Ended
  BY <1>2, <1>3 DEF DecodeInv, RefusedAtALimit, Charged
<1>4. CASE GoesOn
  <2>1. <<>> \in Seq({}) /\ Len(<<>>) = 0 /\ MaxItems + 0 >= MaxItems
    BY LimitsAssumption
  <2>2. Charged'
    BY <1>4, <2>1, LimitsAssumption DEF Charged
  <2> QED BY <1>2, <1>4, <2>2, NothingFits DEF DecodeInv, RefusedAtALimit
<1> QED BY <1>1, <1>3, <1>4

LEMMA DecodeStarts == Init => DecodeInv
<1> SUFFICES ASSUME Init
             PROVE  DecodeInv
  OBVIOUS
<1>1. <<>> \in Seq({}) /\ Len(<<>>) = 0 /\ MaxItems + 0 >= MaxItems
  BY LimitsAssumption
<1>2. Charged
  BY <1>1, LimitsAssumption DEF Init, Charged
<1> QED BY <1>2, NothingFits DEF Init, DecodeInv, RefusedAtALimit

LEMMA DecodeKeeps == DecodeInv /\ [Next]_vars => DecodeInv'
<1> SUFFICES ASSUME DecodeInv, [Next]_vars
             PROVE  DecodeInv'
  OBVIOUS
<1>1. CASE Refuse
  BY <1>1, RefuseKeeps
<1>2. ASSUME NEW h \in Heads, ReadRefused(h) \/ ReadLeaf(h) \/ ReadOpening(h)
      PROVE  DecodeInv'
  BY <1>2, ReadRefusedKeeps, ReadLeafKeeps, ReadOpeningKeeps
<1>3. CASE ReadBreak
  BY <1>3, ReadBreakKeeps
<1>4. CASE ReadStringBreak
  BY <1>4, ReadStringBreakKeeps
<1>5. CASE Return
  BY <1>5, ReturnKeeps
<1>6. CASE Truncated \/ Trailing \/ Oversize \/ AcceptItem \/ AcceptProtected
  BY <1>6, EndsKeep
<1>7. CASE AcceptOuter
  BY <1>7, AcceptOuterKeeps
<1>8. CASE UNCHANGED vars
  BY <1>8 DEF vars, DecodeInv, RefusedAtALimit, Charged
<1> QED BY <1>1, <1>2, <1>3, <1>4, <1>5, <1>6, <1>7, <1>8 DEF Next

(* While any input is decoded, each suspended activation leaves what it    *)
(* holds the levels and the distinct keys it may have, and each head but   *)
(* the break of a string was charged for.                                  *)
THEOREM DecoderInvariant == Spec => []DecodeInv
<1> QED BY DecodeStarts, DecodeKeeps, PTL DEF Spec

(* No map in anything accepted has two keys that are the same item, at any *)
(* depth, whether its length was definite or not (_decode_item).           *)
THEOREM KeysDifferEverywhere == Spec => []KeysAreDistinct
<1>1. DecodeInv => KeysAreDistinct
  BY DEF DecodeInv, Fits, KeysFit, KeysAreDistinct
<1> QED BY <1>1, DecoderInvariant, PTL

(* What is accepted nests no deeper than MAX_CBOR_DEPTH, and only an input *)
(* that is at one of the limits is refused as too large.                   *)
THEOREM LimitsHold == Spec => []LimitsAreExact
<1>1. DecodeInv => LimitsAreExact
  BY DEF DecodeInv, Fits, RefusedAtALimit, LimitsAreExact
<1> QED BY <1>1, DecoderInvariant, PTL

-----------------------------------------------------------------------------
(* The addresses of an item, in relation to those of the items it holds.   *)
IsSeq(a) == \E S : a \in Seq(S)
Prefixed(i, places) == {<<<<i>> \o p[1], p[2]>> : p \in places}

LEMMA OneStepMore ==
  ASSUME NEW a, IsSeq(a), NEW i, NEW j
  PROVE  IsSeq(Append(a, j)) /\ Append(<<i>> \o a, j) = <<i>> \o Append(a, j)
<1>1. PICK S : a \in Seq(S)
  BY DEF IsSeq
<1> DEFINE U == S \cup {i, j}
           n == Len(a)
           left == Append(<<i>> \o a, j)
           right == <<i>> \o Append(a, j)
<1>2. a \in Seq(U) /\ <<i>> \in Seq(U) /\ j \in U /\ n \in Nat
  BY <1>1
<1> HIDE DEF U
<1>3. Append(a, j) \in Seq(U) /\ Len(Append(a, j)) = n + 1 /\ Append(a, j)[n + 1] = j
      /\ \A k \in 1..n : Append(a, j)[k] = a[k]
  BY <1>2
<1>4. <<i>> \o a \in Seq(U) /\ Len(<<i>> \o a) = n + 1 /\ (<<i>> \o a)[1] = i
      /\ \A k \in 2..(n + 1) : (<<i>> \o a)[k] = a[k - 1]
  BY <1>2
<1>5. left \in Seq(U) /\ Len(left) = n + 2 /\ left[n + 2] = j
      /\ \A k \in 1..(n + 1) : left[k] = (<<i>> \o a)[k]
  BY <1>2, <1>4
<1>6. right \in Seq(U) /\ Len(right) = n + 2 /\ right[1] = i
      /\ \A k \in 2..(n + 2) : right[k] = Append(a, j)[k - 1]
  BY <1>2, <1>3
<1> HIDE DEF left, right, n
<1>7. \A k \in 1..(n + 2) : left[k] = right[k]
  <2> TAKE k \in 1..(n + 2)
  <2>1. CASE k = 1
    <3>1. 1 \in 1..(n + 1)
      BY <1>2
    <3> QED BY <1>4, <1>5, <1>6, <2>1, <3>1
  <2>2. CASE k = n + 2
    <3>1. n + 2 \in 2..(n + 2) /\ (n + 2) - 1 = n + 1
      BY <1>2
    <3> QED BY <1>3, <1>5, <1>6, <2>2, <3>1
  <2>3. CASE k # 1 /\ k # n + 2
    <3>1. k \in 1..(n + 1) /\ k \in 2..(n + 1) /\ k \in 2..(n + 2) /\ k - 1 \in 1..n
      BY <1>2, <2>3
    <3> QED BY <1>3, <1>4, <1>5, <1>6, <3>1
  <2> QED BY <2>1, <2>2, <2>3
<1>8. left = right
  BY <1>5, <1>6, <1>7
<1> QED BY <1>2, <1>3, <1>8 DEF IsSeq, left, right

LEMMA AddressesAreSequences ==
  ASSUME NEW v, NEW n \in Nat
  PROVE  \A p \in Places(v, n) : IsSeq(p[1])
<1> DEFINE wrong == {d \in Nat : \E p \in Places(v, d) : ~IsSeq(p[1])}
<1> SUFFICES ASSUME wrong # {}
             PROVE  FALSE
  OBVIOUS
<1>1. PICK d \in wrong : \A e \in wrong : d <= e
  BY FirstDepth
<1>2. PICK p \in Places(v, d) : ~IsSeq(p[1])
  BY <1>1
<1>3. CASE d = 0
  <2>1. p = <<<<>>, v>>
    BY <1>2, <1>3, PlacesBelow
  <2>2. IsSeq(<<>>)
    <3>1. <<>> \in Seq({})
      OBVIOUS
    <3> QED BY <3>1 DEF IsSeq
  <2> QED BY <1>2, <2>1, <2>2
<1>4. CASE d # 0
  <2>1. d - 1 \in Nat /\ (d - 1) + 1 = d /\ d - 1 \notin wrong
    BY <1>1, <1>4
  <2>2. p \in Under(Places(v, d - 1))
    BY <1>2, <2>1, PlacesBelow
  <2>3. PICK q \in Places(v, d - 1) :
          p \in {<<Append(q[1], i), q[2].items[i]>> : i \in DOMAIN q[2].items}
    BY <2>2 DEF Under
  <2>4. PICK i \in DOMAIN q[2].items : p = <<Append(q[1], i), q[2].items[i]>>
    BY <2>3
  <2>5. IsSeq(q[1])
    BY <2>1
  <2> QED BY <1>2, <2>4, <2>5, OneStepMore
<1> QED BY <1>3, <1>4

LEMMA HeldIsUnder ==
  ASSUME NEW places, NEW p \in places, NEW j \in DOMAIN p[2].items
  PROVE  <<Append(p[1], j), p[2].items[j]>> \in Under(places)
<1> DEFINE held == {<<Append(p[1], i), p[2].items[i]>> : i \in DOMAIN p[2].items}
<1>1. <<Append(p[1], j), p[2].items[j]>> \in held
  OBVIOUS
<1>2. held \subseteq Under(places)
  BY Zenon DEF Under
<1> QED BY <1>1, <1>2

LEMMA UnderPrefixed ==
  ASSUME NEW i, NEW places, \A p \in places : IsSeq(p[1])
  PROVE  Under(Prefixed(i, places)) = Prefixed(i, Under(places))
<1>1. ASSUME NEW x \in Under(Prefixed(i, places))
      PROVE  x \in Prefixed(i, Under(places))
  <2>1. PICK q \in Prefixed(i, places) :
          x \in {<<Append(q[1], j), q[2].items[j]>> : j \in DOMAIN q[2].items}
    BY <1>1 DEF Under
  <2>2. PICK j \in DOMAIN q[2].items : x = <<Append(q[1], j), q[2].items[j]>>
    BY <2>1
  <2>3. PICK p \in places : q = <<<<i>> \o p[1], p[2]>>
    BY DEF Prefixed
  <2> DEFINE y == <<Append(p[1], j), p[2].items[j]>>
  <2>4. q[1] = <<i>> \o p[1] /\ q[2] = p[2]
    BY <2>3
  <2>5. y \in Under(places)
    BY <2>2, <2>4, HeldIsUnder
  <2>6. Append(<<i>> \o p[1], j) = <<i>> \o Append(p[1], j)
    BY OneStepMore
  <2>7. x = <<<<i>> \o y[1], y[2]>>
    BY <2>2, <2>4, <2>6
  <2> HIDE DEF y
  <2> QED BY <2>5, <2>7 DEF Prefixed
<1>2. ASSUME NEW x \in Prefixed(i, Under(places))
      PROVE  x \in Under(Prefixed(i, places))
  <2>1. PICK y \in Under(places) : x = <<<<i>> \o y[1], y[2]>>
    BY <1>2 DEF Prefixed
  <2>2. PICK p \in places : y \in {<<Append(p[1], j), p[2].items[j]>> : j \in DOMAIN p[2].items}
    BY <2>1 DEF Under
  <2>3. PICK j \in DOMAIN p[2].items : y = <<Append(p[1], j), p[2].items[j]>>
    BY <2>2
  <2> DEFINE q == <<<<i>> \o p[1], p[2]>>
  <2>4. q \in Prefixed(i, places) /\ q[1] = <<i>> \o p[1] /\ q[2] = p[2]
    BY DEF Prefixed
  <2>5. Append(<<i>> \o p[1], j) = <<i>> \o Append(p[1], j)
    BY OneStepMore
  <2>6. x = <<<<i>> \o Append(p[1], j), p[2].items[j]>>
    BY <2>1, <2>3
  <2> HIDE DEF q
  <2>7. x = <<Append(q[1], j), q[2].items[j]>>
    BY <2>4, <2>5, <2>6
  <2>8. j \in DOMAIN q[2].items
    BY <2>3, <2>4
  <2> QED BY <2>4, <2>7, <2>8, HeldIsUnder
<1> QED BY <1>1, <1>2

(* Below an item are the places of the items it holds.                     *)
LEMMA PlacesWithin ==
  ASSUME NEW v, NEW n \in Nat
  PROVE  Places(v, n + 1) = UNION {Prefixed(i, Places(v.items[i], n)) : i \in DOMAIN v.items}
<1> DEFINE Held(d) == UNION {Prefixed(i, Places(v.items[i], d)) : i \in DOMAIN v.items}
           wrong == {d \in Nat : Places(v, d + 1) # Held(d)}
<1> SUFFICES ASSUME wrong # {}
             PROVE  FALSE
  OBVIOUS
<1>1. PICK d \in wrong : \A e \in wrong : d <= e
  BY FirstDepth
<1>2. CASE d = 0
  <2> DEFINE root == <<<<>>, v>>
             first == {<<<<i>>, v.items[i]>> : i \in DOMAIN v.items}
  <2>1. Places(v, 0 + 1) = Under({root})
    BY PlacesBelow
  <2>2. root[1] = <<>> /\ root[2] = v
    OBVIOUS
  <2>3. \A i : Append(<<>>, i) = <<i>>
    OBVIOUS
  <2>4. Under({root}) = {<<Append(root[1], i), root[2].items[i]>> : i \in DOMAIN root[2].items}
    <3> HIDE DEF root
    <3> QED BY DEF Under
  <2> HIDE DEF root
  <2>5. Under({root}) = first
    BY <2>2, <2>3, <2>4
  <2>6. \A i : Prefixed(i, Places(v.items[i], 0)) = {<<<<i>>, v.items[i]>>}
    <3> TAKE i
    <3> DEFINE leaf == <<<<>>, v.items[i]>>
    <3>1. Places(v.items[i], 0) = {leaf}
      BY PlacesBelow
    <3>2. leaf[1] = <<>> /\ leaf[2] = v.items[i] /\ <<i>> \o <<>> = <<i>>
      OBVIOUS
    <3> HIDE DEF leaf
    <3> QED BY <3>1, <3>2 DEF Prefixed
  <2>7. Held(0) = first
    BY <2>6
  <2> QED BY <1>1, <1>2, <2>1, <2>5, <2>7
<1>3. CASE d # 0
  <2>1. d - 1 \in Nat /\ (d - 1) + 1 = d /\ d \in Nat /\ d - 1 \notin wrong
    BY <1>1, <1>3
  <2>2. Places(v, d) = Held(d - 1)
    BY <2>1
  <2>3. Places(v, d + 1) = Under(Held(d - 1))
    BY <2>1, <2>2, PlacesBelow, Zenon
  <2> DEFINE part == [i \in DOMAIN v.items |-> Prefixed(i, Places(v.items[i], d - 1))]
  <2>4. \A i \in DOMAIN v.items : Under(part[i]) = Prefixed(i, Places(v.items[i], d))
    <3> TAKE i \in DOMAIN v.items
    <3>1. \A p \in Places(v.items[i], d - 1) : IsSeq(p[1])
      BY <2>1, AddressesAreSequences
    <3>2. Under(part[i]) = Prefixed(i, Under(Places(v.items[i], d - 1)))
      BY <3>1, UnderPrefixed
    <3>3. Places(v.items[i], d) = Under(Places(v.items[i], d - 1))
      BY <2>1, PlacesBelow
    <3> QED BY <3>2, <3>3
  <2>5. Held(d - 1) = UNION {part[i] : i \in DOMAIN v.items}
    OBVIOUS
  <2> HIDE DEF part
  <2>6. Under(UNION {part[i] : i \in DOMAIN v.items}) = UNION {Under(part[i]) : i \in DOMAIN v.items}
    BY DEF Under
  <2>7. Under(Held(d - 1)) = Held(d)
    BY <2>4, <2>5, <2>6
  <2> QED BY <1>1, <2>3, <2>7
<1> QED BY <1>2, <1>3

(* The addresses of all the items in v, at whatever depth.                 *)
Reached(v) == {p[1] : p \in UNION {Places(v, d) : d \in Nat}}
Through(i, addresses) == {<<i>> \o a : a \in addresses}

LEMMA PlaceIsReached ==
  ASSUME NEW v, NEW d \in Nat, NEW p \in Places(v, d)
  PROVE  p[1] \in Reached(v)
BY Zenon DEF Reached

LEMMA ReachedIsPlaced ==
  ASSUME NEW v, NEW a \in Reached(v)
  PROVE  \E d \in Nat : \E p \in Places(v, d) : a = p[1]
BY DEF Reached

LEMMA ReachedAre ==
  ASSUME NEW v
  PROVE  Reached(v) = {<<>>} \cup UNION {Through(i, Reached(v.items[i])) : i \in DOMAIN v.items}
<1>1. <<>> \in Reached(v)
  <2> DEFINE root == <<<<>>, v>>
  <2>1. root \in Places(v, 0) /\ root[1] = <<>>
    BY PlacesBelow
  <2> HIDE DEF root
  <2> QED BY <2>1, PlaceIsReached
<1>2. ASSUME NEW i \in DOMAIN v.items, NEW a \in Through(i, Reached(v.items[i]))
      PROVE  a \in Reached(v)
  <2>1. PICK b \in Reached(v.items[i]) : a = <<i>> \o b
    BY <1>2 DEF Through
  <2>2. PICK d \in Nat : \E p \in Places(v.items[i], d) : b = p[1]
    BY ReachedIsPlaced
  <2>3. PICK p \in Places(v.items[i], d) : b = p[1]
    BY <2>2
  <2> DEFINE q == <<<<i>> \o p[1], p[2]>>
  <2>4. q \in Prefixed(i, Places(v.items[i], d)) /\ q[1] = a
    BY <2>1, <2>3 DEF Prefixed
  <2> HIDE DEF q
  <2>5. q \in Places(v, d + 1) /\ d + 1 \in Nat
    BY <2>4, PlacesWithin
  <2> QED BY <2>4, <2>5, PlaceIsReached
<1>3. ASSUME NEW a \in Reached(v), a # <<>>
      PROVE  \E i \in DOMAIN v.items : a \in Through(i, Reached(v.items[i]))
  <2>1. PICK d \in Nat : \E p \in Places(v, d) : a = p[1]
    BY ReachedIsPlaced
  <2>2. PICK p \in Places(v, d) : a = p[1]
    BY <2>1
  <2>3. d # 0
    <3> SUFFICES ASSUME d = 0 PROVE FALSE
      OBVIOUS
    <3>1. p = <<<<>>, v>>
      BY PlacesBelow
    <3> QED BY <1>3, <2>2, <3>1
  <2>4. d - 1 \in Nat /\ (d - 1) + 1 = d
    BY <2>3
  <2>5. p \in UNION {Prefixed(i, Places(v.items[i], d - 1)) : i \in DOMAIN v.items}
    BY <2>4, PlacesWithin
  <2>6. PICK i \in DOMAIN v.items : p \in Prefixed(i, Places(v.items[i], d - 1))
    BY <2>5
  <2>7. PICK q \in Places(v.items[i], d - 1) : p = <<<<i>> \o q[1], q[2]>>
    BY <2>6 DEF Prefixed
  <2>8. q[1] \in Reached(v.items[i]) /\ a = <<i>> \o q[1]
    BY <2>2, <2>4, <2>7, PlaceIsReached
  <2> QED BY <2>8 DEF Through
<1> QED BY <1>1, <1>2, <1>3

LEMMA SameItemsReached ==
  ASSUME NEW v, NEW w, v.items = w.items
  PROVE  Reached(v) = Reached(w)
<1> DEFINE From(items) == {<<>>} \cup UNION {Through(i, Reached(items[i])) : i \in DOMAIN items}
<1>1. Reached(v) = From(v.items) /\ Reached(w) = From(w.items)
  BY ReachedAre
<1> HIDE DEF From
<1> QED BY <1>1, Zenon

LEMMA LeafReached ==
  ASSUME NEW v, v.items = <<>>
  PROVE  Reached(v) = {<<>>}
<1>1. DOMAIN v.items = {}
  OBVIOUS
<1> QED BY <1>1, ReachedAre

LEMMA RootReached == \A v : <<>> \in Reached(v)
BY ReachedAre

(* One more item adds the addresses through it.                            *)
LEMMA ReachedGrow ==
  ASSUME NEW c, NEW S, c.items \in Seq(S), NEW v, NEW f, f.items = Append(c.items, v)
  PROVE  Reached(f) = Reached(c) \cup Through(Len(c.items) + 1, Reached(v))
<1> DEFINE n == Len(c.items)
           At(w) == UNION {Through(i, Reached(w.items[i])) : i \in DOMAIN w.items}
<1>1. /\ n \in Nat /\ f.items[n + 1] = v
      /\ DOMAIN c.items = 1..n /\ DOMAIN f.items = 1..(n + 1)
      /\ \A i \in 1..n : f.items[i] = c.items[i]
  BY ItemsGrow
<1>2. Reached(f) = {<<>>} \cup At(f) /\ Reached(c) = {<<>>} \cup At(c)
  BY ReachedAre
<1> HIDE DEF n
<1>3. At(f) = At(c) \cup Through(n + 1, Reached(v))
  <2>1. \A i \in 1..(n + 1) : i \in 1..n \/ i = n + 1
    BY <1>1
  <2>2. n + 1 \in 1..(n + 1) /\ \A i \in 1..n : i \in 1..(n + 1)
    BY <1>1
  <2>3. Through(n + 1, Reached(f.items[n + 1])) = Through(n + 1, Reached(v))
    BY <1>1
  <2>4. \A i \in 1..n : Through(i, Reached(f.items[i])) = Through(i, Reached(c.items[i]))
    BY <1>1
  <2> DEFINE part == [i \in 1..(n + 1) |-> Through(i, Reached(f.items[i]))]
  <2>5. At(f) = UNION {part[i] : i \in 1..(n + 1)}
    BY <1>1
  <2>6. At(c) = UNION {part[i] : i \in 1..n}
    BY <1>1, <2>2, <2>4
  <2>7. part[n + 1] = Through(n + 1, Reached(v))
    BY <2>2, <2>3
  <2> HIDE DEF part, At
  <2>8. UNION {part[i] : i \in 1..(n + 1)} = (UNION {part[i] : i \in 1..n}) \cup part[n + 1]
    BY <2>1, <2>2
  <2> QED BY <2>5, <2>6, <2>7, <2>8
<1> HIDE DEF At
<1>4. Reached(f) = Reached(c) \cup Through(n + 1, Reached(v))
  BY <1>2, <1>3
<1> QED BY <1>4 DEF n

-----------------------------------------------------------------------------
(* Counting.                                                               *)
AtMost(places, n) == IsFiniteSet(places) /\ Cardinality(places) <= n

LEMMA CountedBy ==
  ASSUME NEW S, NEW n \in Int, AtMost(S, n), NEW f, f = [x \in S |-> f[x]],
         NEW T, \A t \in T : \E x \in S : f[x] = t
  PROVE  AtMost(T, n)
<1> DEFINE image == {f[x] : x \in S}
<1>1. f \in Surjection(S, image)
  BY DEF Surjection
<1>2. T \in SUBSET image
  OBVIOUS
<1> HIDE DEF image
<1>3. IsFiniteSet(image) /\ Cardinality(image) <= Cardinality(S) /\ IsFiniteSet(S)
  BY <1>1, FS_Surjection DEF AtMost
<1>4. IsFiniteSet(T) /\ Cardinality(T) <= Cardinality(image)
  BY <1>2, <1>3, FS_Subset
<1>5. Cardinality(S) \in Nat /\ Cardinality(image) \in Nat /\ Cardinality(T) \in Nat
  BY <1>3, <1>4, FS_CardinalityType
<1> QED BY <1>3, <1>4, <1>5 DEF AtMost

LEMMA OneMore ==
  ASSUME NEW S, NEW n \in Int, AtMost(S, n), NEW x, NEW T, T \subseteq S \cup {x}
  PROVE  AtMost(T, n + 1)
<1>0. IsFiniteSet(S) /\ Cardinality(S) \in Nat
  BY FS_CardinalityType DEF AtMost
<1>1. IsFiniteSet(S \cup {x}) /\ Cardinality(S \cup {x}) <= Cardinality(S) + 1
  <2>1. /\ IsFiniteSet(S \cup {x})
        /\ Cardinality(S \cup {x}) = IF x \in S THEN Cardinality(S) ELSE Cardinality(S) + 1
    BY <1>0, FS_AddElement, Zenon
  <2> QED BY <1>0, <2>1
<1>2. T \in SUBSET (S \cup {x})
  OBVIOUS
<1>3. IsFiniteSet(T) /\ Cardinality(T) <= Cardinality(S \cup {x})
  BY <1>1, <1>2, FS_Subset
<1>4. Cardinality(T) \in Nat /\ Cardinality(S \cup {x}) \in Nat
  BY <1>1, <1>3, FS_CardinalityType
<1> QED BY <1>0, <1>1, <1>3, <1>4 DEF AtMost

LEMMA FewerAreCounted ==
  ASSUME NEW S, NEW n \in Int, NEW m \in Int, n <= m, AtMost(S, n), NEW T, T \subseteq S
  PROVE  AtMost(T, m)
<1>1. IsFiniteSet(T) /\ Cardinality(T) <= Cardinality(S)
  BY FS_Subset DEF AtMost
<1>2. Cardinality(T) \in Nat /\ Cardinality(S) \in Nat
  BY <1>1, FS_CardinalityType DEF AtMost
<1> QED BY <1>1, <1>2 DEF AtMost

LEMMA CountIsPositive ==
  ASSUME NEW S, NEW n \in Int, AtMost(S, n)
  PROVE  n >= 0 /\ (S # {} => n >= 1)
<1>1. Cardinality(S) \in Nat /\ IsFiniteSet(S)
  BY FS_CardinalityType DEF AtMost
<1>2. S # {} => Cardinality(S) # 0
  BY <1>1, FS_EmptySet
<1> QED BY <1>1, <1>2 DEF AtMost

-----------------------------------------------------------------------------
(* The items that are held by the suspended activations, these included.   *)
Waiting(s, k) == {<<k, a>> : a \in Reached(s[k])}
Pending(s) == UNION {Waiting(s, k) : k \in 1..Len(s)}
(* The places that v takes where the innermost of the callers puts it.     *)
Arriving(callers, v) ==
  {<<Len(callers), a>> : a \in Through(Len(callers[Len(callers)].items) + 1, Reached(v))}

LEMMA PendingPushed ==
  ASSUME NEW s, \E S : s \in Seq(S), NEW f, f.items = <<>>
  PROVE  Pending(Append(s, f)) \subseteq Pending(s) \cup {<<Len(s) + 1, <<>>>>}
<1> DEFINE r == Append(s, f)
           n == Len(s)
<1>1. PICK S : s \in Seq(S)
  OBVIOUS
<1>2. n \in Nat /\ Len(r) = n + 1 /\ r[n + 1] = f /\ \A k \in 1..n : r[k] = s[k]
  BY <1>1, ItemsGrow
<1>3. Reached(f) = {<<>>}
  BY LeafReached
<1> HIDE DEF r, n
<1>4. \A k \in 1..n : Waiting(r, k) = Waiting(s, k)
  BY <1>2 DEF Waiting
<1>5. Waiting(r, n + 1) = {<<n + 1, <<>>>>}
  BY <1>2, <1>3 DEF Waiting
<1>6. \A k \in 1..(n + 1) : k \in 1..n \/ k = n + 1
  BY <1>2
<1>7. Pending(r) = UNION {Waiting(r, k) : k \in 1..(n + 1)} /\ Pending(s) = UNION {Waiting(s, k) : k \in 1..n}
  BY <1>2 DEF Pending, n
<1>8. Pending(r) \subseteq Pending(s) \cup {<<n + 1, <<>>>>}
  BY <1>4, <1>5, <1>6, <1>7
<1> QED BY <1>8 DEF r, n

LEMMA PendingReplaced ==
  ASSUME NEW s, \E S : s \in Seq(S), s # <<>>, NEW f, NEW places,
         \A a \in Reached(f) : a \in Reached(s[Len(s)]) \/ <<Len(s), a>> \in places
  PROVE  Pending([s EXCEPT ![Len(s)] = f]) \subseteq Pending(s) \cup places
<1> DEFINE r == [s EXCEPT ![Len(s)] = f]
           n == Len(s)
<1>1. PICK S : s \in Seq(S)
  OBVIOUS
<1>2. n \in Nat /\ n > 0 /\ Len(r) = n /\ r[n] = f /\ \A k \in 1..(n - 1) : r[k] = s[k]
  BY <1>1
<1>3. Pending(r) = UNION {Waiting(r, k) : k \in 1..n} /\ Pending(s) = UNION {Waiting(s, k) : k \in 1..n}
  BY <1>2 DEF Pending
<1> HIDE DEF r
<1>4. \A k \in 1..(n - 1) : Waiting(r, k) = Waiting(s, k) /\ k \in 1..n
  BY <1>2 DEF Waiting
<1>5. \A x \in Waiting(r, n) : x \in Waiting(s, n) \/ x \in places
  BY <1>2 DEF Waiting
<1>6. n \in 1..n /\ \A k \in 1..n : k \in 1..(n - 1) \/ k = n
  BY <1>2
<1> HIDE DEF n
<1>7. Pending(r) \subseteq Pending(s) \cup places
  BY <1>3, <1>4, <1>5, <1>6
<1> QED BY <1>7 DEF r, n

(* What an activation holds after an item was returned to it.              *)
LEMMA PendingReceives ==
  ASSUME NEW callers, \E S : callers \in Seq(S), callers # <<>>, NEW S,
         callers[Len(callers)].items \in Seq(S),
         NEW v, NEW f, f.items = Append(callers[Len(callers)].items, v)
  PROVE  Pending([callers EXCEPT ![Len(callers)] = f]) \subseteq Pending(callers) \cup Arriving(callers, v)
<1> DEFINE c == callers[Len(callers)]
<1>1. Reached(f) = Reached(c) \cup Through(Len(c.items) + 1, Reached(v))
  BY ReachedGrow
<1>2. \A a \in Reached(f) : a \in Reached(c) \/ <<Len(callers), a>> \in Arriving(callers, v)
  BY <1>1 DEF Arriving
<1> QED BY <1>2, PendingReplaced

(* What a completed item returns was held by the activation it ends.       *)
Callers(s) == SubSeq(s, 1, Len(s) - 1)
EndsWith(s, v) == IsSeq(s) /\ s # <<>> /\ v.items \in {s[Len(s)].items, <<>>}
LEMMA PendingReturned ==
  ASSUME NEW s, NEW v, EndsWith(s, v), NEW n \in Int, AtMost(Pending(s), n)
  PROVE  AtMost(Reached(v), n) /\ AtMost(Pending(Callers(s)) \cup Arriving(Callers(s), v), n)
<1> DEFINE callers == Callers(s)
           m == Len(s)
           j == Len(callers[Len(callers)].items) + 1
           last == [x \in Pending(s) |-> x[2]]
           moved == [x \in Pending(s) |-> IF x[1] = m THEN <<m - 1, <<j>> \o x[2]>> ELSE x]
<1>1. PICK S : s \in Seq(S) /\ s # <<>>
  BY DEF EndsWith, IsSeq
<1>2. /\ m \in Nat /\ m > 0 /\ m \in 1..m
      /\ Len(callers) = m - 1 /\ \A k \in 1..(m - 1) : callers[k] = s[k] /\ k # m /\ k \in 1..m
  <2> DEFINE l == m - 1
  <2>1. m \in Nat /\ m > 0 /\ l \in Nat /\ m = l + 1 /\ \A i \in 1..l : s[i] \in S
    BY <1>1
  <2>2. callers = SubSeq(s, 1, l)
    BY DEF Callers
  <2> HIDE DEF l
  <2>3. Len(SubSeq(s, 1, l)) = l /\ \A i \in 1..l : SubSeq(s, 1, l)[i] = s[i]
    BY <1>1, <2>1
  <2> HIDE DEF m
  <2>4. m \in 1..m /\ \A k \in 1..l : k # m /\ k \in 1..m
    BY <2>1
  <2>5. l = m - 1
    BY <2>1
  <2> QED BY <2>1, <2>2, <2>3, <2>4, <2>5
<1>3. \A a \in Reached(v) : <<m, a>> \in Pending(s)
  <2>1. Reached(v) \subseteq Reached(s[m])
    <3>1. CASE v.items = s[m].items
      BY <3>1, SameItemsReached
    <3>2. CASE v.items = <<>>
      BY <3>2, LeafReached, RootReached
    <3> QED BY <3>1, <3>2 DEF EndsWith
  <2>2. \A a \in Reached(v) : <<m, a>> \in Waiting(s, m)
    BY <2>1 DEF Waiting
  <2>3. Waiting(s, m) \subseteq Pending(s)
    BY <1>2 DEF Pending
  <2> QED BY <2>2, <2>3
<1>4. Pending(callers) \subseteq Pending(s) /\ \A x \in Pending(callers) : x[1] # m
  <2>1. Pending(callers) = UNION {Waiting(callers, k) : k \in 1..(m - 1)}
    BY <1>2 DEF Pending
  <2>2. \A k \in 1..(m - 1) : Waiting(callers, k) = Waiting(s, k) /\ \A x \in Waiting(s, k) : x[1] # m
    BY <1>2 DEF Waiting
  <2>3. Pending(s) = UNION {Waiting(s, k) : k \in 1..m} /\ 1..(m - 1) \subseteq 1..m
    BY <1>2 DEF Pending
  <2> HIDE DEF m
  <2> QED BY <2>1, <2>2, <2>3
<1> HIDE DEF callers, m, j
<1>5. AtMost(Reached(v), n)
  <2>1. \A a \in Reached(v) : \E x \in Pending(s) : last[x] = a
    <3> TAKE a \in Reached(v)
    <3>1. <<m, a>> \in Pending(s) /\ <<m, a>>[2] = a
      BY <1>3
    <3> QED BY <3>1
  <2>2. last = [x \in Pending(s) |-> last[x]]
    OBVIOUS
  <2> HIDE DEF last
  <2> QED BY <2>1, <2>2, CountedBy
<1>6. AtMost(Pending(callers) \cup Arriving(callers, v), n)
  <2>1. \A t \in Pending(callers) : \E x \in Pending(s) : moved[x] = t
    BY <1>4
  <2>2. ASSUME NEW t \in Arriving(callers, v)
        PROVE  \E x \in Pending(s) : moved[x] = t
    <3>1. PICK a \in Reached(v) : t = <<m - 1, <<j>> \o a>>
      BY <1>2 DEF Arriving, Through, j
    <3>2. <<m, a>> \in Pending(s) /\ <<m, a>>[1] = m /\ <<m, a>>[2] = a
      BY <1>3
    <3>3. moved[<<m, a>>] = t
      BY <3>1, <3>2
    <3> QED BY <3>2, <3>3
  <2>3. moved = [x \in Pending(s) |-> moved[x]]
    OBVIOUS
  <2> HIDE DEF moved
  <2>4. \A t \in Pending(callers) \cup Arriving(callers, v) : \E x \in Pending(s) : moved[x] = t
    BY <2>1, <2>2
  <2> QED BY <2>3, <2>4, CountedBy
<1> QED BY <1>5, <1>6 DEF callers

-----------------------------------------------------------------------------
(* The inductive invariant: the heads charged for are no fewer than the    *)
(* items held so far, by the activations and by what was returned.         *)
Counted ==
  /\ AtMost(Pending(stack), MaxItems - budget)
  /\ value # Nothing => AtMost(Reached(value), MaxItems - budget)
  /\ outer # Nothing => AtMost(Reached(outer), MaxItems)
  /\ outcome = "accepted" => value # Nothing

LEMMA NothingPending == Pending(<<>>) = {}
<1>1. Len(<<>>) = 0 /\ 1..0 = {}
  OBVIOUS
<1> QED BY <1>1 DEF Pending

LEMMA BudgetIs ==
  ASSUME DecodeInv
  PROVE  budget \in Nat /\ MaxItems \in Nat /\ MaxItems - budget \in Int
BY LimitsAssumption DEF DecodeInv, Charged

LEMMA StackIs ==
  ASSUME NEW s, StackFits(s)
  PROVE  (\E S : s \in Seq(S)) /\ (s # <<>> => \E S : s[Len(s)].items \in Seq(S))
<1>1. ASSUME s # <<>>
      PROVE  \E S : s[Len(s)].items \in Seq(S)
  BY <1>1, TopFits DEF FrameFits, IsFrame
<1> QED BY <1>1 DEF StackFits

(* What is returned is counted where it arrives.                           *)
LEMMA DeliveredIsCounted ==
  ASSUME NEW callers, StackFits(callers), NEW v, Deliver(v, callers), NEW n \in Int,
         AtMost(Pending(stack), n), value # Nothing => AtMost(Reached(value), n),
         AtMost(Reached(v), n), AtMost(Pending(callers) \cup Arriving(callers, v), n)
  PROVE  /\ AtMost(Pending(stack'), n)
         /\ value' # Nothing => AtMost(Reached(value'), n)
         /\ outcome' \in {outcome, "malformed", "duplicate"}
<1>1. CASE callers = <<>>
  <2>1. stack' = <<>> /\ value' = v /\ outcome' = outcome
    BY <1>1 DEF Deliver
  <2>2. AtMost({}, n)
    BY FewerAreCounted
  <2> QED BY <2>1, <2>2, NothingPending
<1>2. CASE callers # <<>>
  <2> DEFINE caller == callers[Len(callers)]
             more == [caller EXCEPT !.items = Append(@, v), !.left = IF @ = Endless THEN @ ELSE @ - 1]
             Stops == outcome' \in {"malformed", "duplicate"} /\ UNCHANGED <<stack, value>>
             Takes == /\ stack' = [callers EXCEPT ![Len(callers)] = more]
                      /\ UNCHANGED <<value, outcome>>
  <2>1. Stops \/ Takes
    BY <1>2 DEF Deliver, Stop
  <2>2. CASE Stops
    BY <2>2
  <2>3. CASE Takes
    <3>1. IsFrame(caller)
      BY <1>2, TopFits DEF FrameFits
    <3>2. more.items = Append(caller.items, v)
      BY <3>1 DEF IsFrame
    <3>3. PICK S : caller.items \in Seq(S)
      BY <3>1 DEF IsFrame
    <3> HIDE DEF more
    <3>4. Pending([callers EXCEPT ![Len(callers)] = more])
            \subseteq Pending(callers) \cup Arriving(callers, v)
      BY <1>2, <3>2, <3>3, StackIs, PendingReceives
    <3>5. AtMost(Pending([callers EXCEPT ![Len(callers)] = more]), n)
      <4> DEFINE held == Pending([callers EXCEPT ![Len(callers)] = more])
      <4>1. held \subseteq Pending(callers) \cup Arriving(callers, v)
        BY <3>4, Zenon
      <4> HIDE DEF held
      <4>2. AtMost(held, n)
        <5>1. n <= n
          OBVIOUS
        <5> QED BY <4>1, <5>1, FewerAreCounted
      <4> QED BY <4>2 DEF held
    <3> QED BY <2>3, <3>5
  <2> QED BY <2>1, <2>2, <2>3
<1> QED BY <1>1, <1>2

(* An end of the call that changes none of the items.                      *)
LEMMA EndsCount ==
  ASSUME DecodeInv, Counted, UNCHANGED <<stack, value, outer>>,
         budget' \in {budget, budget - 1}, outcome' = "accepted" => value # Nothing
  PROVE  Counted'
<1>1. MaxItems - budget <= MaxItems - budget' /\ MaxItems - budget' \in Int /\ MaxItems - budget \in Int
  BY BudgetIs
<1>2. AtMost(Pending(stack'), MaxItems - budget')
  BY <1>1, FewerAreCounted DEF Counted
<1>3. value' # Nothing => AtMost(Reached(value'), MaxItems - budget')
  BY <1>1, FewerAreCounted DEF Counted
<1> QED BY <1>2, <1>3 DEF Counted

LEMMA ReadLeafCounts ==
  ASSUME DecodeInv, Counted, NEW h, ReadLeaf(h)
  PROVE  Counted'
<1> DEFINE leaf == Item(h.kind, h.content, <<>>)
           n == MaxItems - budget
           m == Len(stack)
           place == <<m, <<Len(stack[m].items) + 1>> \o <<>>>>
<1>1. /\ Deliver(leaf, stack) /\ outer' = outer /\ budget' = budget - 1
      /\ outcome = "decoding" /\ value = Nothing
  BY DEF ReadLeaf, UnchangedCall, Read, ItemExpected, IsRunning
<1>2. Reached(leaf) = {<<>>}
  BY LeafReached DEF Item
<1> HIDE DEF leaf
<1>3. n \in Int /\ n + 1 \in Int /\ MaxItems - budget' = n + 1 /\ AtMost(Pending(stack), n)
  BY <1>1, BudgetIs DEF Counted
<1> HIDE DEF n
<1>4. Arriving(stack, leaf) = {place}
  BY <1>2 DEF Arriving, Through
<1> HIDE DEF place
<1>5. AtMost(Pending(stack) \cup Arriving(stack, leaf), n + 1)
  BY <1>3, <1>4, OneMore
<1>6. AtMost(Pending(stack), n + 1)
  BY <1>3, <1>5, FewerAreCounted
<1>7. AtMost(Reached(leaf), n + 1)
  <2>1. AtMost({}, n)
    BY <1>3, FewerAreCounted
  <2>2. AtMost({<<>>}, n + 1)
    BY <1>3, <2>1, OneMore
  <2> QED BY <1>2, <2>2
<1>8. /\ AtMost(Pending(stack'), n + 1)
      /\ value' # Nothing => AtMost(Reached(value'), n + 1)
      /\ outcome' \in {outcome, "malformed", "duplicate"}
  BY <1>1, <1>3, <1>5, <1>6, <1>7, DeliveredIsCounted DEF DecodeInv
<1> QED BY <1>1, <1>3, <1>8 DEF Counted

LEMMA ReadOpeningCounts ==
  ASSUME DecodeInv, Counted, NEW h, ReadOpening(h)
  PROVE  Counted'
<1> DEFINE f == Frame(h)
           n == MaxItems - budget
<1>1. /\ stack' = Append(stack, f) /\ UNCHANGED <<value, outcome, outer>>
      /\ budget' = budget - 1 /\ value = Nothing
  BY DEF ReadOpening, UnchangedCall, Read, ItemExpected, IsRunning
<1>2. f.items = <<>>
  BY DEF Frame
<1> HIDE DEF f
<1>3. n \in Int /\ MaxItems - budget' = n + 1 /\ AtMost(Pending(stack), n)
  BY <1>1, BudgetIs DEF Counted
<1> HIDE DEF n
<1>4. Pending(stack') \subseteq Pending(stack) \cup {<<Len(stack) + 1, <<>>>>}
  BY <1>1, <1>2, StackIs, PendingPushed DEF DecodeInv
<1>5. AtMost(Pending(stack'), n + 1)
  BY <1>3, <1>4, OneMore
<1> QED BY <1>1, <1>3, <1>5 DEF Counted

(* A break changes none of the items its activation holds.                 *)
LEMMA BreakCounts ==
  ASSUME DecodeInv, Counted, ReadBreak \/ ReadStringBreak
  PROVE  Counted'
<1> DEFINE f == [Top EXCEPT !.left = 0]
<1>1. /\ stack # <<>> /\ stack' = [stack EXCEPT ![Len(stack)] = f]
      /\ UNCHANGED <<value, outcome, outer>> /\ budget' \in {budget, budget - 1}
  BY DEF ReadBreak, ReadStringBreak, BreakAllowed, InString, Read, WithTop, UnchangedCall
<1>2. f.items = Top.items
  BY <1>1, TopFits DEF DecodeInv, FrameFits, IsFrame, Top
<1> HIDE DEF f
<1>3. Reached(f) = Reached(stack[Len(stack)])
  BY <1>2, SameItemsReached DEF Top
<1>4. Pending(stack') \subseteq Pending(stack)
  <2>1. Pending(stack') \subseteq Pending(stack) \cup {}
    BY <1>1, <1>3, StackIs, PendingReplaced DEF DecodeInv
  <2> QED BY <2>1
<1>5. MaxItems - budget <= MaxItems - budget' /\ MaxItems - budget' \in Int /\ MaxItems - budget \in Int
  BY <1>1, BudgetIs
<1>6. AtMost(Pending(stack'), MaxItems - budget')
  BY <1>4, <1>5, FewerAreCounted DEF Counted
<1>7. value' # Nothing => AtMost(Reached(value'), MaxItems - budget')
  BY <1>1, <1>5, FewerAreCounted DEF Counted
<1> QED BY <1>1, <1>6, <1>7 DEF Counted

LEMMA ReturnCounts ==
  ASSUME DecodeInv, Counted, Return
  PROVE  Counted'
<1> DEFINE content == IF IsString(Top) THEN FlattenSeq(Joined(Top.items)) ELSE Top.content
           items == IF IsString(Top) THEN <<>> ELSE Top.items
           v == Item(Top.kind, content, items)
           n == MaxItems - budget
<1>1. /\ stack # <<>> /\ Deliver(v, Below) /\ UNCHANGED <<outer, data, budget>>
      /\ outcome = "decoding" /\ value = Nothing
  BY DEF Return, IsRunning, UnchangedCall
<1>2. v.items \in {stack[Len(stack)].items, <<>>}
  BY DEF Item, Top
<1> HIDE DEF v
<1>3. n \in Int /\ MaxItems - budget' = n /\ AtMost(Pending(stack), n)
  BY <1>1, BudgetIs DEF Counted
<1> HIDE DEF n
<1>4. AtMost(Reached(v), n) /\ AtMost(Pending(Below) \cup Arriving(Below, v), n)
  <2>1. EndsWith(stack, v)
    BY <1>1, <1>2, StackIs DEF DecodeInv, EndsWith, IsSeq
  <2>2. Below = Callers(stack)
    BY DEF Below, Callers
  <2> QED BY <1>3, <2>1, <2>2, PendingReturned
<1>5. StackFits(Below)
  BY <1>1, StackPopped DEF Below, DecodeInv
<1>6. /\ AtMost(Pending(stack'), n)
      /\ value' # Nothing => AtMost(Reached(value'), n)
      /\ outcome' \in {outcome, "malformed", "duplicate"}
  BY <1>1, <1>3, <1>4, <1>5, DeliveredIsCounted
<1> QED BY <1>1, <1>3, <1>6 DEF Counted

(* The protected header has a budget of its own.                           *)
LEMMA AcceptOuterCounts ==
  ASSUME DecodeInv, Counted, AcceptOuter
  PROVE  Counted'
<1> DEFINE Ended == UNCHANGED <<stack, value, budget>>
           GoesOn == stack' = <<>> /\ value' = Nothing /\ budget' = MaxItems /\ outcome' = outcome
<1>1. outcome = "decoding" /\ value # Nothing /\ outer' = value /\ (Ended \/ GoesOn)
  BY DEF AcceptOuter, Stop
<1>2. AtMost(Reached(value), MaxItems)
  <2>1. MaxItems - budget <= MaxItems
    BY BudgetIs
  <2> QED BY <1>1, <2>1, BudgetIs, FewerAreCounted DEF Counted
<1>3. CASE Ended
  BY <1>1, <1>2, <1>3 DEF Counted
<1>4. CASE GoesOn
  <2>1. MaxItems - budget >= 0 /\ MaxItems - budget' = 0
    BY <1>4, BudgetIs, CountIsPositive DEF Counted
  <2>2. AtMost({}, 0)
    BY FS_EmptySet DEF AtMost
  <2> QED BY <1>1, <1>2, <1>4, <2>1, <2>2, NothingPending DEF Counted
<1> QED BY <1>1, <1>3, <1>4

LEMMA CountKeeps == DecodeInv /\ Counted /\ [Next]_vars => Counted'
<1> SUFFICES ASSUME DecodeInv, Counted, [Next]_vars
             PROVE  Counted'
  OBVIOUS
<1>1. CASE Refuse
  BY <1>1, EndsCount DEF Refuse, UnchangedCall
<1>2. ASSUME NEW h \in Heads, ReadRefused(h)
      PROVE  Counted'
  <2>1. UNCHANGED <<stack, value, outer>> /\ budget' = budget - 1 /\ outcome' = "malformed"
    BY <1>2 DEF ReadRefused, Read, Stop, UnchangedCall
  <2> QED BY <2>1, EndsCount
<1>3. ASSUME NEW h \in Heads, ReadLeaf(h) \/ ReadOpening(h)
      PROVE  Counted'
  BY <1>3, ReadLeafCounts, ReadOpeningCounts
<1>4. CASE ReadBreak \/ ReadStringBreak
  BY <1>4, BreakCounts
<1>5. CASE Return
  BY <1>5, ReturnCounts
<1>6. CASE Truncated \/ Trailing \/ Oversize \/ AcceptItem \/ AcceptProtected
  <2>1. UNCHANGED <<stack, value, outer, budget>> /\ (outcome' = "accepted" => value # Nothing)
    BY <1>6 DEF Truncated, Trailing, Oversize, AcceptItem, AcceptProtected, Stop, UnchangedCall
  <2> QED BY <2>1, EndsCount
<1>7. CASE AcceptOuter
  BY <1>7, AcceptOuterCounts
<1>8. CASE UNCHANGED vars
  BY <1>8 DEF vars, Counted
<1> QED BY <1>1, <1>2, <1>3, <1>4, <1>5, <1>6, <1>7, <1>8 DEF Next

LEMMA CountStarts == Init => Counted
<1>1. AtMost({}, 0) /\ MaxItems - MaxItems = 0
  BY FS_EmptySet, LimitsAssumption DEF AtMost
<1> QED BY <1>1, NothingPending DEF Init, Counted

(* Nothing accepted has more items in it, at all its levels together, than *)
(* MAX_CBOR_ITEMS: however the budget is passed on, each item that is kept *)
(* was charged for (_decode_item).                                         *)
THEOREM ItemsHaveABudget == Spec => []ItemsAreCounted
<1>1. DecodeInv /\ Counted => ItemsAreCounted
  <2> SUFFICES ASSUME DecodeInv, Counted, outcome = "accepted", NEW v \in {value, outer}
               PROVE  Cardinality(Addresses(v)) <= MaxItems
    BY DEF ItemsAreCounted
  <2>1. AtMost(Reached(value), MaxItems - budget) /\ MaxItems - budget <= MaxItems
    BY BudgetIs DEF Counted
  <2>2. AtMost(Reached(v), MaxItems)
    <3>1. CASE v = value
      BY <2>1, <3>1, BudgetIs, FewerAreCounted
    <3>2. CASE v = outer /\ outer # Nothing
      BY <3>2 DEF Counted
    <3>3. CASE v = outer /\ outer = Nothing
      <4>1. Reached(v) = {<<>>}
        BY <3>3, LeafReached DEF Nothing, Item
      <4>2. Reached(v) \subseteq Reached(value)
        BY <4>1, RootReached
      <4> QED BY <2>1, <4>2, BudgetIs, FewerAreCounted
    <3> QED BY <3>1, <3>2, <3>3
  <2>3. Addresses(v) \subseteq Reached(v)
    BY LimitsAssumption DEF Addresses, Reached
  <2>4. AtMost(Addresses(v), MaxItems)
    BY <2>2, <2>3, BudgetIs, FewerAreCounted
  <2> QED BY <2>4 DEF AtMost
<1> QED BY <1>1, DecoderInvariant, CountStarts, CountKeeps, PTL DEF Spec
=============================================================================
