--------------------------- MODULE JsonConformance ---------------------------
(***************************************************************************)
(* What is decided about a parsed JSON value: the P rule of the checker    *)
(* (lib/cpb/check.py), the absent-field normalization and the refusals of  *)
(* the canonicalizer (lib/cpb/canonicalize.py).  Each of them walks the    *)
(* value; here a walk is over the values at each depth, of which the       *)
(* scanner returns no more than MaxDepth.                                  *)
(***************************************************************************)
EXTENDS FiniteSets, JsonScanner

CONSTANT Lone  \* the sequences with an unpaired surrogate, which no encoder takes

IsEmptyContainer(v) == v.kind \in {"object", "array"} /\ v.items = <<>>
IsAbsent(v) == v.kind = "null" \/ IsEmptyContainer(v)

(* The values that stand d containers deep in v, and all there are.        *)
Held(v) == IF v.kind \in {"object", "array"} THEN {v.items[i].value : i \in DOMAIN v.items} ELSE {}
Level(v, d) ==
  LET level[n \in 0..d] == IF n = 0 THEN {v} ELSE UNION {Held(x) : x \in level[n - 1]} IN level[d]
Within(v) == UNION {Level(v, d) : d \in 0..MaxDepth}

(* Mutated form of the P rule: an empty array is let through.              *)
NullOrEmptyObject(v) == v.kind = "null" \/ (v.kind = "object" /\ v.items = <<>>)

BreaksTheMemberRule(v) == v.kind = "null" \/ IsEmptyContainer(v)

(* _p_walk finds something: a member at any depth is null or empty.        *)
PWalk(v) ==
  \E x \in Within(v) :
    x.kind = "object" /\ \E i \in DOMAIN x.items : BreaksTheMemberRule(x.items[i].value)

(* The items that stay, in their order.                                    *)
PresentItems(items) ==
  LET present == {i \in DOMAIN items : ~IsAbsent(items[i].value)}
      Rank(i) == Cardinality({j \in present : j <= i})
  IN [k \in 1..Cardinality(present) |-> items[CHOOSE i \in present : Rank(i) = k]]

(* normalize: bottom-up, members only; elements of an array stay.          *)
Normalize(v) ==
  LET normal[x \in Within(v)] ==
        LET items == [i \in DOMAIN x.items |-> Item(x.items[i].name, normal[x.items[i].value])] IN
        CASE x.kind = "object" -> Tree("object", PresentItems(items))
          [] x.kind = "array" -> Tree("array", items)
          [] OTHER -> x
  IN normal[v]

(* _jcs_n_value and the encoders refuse a float, an integer beyond the     *)
(* safe range, and an unpaired surrogate in a string or a name.            *)
SerializerRefuses(v) ==
  \E x \in Within(v) :
    \/ x.kind \in {"float", "unsafe"}
    \/ x.kind \in {"string", "object"} /\ \E i \in DOMAIN x.items : x.items[i].name \in Lone

(* canonical_digest_json with jcs-n: the wire rules, then an object, then  *)
(* the serializer on the normalized value.                                 *)
DigestRefused(v, violations) ==
  \/ \E c \in Codes : violations[c] > 0
  \/ v.kind # "object"
  \/ SerializerRefuses(Normalize(v))
=============================================================================
