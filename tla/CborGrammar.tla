---------------------------- MODULE CborGrammar ----------------------------
(***************************************************************************)
(* The deterministic encoder (encode_deterministic_cbor of                 *)
(* lib/cpb/cose_refs.py), the vector checker's own decoder of fixtures     *)
(* (decode_strict_cbor of .github/check_vectors.py), and the grammar of    *)
(* RFC 8949 as a reference for the decoder: what it promises about every   *)
(* input it accepts or refuses.                                            *)
(***************************************************************************)
EXTENDS CborDecoder

(* The encoder takes no simple values and no floats.                       *)
RECURSIVE IsEncodable(_)
IsEncodable(v) ==
  /\ v.kind \notin {"simple", "float", "nan"}
  /\ \A i \in DOMAIN v.items : IsEncodable(v.items[i])

(* encode_deterministic_cbor: shortest heads, keys in order.               *)
RECURSIVE Encode(_)
Encode(v) ==
  LET part == [i \in DOMAIN v.items |-> Encode(v.items[i])]
      pairs == [i \in 1..(Len(part) \div 2) |-> <<part[2 * i - 1], part[2 * i]>>]
      sorted == SortSeq(pairs, LAMBDA p, q : \/ Len(p[1]) < Len(q[1])
                                             \/ Len(p[1]) = Len(q[1]) /\ LexLess(p[1], q[1]))
  IN
  CASE v.kind = "map" -> ShortHead("map", Len(pairs)) \o FlattenSeq(FlattenSeq(sorted))
    [] v.kind = "array" -> ShortHead("array", Len(part)) \o FlattenSeq(part)
    [] v.kind = "tag" -> ShortHead("tag", v.content[1]) \o part[1]
    [] OTHER -> ShortHead(v.kind, Argument(v.kind, v.content)) \o Payload(v.kind, v.content)

-----------------------------------------------------------------------------
(* The fixture decoder, which recurses over a whole input t: an item that  *)
(* starts at t[i], at a depth, with so many items left of the budget.      *)
Decoded(v, next, left) == [value |-> v, next |-> next, left |-> left]
Refused == Decoded(Nothing, 0, 0)
EndOfInput == Decoded(Nothing, 0, 1)

(* It takes definite lengths in preferred form, and no simple value but    *)
(* false, true and null.                                                   *)
InSubset(h) == h.form = "short" /\ h.kind \in (Leaves \ {"simple", "float", "nan"}) \cup Opened

(* Mutated form: the order of the keys is not looked at.                   *)
RepeatedFixtureKey(frame, key) ==
  key.kind \in {"array", "map", "tag"} \/ RepeatsAKey(frame, key)

FixtureKeyRefused(frame, key) ==
  \/ key.kind \in {"array", "map", "tag"}
  \/ RepeatsAKey(frame, key)
  \/ frame.items # <<>> /\ ~KeyLess(frame.items[Len(frame.items) - 1], key)

RECURSIVE FixtureItem(_, _, _, _), FixtureItems(_, _, _, _, _)
FixtureItem(t, i, depth, left) ==
  CASE depth > MaxDepth \/ left = 0 -> Refused
    [] depth <= MaxDepth /\ left > 0 /\ i > Len(t) -> EndOfInput
    [] OTHER ->
         LET h == t[i] IN
         CASE ~InSubset(h) -> Refused
           [] InSubset(h) /\ h.kind \in Leaves ->
                Decoded(Item(h.kind, h.content, <<>>), i + 1, left - 1)
           [] OTHER -> FixtureItems(t, i + 1, depth + 1, left - 1, Frame(h))
FixtureItems(t, i, depth, left, frame) ==
  IF IsComplete(frame) THEN Decoded(Item(frame.kind, frame.content, frame.items), i, left)
  ELSE LET part == FixtureItem(t, i, depth, left) IN
    CASE part.next = 0 -> part
      [] part.next > 0 /\ AtKey(frame) /\ FixtureKeyRefused(frame, part.value) -> Refused
      [] OTHER -> FixtureItems(t, part.next, depth, part.left,
                    [frame EXCEPT !.items = Append(@, part.value), !.left = @ - 1])

FixtureDecode(t) ==
  LET whole == FixtureItem(t, 1, 0, MaxItems) IN
  IF whole.next > 0 /\ whole.next <= Len(t) THEN Refused ELSE whole

-----------------------------------------------------------------------------
(* Reference: where the item that starts at t[i] ends, when it does; Bad   *)
(* when no continuation of t completes it, More when one does.             *)
Bad == 0
More(t) == Len(t) + 2

(* RFC 8949, section 3.3: an encoder must not write a simple value below   *)
(* 32 in two bytes, and one so written is not well-formed.                 *)
IsLongSimple(h) == h.kind = "simple" /\ h.form = "long" /\ h.content[1] < 32

RECURSIVE ItemEnd(_, _), ItemsEnd(_, _, _), EndlessEnd(_, _, _), ChunksEnd(_, _, _)
ItemEnd(t, i) ==
  IF i > Len(t) THEN More(t)
  ELSE LET h == t[i] IN
    CASE h.kind \in {"broken", "break"} -> Bad
      [] h.kind = "tag" -> ItemEnd(t, i + 1)
      [] h.kind = "array" /\ h.form # "endless" -> ItemsEnd(t, i + 1, h.content[1])
      [] h.kind = "map" /\ h.form # "endless" -> ItemsEnd(t, i + 1, 2 * h.content[1])
      [] h.kind \in {"array", "map"} /\ h.form = "endless" -> EndlessEnd(t, i + 1, h.kind)
      [] h.kind \in {"bytes", "text"} /\ h.form = "endless" -> ChunksEnd(t, i + 1, h.kind)
      [] IsLongSimple(h) -> Bad
      [] OTHER -> i + 1
ItemsEnd(t, i, n) ==
  IF n = 0 \/ i = Bad \/ i > Len(t) + 1 THEN i ELSE ItemsEnd(t, ItemEnd(t, i), n - 1)
EndlessEnd(t, i, kind) ==
  IF i = Bad THEN Bad
  ELSE IF i > Len(t) THEN More(t)
  ELSE IF t[i].kind = "break" THEN i + 1
  ELSE EndlessEnd(t, ItemsEnd(t, i, IF kind = "map" THEN 2 ELSE 1), kind)
ChunksEnd(t, i, kind) ==
  IF i > Len(t) THEN More(t)
  ELSE IF t[i].kind = "break" THEN i + 1
  ELSE IF t[i].kind = kind /\ t[i].form # "endless" THEN ChunksEnd(t, i + 1, kind)
  ELSE Bad

-----------------------------------------------------------------------------
(* A strict decoder accepts one spelling of each value: the bytes of an    *)
(* input it accepts are those encode_deterministic_cbor writes for the     *)
(* value it returns, in the heads, the definite lengths and the key order. *)
StrictInputIsItsEncoding ==
  outcome = "accepted" /\ strict /\ phase # "sign1" /\ IsEncodable(value) =>
    Encode(value) = FlattenSeq([i \in DOMAIN data |-> Bytes(data[i])])

(* Reference: the same input with those simple values in one byte.         *)
Corrected(t) ==
  [i \in DOMAIN t |-> IF IsLongSimple(t[i]) THEN [t[i] EXCEPT !.form = "short"] ELSE t[i]]

(* What is accepted is one complete item of the grammar, and what is       *)
(* refused as malformed has no continuation that is one: nesting, breaks   *)
(* and counts of definite and endless items never run into each other.     *)
(* Only a small simple value in two bytes, which the grammar does not      *)
(* have, is taken, and only when not strict.  Container keys, which it     *)
(* has, are refused; so is all that is not deterministic when strict.      *)
AcceptsCborUpToSimples ==
  /\ outcome = "accepted" =>
       /\ ItemEnd(Corrected(data), 1) = Len(data) + 1
       /\ strict => ItemEnd(data, 1) = Len(data) + 1
  /\ outcome = "malformed" /\ phase = "item" /\ ~strict =>
       \/ ItemEnd(Corrected(data), 1) < Len(data) + 1
       \/ Top.kind \in {"array", "map", "tag"} /\ AtKey(Below[Len(Below)])

(* "The input is not a well-formed supported CBOR encoding"                *)
(* (MalformedCborError, lib/cpb/cose_refs.py:77) is said of every input    *)
(* that is not: what is accepted is well-formed.                           *)
AcceptedIsWellFormed ==
  outcome = "accepted" => ItemEnd(data, 1) = Len(data) + 1

(* The vector checker grades a carrier fixture by its own decoder, never by*)
(* the library's.  The two agree: what a strict library call accepts, the  *)
(* fixture decoder reads as the same value, but for the simple values it   *)
(* does not know; what the library refuses, it refuses at the same place;  *)
(* and neither completes an input that the other finds cut off.            *)
FixtureDecoderAgrees ==
  strict /\ phase # "sign1" =>
    /\ outcome = "accepted" =>
         FixtureDecode(data).value = IF IsEncodable(value) THEN value ELSE Nothing
    /\ phase = "item" /\ outcome \in {"malformed", "duplicate", "too_large"} =>
         FixtureDecode(data) = Refused
    /\ outcome = "truncated" => FixtureDecode(data).value = Nothing
=============================================================================
