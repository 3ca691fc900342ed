----------------------------- MODULE CborDecoder -----------------------------
(***************************************************************************)
(* The bounded CBOR decoder of COSE_Sign1 (lib/cpb/cose_refs.py), one item *)
(* head at a time: _decode_item, _decode_exact and decode_cose_sign1.  The *)
(* input is drawn head by head as the decoder reads it, so all inputs up   *)
(* to a length are decoded.  A frame of the stack is an activation of      *)
(* _decode_item that waits for an item inside it.  A head comes with its   *)
(* argument and, for a string of definite length, its content; contents    *)
(* are short sequences of numbers.                                         *)
(***************************************************************************)
EXTENDS Integers, FiniteSets, Sequences, SequencesExt

CONSTANTS
  ItemHeads, Sign1Heads, ProtectedHeads,  \* the heads an input is drawn from
  MaxDepth,   \* MAX_CBOR_DEPTH
  MaxItems,   \* MAX_CBOR_ITEMS
  MaxHeads    \* bound: heads of an input, by what is decoded

ASSUME LimitsAssumption == MaxDepth \in Nat /\ MaxItems \in Nat

VARIABLES
  strict,   \* require_deterministic
  entry,    \* "item": _decode_exact alone; "sign1": decode_cose_sign1
  phase,    \* what is being decoded: an "item", the "sign1", its "protected" header
  data,     \* the heads read so far in this phase
  stack,    \* the suspended activations, outermost first
  budget,   \* budget[0]
  value,    \* what the outermost activation returned
  outer,    \* the decoded COSE_Sign1, while its protected header is decoded
  outcome   \* "decoding", then how the call ended

vars == <<strict, entry, phase, data, stack, budget, value, outer, outcome>>

Leaves == {"uint", "nint", "bytes", "text", "const", "simple", "float", "nan"}
Opened == {"array", "map", "tag", "bytes", "text"}
Endless == -1

(* A head: its kind, its argument or content, and how it is written:       *)
(* "short" in the fewest bytes, "long" in more, "endless" without a        *)
(* length; the kind "broken" stands for every ill-formed head.             *)
ItemHead(kind, content, form) == [kind |-> kind, content |-> content, form |-> form]
Broken == ItemHead("broken", <<>>, "short")
Break == ItemHead("break", <<>>, "short")
Heads == CASE phase = "item" -> ItemHeads
           [] phase = "sign1" -> Sign1Heads
           [] phase = "protected" -> ProtectedHeads

Item(kind, content, items) == [kind |-> kind, content |-> content, items |-> items]
Nothing == Item("nothing", <<>>, <<>>)

(* _same_key: equal as Python values of one type; a NaN differs from       *)
(* itself.                                                                 *)
SameKey(left, right) == left = right /\ left.kind # "nan"

Top == stack[Len(stack)]
Below == SubSeq(stack, 1, Len(stack) - 1)
WithTop(frame) == [stack EXCEPT ![Len(stack)] = frame]

Frame(h) ==
  [kind |-> h.kind,
   content |-> IF h.kind = "tag" THEN h.content ELSE <<>>,
   left |-> CASE h.form = "endless" -> Endless
              [] h.kind = "tag" -> 1
              [] OTHER -> h.content[1] * (IF h.kind = "map" THEN 2 ELSE 1),
   items |-> <<>>]

IsString(frame) == frame.kind \in {"bytes", "text"}
AtKey(frame) == frame.kind = "map" /\ Len(frame.items) % 2 = 0
IsComplete(frame) == frame.left = 0
IsRunning == outcome = "decoding" /\ value = Nothing
ItemExpected == IsRunning /\ (stack # <<>> => ~IsComplete(Top))

(* Mutated form: in an endless map, after a key as well.                   *)
BreakAnywhere == stack # <<>> /\ Top.left = Endless /\ Top.kind \in {"array", "map"}

(* allow_break: an endless array, or the key position of an endless map.   *)
BreakAllowed ==
  stack # <<>> /\ Top.left = Endless /\ (Top.kind = "array" \/ AtKey(Top))

(* The bytes of a head (_head): major type and argument in one byte up to  *)
(* 23, in two above; the widths of four and eight bytes follow the pattern.*)
Major(kind) == CASE kind = "uint" -> 0 [] kind = "nint" -> 1 [] kind = "bytes" -> 2
                 [] kind = "text" -> 3 [] kind = "array" -> 4 [] kind = "map" -> 5
                 [] kind = "tag" -> 6 [] OTHER -> 7
Argument(kind, content) == IF kind \in {"bytes", "text"} THEN Len(content) ELSE content[1]
ShortHead(kind, n) ==
  IF n < 24 THEN <<32 * Major(kind) + n>> ELSE <<32 * Major(kind) + 24, n>>
Payload(kind, content) == IF kind \in {"bytes", "text"} THEN content ELSE <<>>
Bytes(h) ==
  (IF h.form = "short" THEN ShortHead(h.kind, Argument(h.kind, h.content))
   ELSE <<32 * Major(h.kind) + 24, Argument(h.kind, h.content)>>)
  \o Payload(h.kind, h.content)

(* The order of deterministic keys: by length, then by bytes.              *)
LexLess(a, b) ==
  \E i \in DOMAIN a : a[i] < b[i] /\ \A j \in 1..(i - 1) : a[j] = b[j]
KeyBytes(key) == ShortHead(key.kind, Argument(key.kind, key.content)) \o Payload(key.kind, key.content)
KeyLess(k, l) ==
  LET a == KeyBytes(k) b == KeyBytes(l) IN
  Len(a) < Len(b) \/ (Len(a) = Len(b) /\ LexLess(a, b))

(* Mutated form: the keys of an endless map are not compared.              *)
RepeatsADefiniteKey(frame, key) ==
  frame.left # Endless /\ \E i \in DOMAIN frame.items : i % 2 = 1 /\ SameKey(frame.items[i], key)

RepeatsAKey(frame, key) ==
  \E i \in DOMAIN frame.items : i % 2 = 1 /\ SameKey(frame.items[i], key)

OutOfOrder(frame, key) ==
  strict /\ frame.items # <<>> /\ ~KeyLess(frame.items[Len(frame.items) - 1], key)

(* Mutated form: indefinite lengths and floats only.                       *)
NotDefinite(h) == h.form = "endless" \/ h.kind \in {"float", "nan"}
(* What a strict decoder refuses in a head.                                *)
NotDeterministic(h) == h.form # "short" \/ h.kind \in {"float", "nan"}

Stop(how) == outcome' = how /\ UNCHANGED <<stack, value>>

(* An item is returned to the activation that asked for it.                *)
Deliver(v, callers) ==
  IF callers = <<>> THEN stack' = <<>> /\ value' = v /\ UNCHANGED outcome
  ELSE LET caller == callers[Len(callers)] IN
    CASE AtKey(caller) /\ v.kind \in {"array", "map", "tag"} -> Stop("malformed")
      [] AtKey(caller) /\ v.kind \notin {"array", "map", "tag"} /\ RepeatsAKey(caller, v) ->
           Stop("duplicate")
      [] AtKey(caller) /\ v.kind \notin {"array", "map", "tag"} /\ ~RepeatsAKey(caller, v)
         /\ OutOfOrder(caller, v) -> Stop("malformed")
      [] OTHER ->
           /\ stack' = [callers EXCEPT ![Len(callers)] =
                          [caller EXCEPT !.items = Append(@, v),
                                         !.left = IF @ = Endless THEN @ ELSE @ - 1]]
           /\ UNCHANGED <<value, outcome>>

UnchangedCall == UNCHANGED <<strict, entry, phase, outer>>

(* Mutated form: the limit itself is refused.                              *)
RefuseAtLimit ==
  /\ ItemExpected
  /\ Len(stack) >= MaxDepth \/ budget = 0
  /\ outcome' = "too_large"
  /\ UnchangedCall /\ UNCHANGED <<data, stack, budget, value>>

(* The checks at the head of _decode_item: depth, then the shared budget.  *)
Refuse ==
  /\ ItemExpected
  /\ Len(stack) > MaxDepth \/ budget = 0
  /\ outcome' = "too_large"
  /\ UnchangedCall /\ UNCHANGED <<data, stack, budget, value>>

(* Mutated form: items that hold no others are free.                       *)
ReadChargingContainers(h) ==
  /\ ItemExpected
  /\ Len(stack) <= MaxDepth /\ budget > 0
  /\ Len(data) < MaxHeads[phase]
  /\ data' = Append(data, h)
  /\ budget' = IF h.kind \in Opened \ {"bytes", "text"} THEN budget - 1 ELSE budget

Read(h) ==
  /\ ItemExpected
  /\ Len(stack) <= MaxDepth /\ budget > 0
  /\ Len(data) < MaxHeads[phase]
  /\ data' = Append(data, h)
  /\ budget' = budget - 1

InString == stack # <<>> /\ IsString(Top)
ChunkFits(h) == h.kind = Top.kind /\ h.form # "endless"

(* A head that ends the call: ill-formed, not deterministic, a break where *)
(* none is allowed, or the wrong chunk in a string.                        *)
IsRefused(h) ==
  \/ h.kind = "broken"
  \/ h.kind = "break" /\ ~BreakAllowed
  \/ strict /\ NotDeterministic(h) /\ h.kind # "break"
  \/ InString /\ ~ChunkFits(h)

ReadRefused(h) ==
  /\ IsRefused(h) /\ (InString => h.kind # "break")
  /\ Read(h)
  /\ Stop("malformed")
  /\ UnchangedCall

ReadLeaf(h) ==
  /\ ~IsRefused(h)
  /\ h.kind \in Leaves /\ h.form # "endless"
  /\ Read(h)
  /\ Deliver(Item(h.kind, h.content, <<>>), stack)
  /\ UnchangedCall

ReadOpening(h) ==
  /\ ~IsRefused(h)
  /\ h.kind \in Opened
  /\ h.kind \in {"bytes", "text"} => h.form = "endless"
  /\ Read(h)
  /\ stack' = Append(stack, Frame(h))
  /\ UnchangedCall /\ UNCHANGED <<value, outcome>>

(* The break of an array or map is an item of its own to the budget.       *)
ReadBreak ==
  /\ BreakAllowed
  /\ Break \in Heads
  /\ Read(Break)
  /\ stack' = WithTop([Top EXCEPT !.left = 0])
  /\ UnchangedCall /\ UNCHANGED <<value, outcome>>

(* The break of a string is looked for before _decode_item is called.      *)
ReadStringBreak ==
  /\ outcome = "decoding" /\ InString
  /\ Top.left = Endless
  /\ Break \in Heads
  /\ Len(data) < MaxHeads[phase]
  /\ data' = Append(data, Break)
  /\ stack' = WithTop([Top EXCEPT !.left = 0])
  /\ UnchangedCall /\ UNCHANGED <<budget, value, outcome>>

(* A definite item is complete, or a break was read: it is returned.  The  *)
(* chunks of a string are joined.                                          *)
Joined(items) ==
  [k \in 1..Len(items) |-> items[k].content]
Return ==
  /\ IsRunning /\ stack # <<>> /\ IsComplete(Top)
  /\ LET content == IF IsString(Top) THEN FlattenSeq(Joined(Top.items)) ELSE Top.content
         items == IF IsString(Top) THEN <<>> ELSE Top.items
     IN Deliver(Item(Top.kind, content, items), Below)
  /\ UnchangedCall /\ UNCHANGED <<data, budget>>

(* The input ends within an item; a chunk of a string is looked for before *)
(* its depth and the budget are checked.                                   *)
Truncated ==
  /\ ItemExpected
  /\ InString \/ (Len(stack) <= MaxDepth /\ budget > 0)
  /\ Stop("truncated")
  /\ UnchangedCall /\ UNCHANGED <<data, budget>>

(* _decode_exact: nothing may follow the item.                             *)
Trailing ==
  /\ outcome = "decoding" /\ value # Nothing
  /\ Len(data) < MaxHeads[phase]
  /\ \E h \in Heads : data' = Append(data, h)
  /\ Stop("malformed")
  /\ UnchangedCall /\ UNCHANGED budget

AcceptItem ==
  /\ outcome = "decoding" /\ value # Nothing /\ phase = "item"
  /\ Stop("accepted")
  /\ UnchangedCall /\ UNCHANGED <<data, budget>>

(* decode_cose_sign1: tag 18 over protected bytes, unprotected map, payload*)
(* bytes or nil, signature bytes.                                          *)
Nil == Item("const", <<22>>, <<>>)
IsSign1(v) ==
  /\ v.kind = "tag" /\ v.content = <<18>>
  /\ v.items[1].kind = "array" /\ Len(v.items[1].items) = 4
  /\ LET part == v.items[1].items IN
     /\ part[1].kind = "bytes"
     /\ part[2].kind = "map"
     /\ part[3] = Nil \/ part[3].kind = "bytes"
     /\ part[4].kind = "bytes"

AcceptOuter ==
  /\ outcome = "decoding" /\ value # Nothing /\ phase = "sign1"
  /\ outer' = value
  /\ CASE ~IsSign1(value) -> Stop("malformed") /\ UNCHANGED <<phase, data, budget>>
       [] IsSign1(value) /\ value.items[1].items[1].content = <<>> ->
            Stop("accepted") /\ UNCHANGED <<phase, data, budget>>
       [] OTHER -> /\ phase' = "protected"
                   /\ data' = <<>> /\ stack' = <<>> /\ value' = Nothing
                   /\ budget' = MaxItems
                   /\ UNCHANGED outcome
  /\ UNCHANGED <<strict, entry>>

AcceptProtected ==
  /\ outcome = "decoding" /\ value # Nothing /\ phase = "protected"
  /\ Stop(IF value.kind = "map" THEN "accepted" ELSE "malformed")
  /\ UnchangedCall /\ UNCHANGED <<data, budget>>

(* decode_cose_sign1 refuses an input of more than MAX_COSE_BYTES unread.  *)
Oversize ==
  /\ outcome = "decoding" /\ phase = "sign1" /\ data = <<>>
  /\ Stop("malformed")
  /\ UnchangedCall /\ UNCHANGED <<data, budget>>

Init ==
  /\ strict \in BOOLEAN
  /\ entry \in {"item", "sign1"}
  /\ phase = entry
  /\ data = <<>>
  /\ stack = <<>>
  /\ budget = MaxItems
  /\ value = Nothing
  /\ outer = Nothing
  /\ outcome = "decoding"

Next ==
  \/ Refuse
  \/ \E h \in Heads : ReadRefused(h) \/ ReadLeaf(h) \/ ReadOpening(h)
  \/ ReadBreak \/ ReadStringBreak
  \/ Return
  \/ Truncated \/ Trailing \/ Oversize
  \/ AcceptItem \/ AcceptOuter \/ AcceptProtected

Spec == Init /\ [][Next]_vars

-----------------------------------------------------------------------------
(* The items at a depth within v, v itself at 0, each with its address: the*)
(* positions that lead to it.                                              *)
Places(v, depth) ==
  LET places[d \in 0..depth] ==
        IF d = 0 THEN {<<<<>>, v>>}
        ELSE UNION {{<<Append(p[1], i), p[2].items[i]>> : i \in DOMAIN p[2].items} :
                      p \in places[d - 1]}
  IN places[depth]

Level(v, depth) == {p[2] : p \in Places(v, depth)}
Addresses(v) == {p[1] : p \in UNION {Places(v, d) : d \in 0..MaxDepth}}

KeysDiffer(items) ==
  \A i, j \in DOMAIN items :
    i < j /\ i % 2 = 1 /\ j % 2 = 1 /\ items[i].kind # "nan" => items[i] # items[j]

(* In everything accepted, the statement and its protected header both, no *)
(* map has two keys that are the same data item, so that CborMap.get       *)
(* answers for the only member there is; a NaN is the one key that may     *)
(* stand twice.                                                            *)
KeysAreDistinct ==
  outcome = "accepted" =>
    \A v \in {value, outer} : \A d \in 0..MaxDepth :
      \A x \in Level(v, d) : x.kind = "map" => KeysDiffer(x.items)

(* The limits are exact: nothing accepted has a level more than they allow,*)
(* whatever its shape, and an input of fewer heads and levels is never     *)
(* refused for its size.                                                   *)
LimitsAreExact ==
  /\ outcome = "accepted" => \A v \in {value, outer} : Level(v, MaxDepth + 1) = {}
  /\ outcome = "too_large" => Len(data) >= MaxItems \/ Len(stack) = MaxDepth + 1

(* One budget is shared by all the levels of an item, and each of the two  *)
(* items of a statement has one: what was accepted has no more items in it *)
(* than the budget allows, whatever its shape.                             *)
ItemsAreCounted ==
  outcome = "accepted" => \A v \in {value, outer} : Cardinality(Addresses(v)) <= MaxItems
=============================================================================
