----------------------------- MODULE JsonScanner -----------------------------
(***************************************************************************)
(* The duplicate-preserving JSON scanner (lib/cpb/_lex.py), one token at a *)
(* time.  The text is drawn token by token as the scanner reads it, so a   *)
(* behaviour is the scan of one text and all texts up to a length are      *)
(* scanned.  A frame of the stack is an activation of _object or _array;   *)
(* whitespace and the characters within a token are abstracted: a string   *)
(* token is a spelling, with the name its escapes decode to, and a number  *)
(* token one of the forms _number tells apart.  Both include spellings     *)
(* JSON does not have: an escape such as \u0x41, which int(hex4, 16)       *)
(* converts, and a number with digits that are not ASCII, which \d in      *)
(* _JSON_NUM_RE matches after the first one.                               *)
(***************************************************************************)
EXTENDS Integers, Sequences

CONSTANTS
  Spellings,  \* string tokens _string returns from
  Decoded,    \* the sequence of characters each of them decodes to
  MaxDepth,   \* _MAX_DEPTH
  MaxTokens,  \* bound: tokens of a text
  MaxWrong    \* bound: a text that goes wrong does so within its first tokens

ASSUME DepthAssumption == MaxDepth \in Nat /\ MaxTokens \in Nat /\ MaxWrong \in Nat

VARIABLES
  text,     \* the tokens read so far
  stack,    \* the activations of _object and _array, outermost first
  depth,    \* _depth
  found,    \* how many violations of each code were recorded
  value,    \* what parse('$') returns
  outcome   \* "scanning", then how lex ended

scannerVars == <<text, stack, depth, found, value, outcome>>

Openers == {"{", "["}
Closers == {"}", "]"}
ForeignNumbers == {"foreign_int", "foreign_float"}
NumberTokens == {"int", "minus_zero", "float", "unsafe", "huge"} \cup ForeignNumbers
Scalars == Spellings \cup NumberTokens \cup {"null"}
Tokens == Openers \cup Closers \cup {",", ":", "junk"} \cup Scalars
Codes == {"duplicate_key", "number_token_form", "unsafe_integer"}

(* A string token starts with a quotation mark: it is none of the others.  *)
ASSUME SpellingsAssumption ==
  Spellings \cap (Openers \cup Closers \cup {",", ":", "junk", "null"} \cup NumberTokens) = {}

(* A value: its kind and the members or elements it has, in order.         *)
Tree(kind, items) == [kind |-> kind, items |-> items]
Nothing == Tree("nothing", <<>>)
Item(name, v) == [name |-> name, value |-> v]

(* result[key] = val: the last value of a repeated name wins and keeps the *)
(* place of the first.                                                     *)
Assign(items, name, v) ==
  IF \E i \in DOMAIN items : items[i].name = name
  THEN [i \in DOMAIN items |-> IF items[i].name = name THEN Item(name, v) ELSE items[i]]
  ELSE Append(items, Item(name, v))

Top == stack[Len(stack)]
Below == SubSeq(stack, 1, Len(stack) - 1)
WithTop(frame) == Append(Below, frame)
(* Mutated form: an object is compared with the names of the one around it *)
(* too.                                                                    *)
FrameWithOuterNames(opener) ==
  [kind |-> IF opener = "{" THEN "object" ELSE "array", items |-> <<>>,
   seen |-> IF stack = <<>> THEN {} ELSE Top.seen, first |-> TRUE, awaits |-> "item", key |-> ""]

Frame(opener) ==
  [kind |-> IF opener = "{" THEN "object" ELSE "array",
   items |-> <<>>, seen |-> {}, first |-> TRUE, awaits |-> "item", key |-> ""]

InObject == stack # <<>> /\ Top.kind = "object"
InArray == stack # <<>> /\ Top.kind = "array"

(* parse is called: at the start, after a colon, after a comma in an array *)
(* and for the first element of one.                                       *)
ValueExpected ==
  \/ stack = <<>> /\ value = Nothing
  \/ stack # <<>> /\ Top.awaits = "value"
  \/ InArray /\ Top.awaits = "item" /\ Top.first

(* A name is expected: first in an object, or after a comma.               *)
NameExpected ==
  InObject /\ (Top.awaits = "key" \/ (Top.awaits = "item" /\ Top.first))

(* A value returns to the activation that called parse.                    *)
Returned(v, callers) ==
  IF callers = <<>> THEN /\ stack' = <<>> /\ value' = v
  ELSE LET caller == callers[Len(callers)]
           kept == IF caller.kind = "object" THEN Assign(caller.items, caller.key, v)
                   ELSE Append(caller.items, Item("", v))
       IN /\ stack' = [callers EXCEPT ![Len(callers)] =
                         [caller EXCEPT !.items = kept, !.first = FALSE, !.awaits = "item"]]
          /\ UNCHANGED value

(* The number tokens _STRICT_INT_RE does not match.                        *)
LooseForms == {"minus_zero", "float"} \cup ForeignNumbers

(* Mutated form: only the token's form is looked at.                       *)
FormCodeOnly(t) == IF t \in LooseForms THEN {"number_token_form"} ELSE {}

(* _number: the violation a token is recorded for, if any, and the Python  *)
(* value that is returned all the same.                                    *)
NumberCode(t) ==
  CASE t \in LooseForms -> {"number_token_form"}
    [] t = "unsafe" -> {"unsafe_integer"}
    [] OTHER -> {}

ScalarValue(t) ==
  CASE t \in Spellings -> Tree("string", <<Item(Decoded[t], Nothing)>>)
    [] t \in {"minus_zero", "foreign_int"} -> Tree("int", <<>>)
    [] t = "foreign_float" -> Tree("float", <<>>)
    [] OTHER -> Tree(t, <<>>)

Record(codes) == found' = [c \in Codes |-> IF c \in codes THEN found[c] + 1 ELSE found[c]]

Read(t) ==
  /\ outcome = "scanning"
  /\ Len(text) < MaxTokens
  /\ text' = Append(text, t)

(* parse on a string, a literal or a number.  An integer token with more   *)
(* digits than int() converts raises.                                      *)
ReadScalar(t) ==
  /\ ValueExpected
  /\ t \in Scalars \ {"huge"}
  /\ Read(t)
  /\ Record(NumberCode(t))
  /\ Returned(ScalarValue(t), stack)
  /\ UNCHANGED <<depth, outcome>>

(* parse on an opening bracket: _push_depth counts it before the limit is  *)
(* checked.                                                                *)
Open(t) ==
  /\ ValueExpected
  /\ t \in Openers
  /\ Read(t)
  /\ depth' = depth + 1
  /\ IF depth' > MaxDepth
     THEN outcome' = "too_deep" /\ UNCHANGED stack
     ELSE stack' = Append(stack, Frame(t)) /\ UNCHANGED outcome
  /\ UNCHANGED <<found, value>>

Matches(t, frame) == t = IF frame.kind = "object" THEN "}" ELSE "]"

(* Mutated form: the depth is lowered for objects only.                    *)
CloseKeepingDepth(t) ==
  /\ stack # <<>> /\ Top.awaits = "item"
  /\ t \in Closers /\ Matches(t, Top)
  /\ Read(t)
  /\ depth' = IF Top.kind = "object" THEN depth - 1 ELSE depth
  /\ Returned(Tree(Top.kind, Top.items), Below)
  /\ UNCHANGED <<found, outcome>>

(* A closing bracket at the head of the loop; `finally` lowers the depth.  *)
Close(t) ==
  /\ stack # <<>> /\ Top.awaits = "item"
  /\ t \in Closers /\ Matches(t, Top)
  /\ Read(t)
  /\ depth' = depth - 1
  /\ Returned(Tree(Top.kind, Top.items), Below)
  /\ UNCHANGED <<found, outcome>>

(* Mutated form: after a comma an object may also end.                     *)
TrailingComma ==
  /\ stack # <<>> /\ Top.awaits = "item" /\ ~Top.first
  /\ Read(",")
  /\ stack' = WithTop([Top EXCEPT !.awaits = IF Top.kind = "object" THEN "item" ELSE "value",
                                  !.first = TRUE])
  /\ UNCHANGED <<depth, found, value, outcome>>

(* A comma, before every item but the first.                               *)
Comma ==
  /\ stack # <<>> /\ Top.awaits = "item" /\ ~Top.first
  /\ Read(",")
  /\ stack' = WithTop([Top EXCEPT !.awaits = IF Top.kind = "object" THEN "key" ELSE "value"])
  /\ UNCHANGED <<depth, found, value, outcome>>

ReadName(t) ==
  /\ NameExpected
  /\ t \in Spellings
  /\ Read(t)
  /\ stack' = WithTop([Top EXCEPT !.key = Decoded[t], !.first = FALSE, !.awaits = "colon"])
  /\ UNCHANGED <<depth, found, value, outcome>>

(* The colon; the decoded name is compared with those seen in this object  *)
(* before the member's value is parsed.                                    *)
Colon ==
  /\ InObject /\ Top.awaits = "colon"
  /\ Read(":")
  /\ Record(IF Top.key \in Top.seen THEN {"duplicate_key"} ELSE {})
  /\ stack' = WithTop([Top EXCEPT !.seen = @ \cup {Top.key}, !.awaits = "value"])
  /\ UNCHANGED <<depth, value, outcome>>

(* The token t is one the scanner has a branch for.                        *)
Expected(t) ==
  \/ ValueExpected /\ t \in Openers \cup (Scalars \ {"huge"})
  \/ stack # <<>> /\ Top.awaits = "item" /\ t \in Closers /\ Matches(t, Top)
  \/ stack # <<>> /\ Top.awaits = "item" /\ ~Top.first /\ t = ","
  \/ NameExpected /\ t \in Spellings
  \/ InObject /\ Top.awaits = "colon" /\ t = ":"

(* Anything else raises ValueError: also after the top-level value.        *)
Unexpected(t) ==
  /\ ~Expected(t)
  /\ Len(text) < MaxWrong
  /\ Read(t)
  /\ outcome' = "error"
  /\ UNCHANGED <<stack, depth, found, value>>

EndOfText ==
  /\ outcome = "scanning"
  /\ outcome' = IF stack = <<>> /\ value # Nothing THEN "parsed" ELSE "error"
  /\ UNCHANGED <<text, stack, depth, found, value>>

ScannerInit ==
  /\ text = <<>>
  /\ stack = <<>>
  /\ depth = 0
  /\ found = [c \in Codes |-> 0]
  /\ value = Nothing
  /\ outcome = "scanning"

ScannerNext ==
  \/ \E t \in Tokens :
       ReadScalar(t) \/ Open(t) \/ Close(t) \/ ReadName(t) \/ Unexpected(t)
  \/ Comma
  \/ Colon
  \/ EndOfText
=============================================================================
