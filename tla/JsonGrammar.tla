----------------------------- MODULE JsonGrammar -----------------------------
(***************************************************************************)
(* What cpb-check says of a text, held against references over the whole   *)
(* text: the grammar of RFC 8259, and the repository's word on names that  *)
(* differ in their normalization form only.  Within a token the scanner is *)
(* looser than the grammar, so the reference is asked both of the text and *)
(* of the text with those tokens put right.                                *)
(***************************************************************************)
EXTENDS CpbCheck

CONSTANTS
  Nfc,        \* the NFC form of a sequence of characters
  Misspelled  \* the string tokens with an escape that JSON does not have

ASSUME MisspelledAssumption ==
  /\ Misspelled \subseteq Spellings
  /\ \A s \in Misspelled : \E w \in Spellings \ Misspelled : Decoded[w] = Decoded[s]

(* Reference: the string tokens and the scalars of RFC 8259.               *)
Strings == Spellings \ Misspelled
JsonScalars == Scalars \ (Misspelled \cup ForeignNumbers)

(* Reference: the token of RFC 8259 that stands for the same value.        *)
Corrected(t) ==
  [i \in DOMAIN t |->
     CASE t[i] = "foreign_int" -> "int"
       [] t[i] = "foreign_float" -> "float"
       [] t[i] \in Misspelled -> CHOOSE w \in Strings : Decoded[w] = Decoded[t[i]]
       [] OTHER -> t[i]]

(* Reference: t[i..j] is a JSON value.                                     *)
RECURSIVE IsJsonValue(_, _, _), IsMembers(_, _, _), IsElements(_, _, _)
IsJsonValue(t, i, j) ==
  \/ i = j /\ t[i] \in JsonScalars
  \/ j = i + 1 /\ <<t[i], t[j]>> \in {<<"{", "}">>, <<"[", "]">>}
  \/ j > i + 1 /\ t[i] = "{" /\ t[j] = "}" /\ IsMembers(t, i + 1, j - 1)
  \/ j > i + 1 /\ t[i] = "[" /\ t[j] = "]" /\ IsElements(t, i + 1, j - 1)
IsMembers(t, i, j) ==
  /\ j >= i + 2 /\ t[i] \in Strings /\ t[i + 1] = ":"
  /\ \/ IsJsonValue(t, i + 2, j)
     \/ \E k \in (i + 3)..(j - 1) :
          t[k] = "," /\ IsJsonValue(t, i + 2, k - 1) /\ IsMembers(t, k + 1, j)
IsElements(t, i, j) ==
  \/ IsJsonValue(t, i, j)
  \/ \E k \in (i + 1)..(j - 1) :
       t[k] = "," /\ IsJsonValue(t, i, k - 1) /\ IsElements(t, k + 1, j)

-----------------------------------------------------------------------------
IsJson(t) == IsJsonValue(t, 1, Len(t))

(* Up to what a token looks like, the scanner accepts the texts of the     *)
(* JSON grammar and raises for every other; of the grammar's texts it      *)
(* raises only for a number int() does not convert.  A text it accepts     *)
(* that is no JSON owes that to a token alone: to a number, which is then  *)
(* reported, or to an escape.                                              *)
AcceptsJsonUpToTokens ==
  /\ outcome = "parsed" =>
       /\ IsJson(Corrected(text))
       /\ IsJson(text)
          \/ found["number_token_form"] > 0
          \/ \E i \in DOMAIN text : text[i] \in Misspelled
  /\ outcome = "error" /\ text # <<>> => ~IsJson(Corrected(text)) \/ text[Len(text)] = "huge"

(* "stdlib json rejects them; accepting them here would mean this scanner  *)
(* and every other parser read different documents, which is the           *)
(* differential this module exists to close" (lib/cpb/_lex.py:259): a text *)
(* cpb-check exits 0 for is JSON, one any parser reads.                    *)
ConformingTextsAreJson ==
  args = "record" /\ status = 0 => IsJson(text)

SameNfc(a, b) == Nfc[a] = Nfc[b]

(* "Two keys that differ only in normalization form ... are treated as     *)
(* duplicates" (vectors/CANONICALIZATION_DECLARATION.md:84): a text that   *)
(* repeats a name up to normalization is reported by lex.                  *)
NfcDuplicatesAreReported ==
  outcome = "parsed" /\ Repeats(text, SameNfc) # {} => found["duplicate_key"] > 0
=============================================================================
