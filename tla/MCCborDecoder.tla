--------------------------- MODULE MCCborDecoder ---------------------------
(***************************************************************************)
(* Heads for single items, for statements and for protected headers.       *)
(***************************************************************************)
EXTENDS CborGrammar

Short(kind, n) == ItemHead(kind, <<n>>, "short")
Unsized(kind) == ItemHead(kind, <<>>, "endless")
String(kind, content) == ItemHead(kind, content, "short")

MCItemHeads ==
  {Short("uint", 1), Short("uint", 24), Short("nan", 25),
   String("bytes", <<7>>), String("text", <<97>>),
   Short("array", 0), Short("map", 2), Short("tag", 18),
   Unsized("array"), Unsized("map"), Unsized("bytes"), Break, Broken}

MCSign1Heads ==
  {Short("tag", 18), Short("array", 4), String("bytes", <<>>), String("bytes", <<1>>),
   Short("map", 0), Short("const", 22)}

MCProtectedHeads ==
  {Short("map", 1), Unsized("map"), Break, Short("uint", 1), ItemHead("uint", <<1>>, "long"),
   ItemHead("simple", <<20>>, "long")}

MCMaxHeads == [item |-> 6, sign1 |-> 6, protected |-> 7]
=============================================================================
