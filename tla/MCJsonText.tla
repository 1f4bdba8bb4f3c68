----------------------------- MODULE MCJsonText -----------------------------
(***************************************************************************)
(* An instance of JsonText for TLC: documents with two levels of           *)
(* containers, every text of up to MaxLength symbols of an alphabet, and   *)
(* some longer ones with escapes, blanks and odd numbers.                  *)
(***************************************************************************)
EXTENDS JsonText

CONSTANT MaxLength

MCSymbols == {"[", "]", "{", "}", ",", ":", Quote, "1", "null"}

Alphabet == MCSymbols \cup {Minus}

Strings == {<<>>, <<"a", "]", "}">>, <<Quote, "b", Backslash>>, <<Newline, "n", Return>>, <<Tab, "t">>}

Int32(negative, digits, exp) == Leaf(<<"int", Decimal(negative, digits, exp)>>)
Double(negative, digits, exp) == Leaf(<<"double", Decimal(negative, digits, exp)>>)

Leaves ==
  {Null, Bool("true"), Int32(TRUE, <<"1">>, 1), Double(FALSE, <<"2">>, 1),
   Double(FALSE, <<"5", "5", "6", "1", "1", "0", "8", "7">>, 2)} \cup {String(s) : s \in Strings}

(* Two above and below a million; two around 0.0001, one of which rounding *)
(* carries through its nines; zeros; the greatest and the least double;    *)
(* the least and greatest int; and what is no number.                      *)
Numbers ==
  {Double(FALSE, <<"1">>, 7), Double(FALSE, <<"9", "9", "9", "9", "9", "9">>, 6),
   Double(TRUE, <<"9", "9", "9", "9", "9", "9", "7">>, 6), Double(FALSE, <<"1", "2">>, 1),
   Double(TRUE, <<"1">>, -3), Double(FALSE, <<"1", "2", "3", "4", "5", "9", "6">>, -4),
   Double(FALSE, <<"9", "9", "9", "9", "9", "9", "9">>, -4),
   Double(FALSE, <<"1", "2", "9", "9", "9", "9", "6">>, 2),
   Double(FALSE, <<>>, 0), Double(TRUE, <<>>, 0),
   Double(FALSE, LastDouble.digits, 309), Double(FALSE, FirstDouble.digits, -307),
   Double(FALSE, <<"2", "2", "2", "5", "0", "8">>, -307),
   Int32(FALSE, <<"1">>, 7), Int32(FALSE, <<>>, 0),
   Int32(FALSE, LastInt(FALSE).digits, 10), Int32(TRUE, LastInt(TRUE).digits, 10)}
    \cup {Leaf(<<"double", d>>) : d \in NotFinite}

Few == {Null, Int32(FALSE, <<"1", "2">>, 2), String(<<"}">>)}

Containers(inner) ==
  {ArrayOf(a) : a \in UNION {[1 .. n -> inner] : n \in 0 .. 2}}
    \cup {DictOf(m) : m \in UNION {[keys -> inner] : keys \in SUBSET {<<>>, <<Quote, "k", Tab>>}}}

MCNodes ==
  Leaves \cup Numbers \cup Containers(Leaves)
    \cup {ArrayOf(<<n, Null>>) : n \in Numbers}
    \cup {DictOf([k \in {<<"d">>} |-> n]) : n \in Numbers}
    \cup Containers({ArrayOf(<<>>), ArrayOf(<<DictOf([k \in {} |-> Null])>>)} \cup
                    {DictOf([k \in {<<"d">>} |-> n]) : n \in Few \cup {ArrayOf(<<Null>>)}})

MCMembers == [key : {<<>>, <<"k">>}, first : Few, second : Leaves \cup {ArrayOf(<<>>)}]

MCTexts ==
  UNION {[1 .. n -> Alphabet] : n \in 0 .. MaxLength} \cup
  {<<"[", " ", "1", Tab, "2", ",", Newline, "]">>,
   <<Quote, Backslash, "n", Backslash, "t", Backslash, "r", Backslash, "b", Quote>>,
   <<Quote, Newline, "a", Backslash, Return, Backslash>>,
   <<Minus, Point, "1">>, <<Minus, "true">>, <<"0", "1", Point, "e", "2">>, <<"1", "e", Plus>>,
   <<"1", "E", Minus, "9", "9", "9">>, <<"2", "e", "3", "0", "8">>, <<"1", Plus>>} \cup
  {sign \o SubSeq(LastInt(FALSE).digits, 1, 9) \o more :
     sign \in {<<>>, <<Minus>>, <<"0">>},
     more \in {<<>>, <<"7">>, <<"8">>, <<"9">>, <<"0", "0">>, <<"8", Point, "5">>}} \cup
  {<<"1", "true">>, <<"true", "1">>, <<"{", Quote, "a", Quote, ":", "1", ":", "2", "}">>,
   <<"{", Quote, "a", Quote, ":", "[", "]", ":", "2", "}">>}
=============================================================================
