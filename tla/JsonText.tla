------------------------------ MODULE JsonText ------------------------------
(***************************************************************************)
(* json.cpp: the loader of JSON texts, iteration by iteration of its five  *)
(* mutually recursive functions, and the printer.  A text is a sequence of *)
(* symbols: punctuation, the escape letters, digits, and words, runs of    *)
(* characters none of these functions takes apart.  What operator>> or get *)
(* leaves in a char that was never written to is any symbol.               *)
(***************************************************************************)
EXTENDS Integers, Sequences, SequencesExt

CONSTANTS
  Nodes,      (* documents that are printed and loaded again               *)
  Texts,      (* other texts                                               *)
  Members,    (* [key, first, second]: dictionaries that give a key twice  *)
  Symbols

Quote     == "\""
Backslash == "\\"
Tab       == "\t"
Newline   == "\n"
Return    == "\r"
Blank     == {" ", Tab, Newline, Return}

DigitRow  == <<"0", "1", "2", "3", "4", "5", "6", "7", "8", "9">>
Digits    == ToSet(DigitRow)
Minus     == "-"
Plus      == "+"
Point     == "."
Words     == {"null", "true", "false"}

Leaf(value)   == [kind |-> "leaf", value |-> value]
Null          == Leaf(<<"null">>)
Bool(text)    == Leaf(<<"bool", text>>)
String(s)     == Leaf(<<"string", s>>)
ArrayOf(a)    == [kind |-> "array", elements |-> a]
DictOf(m)     == [kind |-> "dict", members |-> m]

-----------------------------------------------------------------------------
(* Numbers: int and double both hold a decimal, which is 0.d1 d2 ... times *)
(* 10^exp (a double tells those of up to 15 digits apart).  A double may   *)
(* also be no number, or infinite.                                         *)

Decimal(negative, digits, exp) ==
  LET significant == {k \in DOMAIN digits : digits[k] # "0"}
  IN  IF significant = {} THEN [negative |-> negative, digits |-> <<>>, exp |-> 0]
      ELSE [negative |-> negative,
            digits   |-> SubSeq(digits, Min(significant), Max(significant)),
            exp      |-> exp + 1 - Min(significant)]

IsZero(d) == d.digits = <<>>
IsWhole(d) == d.exp >= Len(d.digits)

DigitValue(c) == CHOOSE n \in 0 .. 9 : DigitRow[n + 1] = c

Beyond(d, limit) ==
  \/ d.exp > limit.exp
  \/ /\ d.exp = limit.exp
     /\ \E k \in DOMAIN d.digits :
          /\ k <= Len(limit.digits) + 1
          /\ SubSeq(d.digits, 1, k - 1) = SubSeq(limit.digits, 1, k - 1)
          /\ k \in DOMAIN limit.digits => DigitValue(d.digits[k]) > DigitValue(limit.digits[k])

Limit(digits, exp) == [digits |-> digits, exp |-> exp]

LastInt(negative) ==
  Limit(<<"2", "1", "4", "7", "4", "8", "3", "6", "4", IF negative THEN "8" ELSE "7">>, 10)

LastDouble ==
  Limit(<<"1", "7", "9", "7", "6", "9", "3", "1", "3", "4", "8", "6", "2", "3", "1", "5", "8">>,
        309)
FirstDouble ==
  Limit(<<"2", "2", "2", "5", "0", "7", "3", "8", "5", "8", "5", "0", "7", "2", "0", "1", "4">>,
        -307)

(* What is too large for a double, or so small that it is not precise.     *)
OutOfRange(d) == Beyond(d, LastDouble) \/ (~ IsZero(d) /\ Beyond(FirstDouble, d))

-----------------------------------------------------------------------------
(* operator<< of a double: six significant digits, without zeros behind    *)
(* them; an exponent if there were more than six digits before the point,  *)
(* or more than three zeros behind it.  (Between two such numbers, at the  *)
(* very middle, the binary digits decide: no document is taken there.)     *)

DigitAfter(c) == DigitRow[DigitValue(c) + 2]

Rounded(d) ==
  LET not_nine == {k \in 1 .. 6 : d.digits[k] # "9"}
      last     == Max(not_nine)
      raised   == Append(SubSeq(d.digits, 1, last - 1), DigitAfter(d.digits[last]))
  IN  IF Len(d.digits) <= 6 THEN d
      ELSE IF DigitValue(d.digits[7]) < 5 THEN Decimal(d.negative, SubSeq(d.digits, 1, 6), d.exp)
      ELSE IF not_nine = {} THEN Decimal(d.negative, <<"1">>, d.exp + 1)
      ELSE Decimal(d.negative, raised, d.exp)

Zeros(n) == [k \in 1 .. n |-> "0"]

PrintFixed(d) ==
  IF d.exp < Len(d.digits) /\ d.exp > 0
    THEN SubSeq(d.digits, 1, d.exp) \o <<Point>> \o SubSeq(d.digits, d.exp + 1, Len(d.digits))
  ELSE IF IsWhole(d) THEN (IF IsZero(d) THEN <<"0">> ELSE d.digits \o Zeros(d.exp - Len(d.digits)))
  ELSE <<"0", Point>> \o Zeros(-d.exp) \o d.digits

PrintExponent(x) ==
  LET size == IF x < 0 THEN -x ELSE x
      three == <<DigitRow[(size \div 100) + 1], DigitRow[((size \div 10) % 10) + 1],
                 DigitRow[(size % 10) + 1]>>
  IN  <<"e", IF x < 0 THEN Minus ELSE Plus>> \o IF size < 100 THEN Tail(three) ELSE three

PrintScientific(d) ==
  <<Head(d.digits)>> \o (IF Len(d.digits) > 1 THEN <<Point>> \o Tail(d.digits) ELSE <<>>)
                     \o PrintExponent(d.exp - 1)

PrintSign(d) == IF d.negative THEN <<Minus>> ELSE <<>>

PrintInt(d) == PrintSign(d) \o PrintFixed(d)

PrintFinite(d) ==
  LET r == Rounded(d)
  IN  PrintSign(r) \o IF IsZero(r) \/ r.exp \in -3 .. 6 THEN PrintFixed(r) ELSE PrintScientific(r)

NotFinite == [negative : BOOLEAN, word : {"nan", "inf"}]

PrintDouble(d) == IF d \in NotFinite THEN PrintSign(d) \o <<d.word>> ELSE PrintFinite(d)

-----------------------------------------------------------------------------
(* JsonOutput.  A dictionary is printed in the order of its keys, of which *)
(* nothing depends here.                                                   *)

Escaped(c) ==
  CASE c = Return    -> <<Backslash, "r">>
    [] c = Newline   -> <<Backslash, "n">>
    [] c = Quote     -> <<Backslash, Quote>>
    [] c = Backslash -> <<Backslash, Backslash>>
    [] OTHER         -> <<c>>

PrintString(s) == <<Quote>> \o FlattenSeq([k \in DOMAIN s |-> Escaped(s[k])]) \o <<Quote>>

PrintLeaf(value) ==
  CASE value[1] = "null"   -> <<"null">>
    [] value[1] = "bool"   -> <<value[2]>>
    [] value[1] = "string" -> PrintString(value[2])
    [] value[1] = "int"    -> PrintInt(value[2])
    [] value[1] = "double" -> PrintDouble(value[2])

Listed(parts, comma) ==
  FlattenSeq([k \in DOMAIN parts |-> IF k = 1 THEN parts[k] ELSE comma \o parts[k]])

RECURSIVE JsonOutput(_)
JsonOutput(node) ==
  CASE node.kind = "leaf"  -> PrintLeaf(node.value)
    [] node.kind = "array" ->
         <<"[">> \o Listed([k \in DOMAIN node.elements |-> JsonOutput(node.elements[k])], <<",">>)
                 \o <<"]">>
    [] node.kind = "dict"  ->
         LET keys == SetToSeq(DOMAIN node.members)
         IN  <<"{">> \o Listed([k \in DOMAIN keys |->
                PrintString(keys[k]) \o <<":", " ">> \o JsonOutput(node.members[keys[k]])],
                <<",", " ">>) \o <<"}">>

Twice(m) ==
  <<"{">> \o PrintString(m.key) \o <<":">> \o JsonOutput(m.first) \o <<",">>
          \o PrintString(m.key) \o <<":">> \o JsonOutput(m.second) \o <<"}">>

-----------------------------------------------------------------------------
VARIABLES
  origin,    (* where the text is from, for the properties only            *)
  input,     (* the text                                                   *)
  pos,       (* the symbol that is read next                               *)
  frames,    (* the calls that have not returned, outermost first          *)
  mode,      (* "call": LoadNode begins; "run": the innermost frame goes   *)
             (* on; "return": it gets value; "done" or an exception        *)
  value      (* what the last call returned                                *)

vars == <<origin, input, pos, frames, mode, value>>

Origins ==
       [kind : {"printed"}, node : Nodes]
  \cup UNION {[kind : {"cut"}, node : {n}, at : 0 .. Len(JsonOutput(n)) - 1] : n \in Nodes}
  \cup [kind : {"twice"}, members : Members]
  \cup [kind : {"text"}, text : Texts]

TextOf(o) ==
  CASE o.kind = "printed" -> JsonOutput(o.node)
    [] o.kind = "cut"     -> SubSeq(JsonOutput(o.node), 1, o.at)
    [] o.kind = "twice"   -> Twice(o.members)
    [] o.kind = "text"    -> o.text

Init ==
  /\ origin \in Origins
  /\ input = TextOf(origin)
  /\ pos = 1
  /\ frames = <<>>
  /\ mode = "call"
  /\ value = Null

-----------------------------------------------------------------------------
(* Reading: get takes the next symbol, operator>> the next but blanks.     *)
(* A stream at its end stays there; putback has no effect on it then.      *)

Skipped(p) == CHOOSE q \in p .. Len(input) + 1 :
                /\ \A k \in p .. q - 1 : input[k] \in Blank
                /\ q = Len(input) + 1 \/ input[q] \notin Blank

End == ""
Symbol(p) == IF p > Len(input) THEN End ELSE input[p]

here == Skipped(pos)
AtEnd == Symbol(here) = End
Behind(p) == IF Symbol(p) = End THEN p ELSE p + 1

Top == frames[Len(frames)]
Running(fn) == mode = "run" /\ Top.fn = fn
Turn(frame) == frames' = Append(Front(frames), frame)

Enter(frame) == frames' = Append(frames, frame) /\ mode' = "run" /\ UNCHANGED value
Give(node) == frames' = Front(frames) /\ mode' = "return" /\ value' = node
Throw(error) == mode' = error /\ UNCHANGED <<frames, value>>

-----------------------------------------------------------------------------
(* LoadNode: q is the position behind the symbol c.                        *)

Dispatch(c, q) ==
  \/ c = "[" /\ pos' = q /\ Enter([fn |-> "array", a |-> <<>>, c |-> ""])
  \/ c = "{" /\ pos' = q /\ Enter([fn |-> "dict", m |-> [k \in {} |-> Null], n_key |-> <<>>, wants |-> ""])
  \/ c = Quote /\ pos' = q /\ Enter([fn |-> "string", s |-> <<>>])
  \/ c \in {"]", "}"} /\ pos' = q /\ Throw("ParsingError")
  \/ /\ c \notin {"[", "{", Quote, "]", "}"}
     /\ pos' = here
     /\ Enter([fn |-> "number", s |-> <<>>])

LoadNode ==
  /\ mode = "call" /\ ~ AtEnd
  /\ Dispatch(Symbol(here), here + 1)
  /\ UNCHANGED <<origin, input>>

LoadNodeAtEnd ==
  /\ mode = "call" /\ AtEnd
  /\ \E c \in Symbols : Dispatch(c, here)
  /\ UNCHANGED <<origin, input>>

-----------------------------------------------------------------------------
(* LoadArray.  Its c is "" as long as nothing was read into it.            *)

Closed(a) == ArrayOf(IF a = <<>> THEN <<Null>> ELSE a)

ArrayElement ==
  /\ Running("array") /\ Symbol(here) \notin {"]", End}
  /\ pos' = IF Symbol(here) = "," THEN here + 1 ELSE here
  /\ Turn([Top EXCEPT !.c = Symbol(here)])
  /\ mode' = "call"
  /\ UNCHANGED <<origin, input, value>>

ArrayEnd ==
  /\ Running("array") /\ Symbol(here) = "]"
  /\ pos' = here + 1
  /\ Give(Closed(Top.a))
  /\ UNCHANGED <<origin, input>>

ArrayAtEndReturned ==
  /\ Running("array") /\ AtEnd
  /\ Give(Closed(Top.a))
  /\ UNCHANGED <<origin, input, pos>>
ArrayAtEnd ==
  /\ Running("array") /\ AtEnd
  /\ \E c \in IF Top.c = "" THEN Symbols ELSE {Top.c} :
       IF c = "]" THEN Give(Closed(Top.a)) ELSE Throw("ParsingError")
  /\ UNCHANGED <<origin, input, pos>>

-----------------------------------------------------------------------------
(* LoadDict: only a brace, a colon and a quote mean something to it, and   *)
(* the end of the text ends it as a brace does.                            *)

DictPeeks ==
  /\ Running("dict") /\ Symbol(pos) \notin {"}", ":", Quote, End}
  /\ UNCHANGED vars
DictIgnored ==
  /\ Running("dict") /\ Symbol(pos) \notin {"}", ":", Quote, End}
  /\ pos' = pos + 1
  /\ UNCHANGED <<origin, input, frames, mode, value>>

DictKey ==
  /\ Running("dict") /\ Symbol(pos) = Quote
  /\ pos' = pos + 1
  /\ frames' = Append(Append(Front(frames), [Top EXCEPT !.wants = "key"]), [fn |-> "string", s |-> <<>>])
  /\ UNCHANGED <<origin, input, mode, value>>

DictValue ==
  /\ Running("dict") /\ Symbol(pos) = ":"
  /\ pos' = pos + 1
  /\ Turn([Top EXCEPT !.wants = "value"])
  /\ mode' = "call"
  /\ UNCHANGED <<origin, input, value>>

DictEnd ==
  /\ Running("dict")
  /\ Symbol(pos) \in {"}", End}
  /\ pos' = Behind(pos)
  /\ Give(DictOf(Top.m))
  /\ UNCHANGED <<origin, input>>

-----------------------------------------------------------------------------
(* LoadString.                                                             *)

Dropped == {Tab, Newline, Return, Quote, Backslash}

Pushed(c) == Turn([Top EXCEPT !.s = IF c \in Dropped THEN @ ELSE Append(@, c)])

Unescaped(c) ==
  CASE c = "r" -> <<Return>>
    [] c = "n" -> <<Newline>>
    [] c = "t" -> <<Tab>>
    [] c \in {Quote, Backslash} -> <<c>>
    [] OTHER -> IF c \in Dropped THEN <<>> ELSE <<c>>

StringPlain ==
  /\ Running("string") /\ Symbol(pos) \notin {Quote, Backslash, End}
  /\ pos' = pos + 1
  /\ Pushed(Symbol(pos))
  /\ UNCHANGED <<origin, input, mode, value>>

StringEscape ==
  /\ Running("string") /\ Symbol(pos) = Backslash /\ Symbol(pos + 1) # End
  /\ pos' = pos + 2
  /\ Turn([Top EXCEPT !.s = @ \o Unescaped(Symbol(pos + 1))])
  /\ UNCHANGED <<origin, input, mode, value>>

StringEnd ==
  /\ Running("string") /\ Symbol(pos) = Quote
  /\ pos' = pos + 1
  /\ Give(String(Top.s))
  /\ UNCHANGED <<origin, input>>

(* The last symbol may be a backslash.                                     *)
StringAtEnd ==
  /\ Running("string")
  /\ Symbol(pos) \in {Backslash, End} /\ Symbol(pos + 1) = End
  /\ pos' = Len(input) + 1
  /\ Throw("ParsingError")
  /\ UNCHANGED <<origin, input>>

-----------------------------------------------------------------------------
(* LoadNumber takes everything up to a comma, a bracket or a brace.        *)

NumberSymbol ==
  /\ Running("number")
  /\ Symbol(here) \notin {",", "]", "}", End}
  /\ pos' = here + 1
  /\ Turn([Top EXCEPT !.s = Append(@, Symbol(here))])
  /\ UNCHANGED <<origin, input, mode, value>>

(* stoi and stod read as much as makes a number and ignore the rest.       *)
Run(s, p) == CHOOSE q \in p .. Len(s) + 1 :
               /\ \A k \in p .. q - 1 : s[k] \in Digits
               /\ q = Len(s) + 1 \/ s[q] \notin Digits

DigitsFrom(s, p) == SubSeq(s, p, Run(s, p) - 1)
CharAt(s, p) == IF p \in DOMAIN s THEN s[p] ELSE End

IsNegative(s) == s[1] = Minus
Whole(s)      == DigitsFrom(s, IF IsNegative(s) THEN 2 ELSE 1)
BehindWhole(s) == Len(Whole(s)) + IF IsNegative(s) THEN 2 ELSE 1

Fraction(s) == IF CharAt(s, BehindWhole(s)) = Point THEN DigitsFrom(s, BehindWhole(s) + 1) ELSE <<>>
BehindFraction(s) ==
  BehindWhole(s) + IF CharAt(s, BehindWhole(s)) = Point THEN 1 + Len(Fraction(s)) ELSE 0

(* An e without a number behind it is not read.                            *)
Exponent(s) ==
  LET p      == BehindFraction(s)
      signed == CharAt(s, p + 1) \in {Plus, Minus}
      size   == FoldLeft(LAMBDA n, c : 10 * n + DigitValue(c), 0,
                         DigitsFrom(s, IF signed THEN p + 2 ELSE p + 1))
  IN  IF CharAt(s, p) \notin {"e", "E"} THEN 0
      ELSE IF CharAt(s, p + 1) = Minus THEN -size ELSE size

(* The letter e of "true" and "false" makes a number a double as well.     *)
IsRealByPoint(s) == Point \in ToSet(s)
IsReal(s) == \E k \in DOMAIN s : s[k] \in {Point, Plus, "e", "E", "true", "false"}

NotANumber(s) == s = <<>> \/ s[1] \notin Digits \cup {Minus}

(* An int has no negative zero.                                            *)
AsInt(d) == [d EXCEPT !.negative = @ /\ ~ IsZero(d)]

Stoi(s) ==
  \E d \in {Decimal(IsNegative(s), Whole(s), Len(Whole(s)))} :
      IF Whole(s) = <<>> THEN Throw("invalid_argument")
      ELSE IF Beyond(d, LastInt(IsNegative(s))) THEN Throw("out_of_range")
      ELSE Give(Leaf(<<"int", AsInt(d)>>))

(* (stod would also read "inf" and "nan", were it asked for them.)         *)
Stod(s) ==
  \E d \in {Decimal(IsNegative(s), Whole(s) \o Fraction(s), Len(Whole(s)) + Exponent(s))} :
      IF Whole(s) \o Fraction(s) = <<>> THEN Throw("invalid_argument")
      ELSE IF OutOfRange(d) THEN Throw("out_of_range")
      ELSE Give(Leaf(<<"double", d>>))

Classified(s) ==
  \/ s = <<"null">> /\ Give(Null)
  \/ s \in {<<"true">>, <<"false">>} /\ Give(Bool(s[1]))
  \/ /\ s \notin {<<w>> : w \in Words}
     /\ IF NotANumber(s) THEN Throw("ParsingError")
        ELSE IF IsReal(s) THEN Stod(s) ELSE Stoi(s)

NumberEnd ==
  /\ Running("number")
  /\ Symbol(here) \in {",", "]", "}", End}
  /\ pos' = IF Symbol(here) = "," THEN here + 1 ELSE here
  /\ Classified(Top.s)
  /\ UNCHANGED <<origin, input>>

-----------------------------------------------------------------------------
(* A call returns to the frame that made it, or to Load.                   *)

ToArray ==
  /\ mode = "return" /\ frames # <<>> /\ Top.fn = "array"
  /\ Turn([Top EXCEPT !.a = Append(@, value)])
  /\ mode' = "run"
  /\ UNCHANGED <<origin, input, pos, value>>

KeyToDict ==
  /\ mode = "return" /\ frames # <<>> /\ Top.fn = "dict" /\ Top.wants = "key"
  /\ Turn([Top EXCEPT !.n_key = value.value[2]])
  /\ mode' = "run"
  /\ UNCHANGED <<origin, input, pos, value>>

(* insert keeps what is there; the key is moved from either way.           *)
Assigned(m, key, node) == [k \in DOMAIN m \cup {key} |-> IF k = key THEN node ELSE m[k]]
Inserted(m, key, node) ==
  IF key \in DOMAIN m THEN m ELSE [k \in DOMAIN m \cup {key} |-> IF k = key THEN node ELSE m[k]]

ValueToDict ==
  /\ mode = "return" /\ frames # <<>> /\ Top.fn = "dict" /\ Top.wants = "value"
  /\ Turn([Top EXCEPT !.m = Inserted(Top.m, Top.n_key, value), !.n_key = <<>>])
  /\ mode' = "run"
  /\ UNCHANGED <<origin, input, pos, value>>

ToLoad ==
  /\ mode = "return" /\ frames = <<>>
  /\ mode' = "done"
  /\ UNCHANGED <<origin, input, pos, frames, value>>

Next ==
  \/ LoadNode \/ LoadNodeAtEnd
  \/ ArrayElement \/ ArrayEnd \/ ArrayAtEnd
  \/ DictIgnored \/ DictKey \/ DictValue \/ DictEnd
  \/ StringPlain \/ StringEscape \/ StringEnd \/ StringAtEnd
  \/ NumberSymbol \/ NumberEnd
  \/ ToArray \/ KeyToDict \/ ValueToDict \/ ToLoad

Spec == Init /\ [][Next]_vars

(* Load runs to its end in one thread that nothing blocks.                 *)
FairSpec == Spec /\ WF_vars(Next)

-----------------------------------------------------------------------------
(* Safety.                                                                 *)

Outcomes == {"done", "ParsingError", "invalid_argument", "out_of_range"}

(* What is left of a document that was printed and loaded: an empty array  *)
(* holds a null; a double keeps six significant digits, and is an int if   *)
(* these are a whole number of less than a million; and the tabs, which    *)
(* the printer leaves as they are, are gone from strings and keys.         *)
NoTabs(s) == SelectSeq(s, LAMBDA c : c # Tab)

ReloadedDouble(d) ==
  IF IsZero(d) \/ (IsWhole(d) /\ d.exp <= 6) THEN <<"int", AsInt(d)>> ELSE <<"double", d>>

ReloadedLeaf(leaf) ==
  CASE leaf[1] = "string" -> <<"string", NoTabs(leaf[2])>>
    [] leaf[1] = "double" -> ReloadedDouble(Rounded(leaf[2]))
    [] OTHER -> leaf

RECURSIVE Reloaded(_)
Reloaded(node) ==
  CASE node.kind = "leaf"  -> Leaf(ReloadedLeaf(node.value))
    [] node.kind = "array" ->
         ArrayOf(IF node.elements = <<>> THEN <<Null>>
                 ELSE [k \in DOMAIN node.elements |-> Reloaded(node.elements[k])])
    [] node.kind = "dict"  ->
         DictOf([key \in {NoTabs(k) : k \in DOMAIN node.members} |->
                   Reloaded(node.members[CHOOSE k \in DOMAIN node.members : NoTabs(k) = key])])

(* A double is lost that is not finite, or that rounding takes below the   *)
(* least number a double holds with all its digits.                        *)
RECURSIVE Reloadable(_)
Reloadable(node) ==
  CASE node.kind = "leaf"  ->
         node.value[1] = "double" =>
           node.value[2] \notin NotFinite /\ ~ OutOfRange(Rounded(node.value[2]))
    [] node.kind = "array" -> \A k \in DOMAIN node.elements : Reloadable(node.elements[k])
    [] node.kind = "dict"  -> \A k \in DOMAIN node.members : Reloadable(node.members[k])

(* What JsonOutput prints, Load takes in whole and makes the document of   *)
(* it that Reloaded says; but it refuses a document with a number in it    *)
(* that is not finite or too small.                                        *)
RoundTrip ==
  (origin.kind = "printed" /\ mode \in Outcomes) =>
    /\ mode = "done" <=> Reloadable(origin.node)
    /\ mode = "done" => value = Reloaded(origin.node) /\ AtEnd

(* Of a key that is given twice the first member stays (json::Builder, in  *)
(* which the second replaces it, does otherwise).                          *)
FirstMemberStays ==
  (origin.kind = "twice" /\ mode \in Outcomes) =>
    LET m == origin.members
    IN  mode = "done" /\ value = DictOf([key \in {m.key} |-> Reloaded(m.first)])

(* An array or a string that breaks off is refused wherever it does, but   *)
(* for a bracket alone, where the loader compares a char nobody wrote to.  *)
CutArrayRefused ==
  (origin.kind = "cut" /\ mode = "done") =>
    LET node == origin.node
    IN  /\ node.kind = "array" => input \in {<<>>, <<"[">>}
        /\ node.kind = "leaf" /\ node.value[1] = "string" => input = <<>>

(* The comment above ParsingError says it is thrown at every error of a    *)
(* text, so also at a dictionary that breaks off.                          *)
CutDictRefused ==
  (origin.kind = "cut" /\ origin.node.kind = "dict" /\ input # <<>>) => mode # "done"

(* Liveness: the loader returns or throws, whatever the text.              *)
LoadEnds == <>(mode \in Outcomes)
=============================================================================
