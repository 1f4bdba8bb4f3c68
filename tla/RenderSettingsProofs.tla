------------------------ MODULE RenderSettingsProofs ------------------------
(***************************************************************************)
(* The render settings come out of the file as the builder would have made *)
(* them, for every document and whatever the widths of the two unsigned    *)
(* types, as long as one divides the other.                                *)
(***************************************************************************)
EXTENDS RenderSettings, SequenceTheorems, TLAPS

Underlayer == doc["underlayer_color"]

(* What the message holds once n entries of the palette are written.       *)
Message(colour, n) ==
  [numbers |-> [field \in NumberFields |-> doc[field][2]],
   offsets |-> [field \in OffsetFields |-> <<doc[field][2][1][2], doc[field][2][2][2]>>],
   underlayer_color |-> colour,
   color_palette |-> [i \in 1 .. n |-> ColourMessage(Palette[i])]]

(* Nothing that was written so far is at fault.                            *)
NoFaults(n) ==
  /\ NumberFaults(doc) = {} /\ ColourFaults(Underlayer) = {}
  /\ \A i \in 1 .. n : ColourFaults(Palette[i]) = {}

(* What has been written is the document's, as far as the writer has come. *)
WrittenSoFar ==
  /\ stage = "write_numbers" => message = DefaultMessage /\ k = 1
  /\ doc = Absent =>
       message = DefaultMessage /\ stage \notin {"write_underlayer", "write_palette", "threw", "undefined"}
  /\ doc # Absent =>
       /\ stage = "write_underlayer" =>
            k = 1 /\ NumberFaults(doc) = {} /\ message = Message(NoColour, 0)
       /\ stage = "write_palette" =>
            /\ k \in 1 .. Len(Palette) + 1
            /\ NoFaults(k - 1) /\ message = Message(ColourMessage(Underlayer), k - 1)
       /\ stage \in {"set_numbers", "set_underlayer", "set_palette", "done"} =>
            NoFaults(Len(Palette)) /\ message = Message(ColourMessage(Underlayer), Len(Palette))
       /\ stage \in {"threw", "undefined"} => stage \in BuilderFaults

(* The settings with the first n colours of the message.                   *)
Settings(colour, n) ==
  [numbers |-> message.numbers, offsets |-> message.offsets, underlayer_color |-> colour,
   color_palette |-> [i \in 1 .. n |-> ColourSet(message.color_palette[i])]]

(* What has been read is the message's.                                    *)
ReadSoFar ==
  /\ stage \in {"write_numbers", "write_underlayer", "write_palette", "set_numbers"} =>
       rs = [numbers |-> [field \in NumberFields |-> 0],
             offsets |-> [field \in OffsetFields |-> <<0, 0>>],
             underlayer_color |-> <<"monostate">>,
             color_palette |-> <<>>]
  /\ stage \in {"set_numbers", "set_underlayer"} => k = 1
  /\ stage = "set_underlayer" => rs = Settings(<<"monostate">>, 0)
  /\ stage = "set_palette" =>
       /\ k \in 1 .. Len(message.color_palette) + 1
       /\ rs = Settings(ColourSet(message.underlayer_color), k - 1)
  /\ stage = "done" =>
       rs = Settings(ColourSet(message.underlayer_color), Len(message.color_palette))

(* The inductive invariant: the two facts above hold in every stage.       *)
IInv ==
  /\ doc \in Documents
  /\ stage \in {"write_numbers", "write_underlayer", "write_palette", "set_numbers",
                "set_underlayer", "set_palette", "done", "threw", "undefined"}
  /\ WrittenSoFar /\ ReadSoFar

-----------------------------------------------------------------------------
(* Numbers and sequences.                                                  *)

(* A channel loses nothing by passing through the wider type.              *)
LEMMA NarrowAfterWide ==
  ASSUME NEW a \in Nat \ {0}, NEW b \in Nat \ {0}, b % a = 0, NEW x \in Int
  PROVE  (x % b) % a = x % a
<1> DEFINE r == x % b
<1> DEFINE m == b \div a
<1> DEFINE q == (x \div b) * m + r \div a
<1>1. b = a * m /\ m \in Int
  OBVIOUS
<1>2. x = b * (x \div b) + r /\ r \in Nat /\ x \div b \in Int
  OBVIOUS
<1>3. r = a * (r \div a) + (r % a) /\ r \div a \in Int /\ r % a \in 0 .. a - 1
  BY <1>2
<1>4. x = a * q + (r % a) /\ q \in Int
  <2>1. b * (x \div b) = a * ((x \div b) * m)
    BY <1>1, <1>2
  <2>2. (x \div b) * m \in Int
    BY <1>1, <1>2
  <2>3. a * q = a * ((x \div b) * m) + a * (r \div a)
    <3>1. \A u, v \in Int : a * (u + v) = a * u + a * v
      OBVIOUS
    <3> QED
      BY ONLY <3>1, <2>2, <1>3
  <2>4. q \in Int
    BY <2>2, <1>3
  <2> HIDE DEF r, m, q
  <2> QED
    BY <2>1, <2>3, <2>4, <1>2, <1>3
<1>5. x = a * (x \div a) + (x % a) /\ x \div a \in Int /\ x % a \in 0 .. a - 1
  OBVIOUS
<1> HIDE DEF r, m, q
<1>6. ASSUME NEW u \in Int, NEW v \in Int, NEW s \in 0 .. a - 1, NEW t \in 0 .. a - 1,
             a * u + s = a * v + t
      PROVE  s = t
  <2>1. a * (u - v) = t - s
    BY <1>6
  <2>2. CASE u - v >= 1
    <3>1. a * (u - v) >= a
      BY <2>2
    <3> QED
      BY <3>1, <2>1
  <2>3. CASE u - v <= -1
    <3>1. a * (u - v) <= -a
      BY <2>3
    <3> QED
      BY <3>1, <2>1
  <2>4. CASE u - v = 0
    BY <2>1, <2>4
  <2> QED
    BY <2>2, <2>3, <2>4
<1> QED
  BY <1>3, <1>4, <1>5, <1>6 DEF r

(* Appending the next value of f to a list of its values.                  *)
LEMMA AppendNext ==
  ASSUME NEW f, NEW n \in Nat
  PROVE  Append([i \in 1 .. n |-> f[i]], f[n + 1]) = [i \in 1 .. n + 1 |-> f[i]]
<1> DEFINE S == {f[i] : i \in 1 .. n + 1}
<1>1. [i \in 1 .. n |-> f[i]] \in Seq(S) /\ Len([i \in 1 .. n |-> f[i]]) = n
  OBVIOUS
<1>2. [i \in 1 .. n + 1 |-> f[i]] \in Seq(S) /\ Len([i \in 1 .. n + 1 |-> f[i]]) = n + 1
  OBVIOUS
<1> QED
  BY <1>1, <1>2

(* One fault among the parts of a colour is a first one.                   *)
LEMMA FirstFaultFound ==
  ASSUME NEW n \in 3 .. 4, NEW outcomes, DOMAIN outcomes = 1 .. n,
         FirstFault(outcomes) = {}
  PROVE  \A i \in 1 .. n : outcomes[i] = "read"
<1>1. \A i \in 1 .. n : (\A m \in 1 .. i - 1 : outcomes[m] = "read") => outcomes[i] = "read"
  BY DEF FirstFault
<1>2. outcomes[1] = "read"
  BY <1>1
<1>3. outcomes[2] = "read"
  BY <1>1, <1>2
<1>4. outcomes[3] = "read"
  BY <1>1, <1>2, <1>3
<1>5. n = 4 => outcomes[4] = "read"
  BY <1>1, <1>2, <1>3, <1>4
<1> QED
  BY <1>2, <1>3, <1>4, <1>5

(* The builder finds fault with a colour when the writer does, and the     *)
(* fault the writer stops at is one the builder may stop at.               *)
LEMMA SameFaults ==
  ASSUME NEW node
  PROVE  /\ ColourFaults(node) \subseteq BuiltColourFaults(node)
         /\ ColourFaults(node) = {} => BuiltColourFaults(node) = {}
         /\ BuiltColourFaults(node) \subseteq {"threw", "undefined"}
<1>1. CASE node[1] = "array"
  <2> DEFINE o == PartOutcomes(node)
  <2> DEFINE n == Parts(node[2])
  <2>1. n \in 3 .. 4 /\ DOMAIN o = 1 .. n
    BY DEF Parts, PartOutcomes
  <2>2. \A i \in DOMAIN o : o[i] \in {"threw", "undefined", "read"}
    BY DEF PartOutcomes, PartOutcome
  <2>3. ColourFaults(node) = FirstFault(o) /\ BuiltColourFaults(node) = ToSet(o) \ {"read"}
    BY <1>1 DEF ColourFaults, BuiltColourFaults
  <2>4. FirstFault(o) \subseteq ToSet(o) \ {"read"}
    BY DEF FirstFault, ToSet
  <2>5. FirstFault(o) = {} => ToSet(o) \ {"read"} = {}
    <3>1. HAVE FirstFault(o) = {}
    <3> HIDE DEF o, n
    <3>2. \A i \in 1 .. n : o[i] = "read"
      BY <3>1, <2>1, FirstFaultFound
    <3> QED
      BY <3>2, <2>1 DEF ToSet
  <2>6. ToSet(o) \ {"read"} \subseteq {"threw", "undefined"}
    BY <2>2 DEF ToSet
  <2> QED
    BY <2>3, <2>4, <2>5, <2>6
<1>2. CASE node[1] # "array"
  <2>1. BuiltColourFaults(node) = ColourFaults(node)
    BY <1>2 DEF BuiltColourFaults
  <2>2. ColourFaults(node) \in {{}, {"threw"}}
    BY <1>2 DEF ColourFaults
  <2> QED
    BY <2>1, <2>2
<1> QED
  BY <1>1, <1>2

(* A colour without faults comes out of its message as the builder makes   *)
(* it.                                                                     *)
LEMMA ColourKept ==
  ASSUME NEW node, IsColourNode(node), ColourFaults(node) = {}
  PROVE  ColourSet(ColourMessage(node)) = BuiltColour(node)
<1>1. CASE node[1] = "string"
  <2>1. node = <<"string", node[2]>>
    BY <1>1 DEF IsColourNode, IsNode
  <2>2. ColourMessage(node) = [case |-> "str", value |-> node[2]]
    BY <1>1 DEF ColourMessage
  <2>3. ColourSet(ColourMessage(node)) = <<"string", node[2]>>
    BY <2>2 DEF ColourSet
  <2> QED
    BY <2>1, <2>3, <1>1 DEF BuiltColour
<1>2. CASE node[1] = "array"
  <2> DEFINE e == node[2]
  <2> DEFINE o == PartOutcomes(node)
  <2> DEFINE n == Parts(e)
  <2> DEFINE rgb == <<Channel(e[1]), Channel(e[2]), Channel(e[3])>>
  <2>1. n \in 3 .. 4 /\ DOMAIN o = 1 .. n /\ FirstFault(o) = {}
    BY <1>2 DEF Parts, PartOutcomes, ColourFaults
  <2>2. \A i \in 1 .. n : o[i] = "read"
    <3> HIDE DEF o, n
    <3> QED
      BY <2>1, FirstFaultFound
  <2>3. \A i \in 1 .. 3 : i <= Len(e) /\ FitsInt(e[i])
    BY <2>1, <2>2 DEF PartOutcomes, PartOutcome
  <2>4. \A i \in 1 .. 3 : e[i][2] \in Int
    <3> SUFFICES ASSUME NEW i \in 1 .. 3 PROVE e[i][2] \in Int
      OBVIOUS
    <3>1. e \in Seq(ToSet(e)) /\ \A part \in ToSet(e) : IsNode(part)
      BY <1>2 DEF IsColourNode
    <3>2. i \in DOMAIN e
      BY <3>1, <2>3
    <3>3. IsNode(e[i])
      BY <3>1, <3>2 DEF ToSet
    <3> QED
      BY <3>3, <2>3 DEF IsNode, FitsInt
  <2>5. \A i \in 1 .. 3 : Channel(e[i]) % Uint8 = e[i][2] % Uint8
    <3> SUFFICES ASSUME NEW i \in 1 .. 3
                 PROVE  Channel(e[i]) % Uint8 = e[i][2] % Uint8
      OBVIOUS
    <3>1. e[i][2] \in Int
      BY <2>4
    <3>2. Channel(e[i]) = e[i][2] % Uint32
      BY DEF Channel
    <3>3. Uint8 \in Nat \ {0} /\ Uint32 \in Nat \ {0} /\ Uint32 % Uint8 = 0
      BY SettingsAssumption
    <3> HIDE DEF e
    <3>4. (e[i][2] % Uint32) % Uint8 = e[i][2] % Uint8
      BY <3>1, <3>3, NarrowAfterWide
    <3> QED
      BY <3>2, <3>4
  <2>6. rgb[1] = Channel(e[1]) /\ rgb[2] = Channel(e[2]) /\ rgb[3] = Channel(e[3])
    OBVIOUS
  <2>7. CASE n = 3
    <3>1. ColourMessage(node) = [case |-> "rgb", value |-> rgb]
      BY <1>2, <2>7 DEF ColourMessage
    <3>2. ColourSet(ColourMessage(node)) = <<"rgb", Bytes(rgb)>>
      BY <3>1 DEF ColourSet
    <3>3. BuiltColour(node) = <<"rgb", [i \in 1 .. 3 |-> e[i][2] % Uint8]>>
      BY <1>2, <2>7 DEF BuiltColour
    <3>4. Bytes(rgb) = [i \in 1 .. 3 |-> e[i][2] % Uint8]
      BY <2>5, <2>6 DEF Bytes
    <3> QED
      BY <3>2, <3>3, <3>4
  <2>8. CASE n = 4
    <3> DEFINE rgba == Append(rgb, e[4][2])
    <3>1. ColourMessage(node) = [case |-> "rgba", value |-> rgba]
      BY <1>2, <2>8 DEF ColourMessage
    <3> HIDE DEF rgba
    <3>2. ColourSet(ColourMessage(node)) = <<"rgba", Append(Bytes(rgba), rgba[4])>>
      BY <3>1 DEF ColourSet
    <3> USE DEF rgba
    <3>3. BuiltColour(node) =
            <<"rgba", [i \in 1 .. 4 |-> IF i = 4 THEN e[4][2] ELSE e[i][2] % Uint8]>>
      BY <1>2, <2>8 DEF BuiltColour
    <3>4. rgba[1] = rgb[1] /\ rgba[2] = rgb[2] /\ rgba[3] = rgb[3] /\ rgba[4] = e[4][2]
      OBVIOUS
    <3>5. Bytes(rgba) = [i \in 1 .. 3 |-> e[i][2] % Uint8]
      BY <2>5, <2>6, <3>4 DEF Bytes
    <3> DEFINE f == [i \in 1 .. 4 |-> IF i = 4 THEN e[4][2] ELSE e[i][2] % Uint8]
    <3>6. [i \in 1 .. 3 |-> e[i][2] % Uint8] = [i \in 1 .. 3 |-> f[i]] /\ f[3 + 1] = e[4][2]
      OBVIOUS
    <3>7. Append([i \in 1 .. 3 |-> f[i]], f[3 + 1]) = [i \in 1 .. 3 + 1 |-> f[i]]
      <4> HIDE DEF f
      <4> QED
        BY AppendNext
    <3>8. [i \in 1 .. 3 + 1 |-> f[i]] = f
      OBVIOUS
    <3> HIDE DEF f, rgba
    <3>9. Append(Bytes(rgba), rgba[4]) = f
      BY <3>4, <3>5, <3>6, <3>7, <3>8
    <3> QED
      BY <3>2, <3>3, <3>9 DEF f
  <2> QED
    BY <2>1, <2>7, <2>8
<1>3. CASE node[1] \notin {"string", "array"}
  BY <1>3 DEF ColourFaults
<1> QED
  BY <1>1, <1>2, <1>3

-----------------------------------------------------------------------------
(* The documents, and what the builder refuses of them.                    *)

(* What the assumption says of the colours of the document.                *)
LEMMA DocumentShape ==
  ASSUME doc \in Documents, doc # Absent
  PROVE  /\ IsColourNode(Underlayer)
         /\ Palette \in Seq(ToSet(Palette)) /\ Len(Palette) \in Nat
         /\ DOMAIN Palette = 1 .. Len(Palette)
         /\ \A i \in 1 .. Len(Palette) : IsColourNode(Palette[i])
<1>1. /\ IsColourNode(Underlayer) /\ Palette \in Seq(ToSet(Palette))
      /\ \A c \in ToSet(Palette) : IsColourNode(c)
  BY SettingsAssumption DEF Underlayer, Palette
<1>2. Len(Palette) \in Nat /\ DOMAIN Palette = 1 .. Len(Palette)
  BY <1>1
<1> QED
  BY <1>1, <1>2 DEF ToSet

(* Where the writer stops at a colour, so does the builder.                *)
LEMMA StopsWhereBuilderStops ==
  ASSUME doc \in Documents, doc # Absent, NumberFaults(doc) = {},
         NEW n \in 1 .. Len(Palette) + 1,
         NEW node, node = (<<Underlayer>> \o Palette)[n], ColourFaults(node) # {},
         \A i \in 1 .. n - 1 : ColourFaults((<<Underlayer>> \o Palette)[i]) = {}
  PROVE  ColourFaults(node) \subseteq BuilderFaults
<1> DEFINE colours == <<Underlayer>> \o Palette
<1> DEFINE faulty == {i \in DOMAIN colours : BuiltColourFaults(colours[i]) # {}}
<1>1. Palette \in Seq(ToSet(Palette)) /\ Len(Palette) \in Nat
  BY DocumentShape
<1>2. DOMAIN colours = 1 .. Len(Palette) + 1
  <2> DEFINE S == {Underlayer} \cup ToSet(Palette)
  <2>1. <<Underlayer>> \in Seq(S) /\ Len(<<Underlayer>>) = 1 /\ Palette \in Seq(S)
    BY <1>1
  <2>2. colours \in Seq(S) /\ Len(colours) = Len(Palette) + 1
    BY <2>1, <1>1
  <2> QED
    BY <2>2, <1>1
<1> HIDE DEF colours
<1>3. n \in faulty
  <2>1. BuiltColourFaults(colours[n]) # {}
    BY SameFaults DEF colours
  <2> QED
    BY <2>1, <1>2
<1>4. \A i \in faulty : i \in Nat /\ i >= n
  <2> SUFFICES ASSUME NEW i \in faulty, i < n PROVE FALSE
    BY <1>1, <1>2
  <2>1. i \in 1 .. n - 1
    BY <1>1, <1>2
  <2>2. ColourFaults(colours[i]) = {}
    BY <2>1 DEF colours
  <2> QED
    BY <2>2, SameFaults
<1>5. Min(faulty) = n
  <2> HIDE DEF faulty
  <2>1. n \in faulty /\ \A y \in faulty : n <= y
    BY <1>3, <1>4
  <2>2. \A x \in faulty : (\A y \in faulty : x <= y) => x = n
    BY <1>3, <1>4
  <2> QED
    BY <2>1, <2>2 DEF Min
<1>6. faulty # {}
  BY <1>3
<1>7. BuilderFaults = BuiltColourFaults(colours[Min(faulty)])
  BY <1>6 DEF BuilderFaults, colours, Underlayer
<1> QED
  BY <1>5, <1>7, SameFaults DEF colours

(* If the writer finds nothing wrong, neither does the builder.            *)
LEMMA NothingRefused ==
  ASSUME doc \in Documents, doc # Absent, NoFaults(Len(Palette))
  PROVE  BuilderFaults = {}
<1> DEFINE colours == <<Underlayer>> \o Palette
<1>1. Palette \in Seq(ToSet(Palette)) /\ Len(Palette) \in Nat
  BY DocumentShape
<1>2. /\ DOMAIN colours = 1 .. Len(Palette) + 1 /\ colours[1] = Underlayer
      /\ \A i \in 2 .. Len(Palette) + 1 : colours[i] = Palette[i - 1]
  <2> DEFINE S == {Underlayer} \cup ToSet(Palette)
  <2>1. <<Underlayer>> \in Seq(S) /\ Len(<<Underlayer>>) = 1 /\ Palette \in Seq(S)
    BY <1>1
  <2>2. colours \in Seq(S) /\ Len(colours) = Len(Palette) + 1
    BY <2>1, <1>1
  <2>3. colours[1] = Underlayer /\ \A i \in 2 .. Len(Palette) + 1 : colours[i] = Palette[i - 1]
    BY <2>1, <1>1
  <2> QED
    BY <2>2, <2>3, <1>1
<1> HIDE DEF colours
<1>3. \A i \in DOMAIN colours : BuiltColourFaults(colours[i]) = {}
  <2> SUFFICES ASSUME NEW i \in DOMAIN colours PROVE ColourFaults(colours[i]) = {}
    BY SameFaults
  <2>1. CASE i = 1
    BY <2>1, <1>2 DEF NoFaults
  <2>2. CASE i # 1
    <3>1. i - 1 \in 1 .. Len(Palette) /\ colours[i] = Palette[i - 1]
      BY <2>2, <1>1, <1>2
    <3> QED
      BY <3>1 DEF NoFaults
  <2> QED
    BY <2>1, <2>2
<1> QED
  BY <1>3 DEF BuilderFaults, NoFaults, colours, Underlayer

-----------------------------------------------------------------------------
(* The steps.                                                              *)

(* Operators of the document alone mean the same after a step that keeps it. *)
LEMMA DocumentKept ==
  ASSUME doc' = doc
  PROVE  /\ Palette' = Palette /\ Underlayer' = Underlayer /\ BuilderFaults' = BuilderFaults
         /\ \A n : NoFaults(n)' <=> NoFaults(n)
         /\ \A colour, n : Message(colour, n)' = Message(colour, n)
BY DEF Palette, Underlayer, BuilderFaults, NoFaults, Message

(* It holds before anything is written.                                    *)
LEMMA InitStep ==
  ASSUME Init
  PROVE  IInv
BY DEF Init, IInv, WrittenSoFar, ReadSoFar

(* A step that fails: at a number, or at the first colour at fault.        *)
LEMMA FailStep ==
  ASSUME IInv, doc # Absent, NEW faults, Fails(faults),
         faults \subseteq {"threw", "undefined"}, faults \subseteq BuilderFaults
  PROVE  IInv'
<1>1. stage' \in {"threw", "undefined"} /\ stage' \in BuilderFaults /\ doc' = doc
  BY DEF Fails
<1>2. BuilderFaults' = BuilderFaults
  BY <1>1, DocumentKept
<1>3. WrittenSoFar'
  BY <1>1, <1>2 DEF WrittenSoFar
<1>4. ReadSoFar'
  BY <1>1 DEF ReadSoFar
<1> QED
  BY <1>1, <1>3, <1>4 DEF IInv

(* A colour is refused with an exception or read behind an array's end.    *)
LEMMA ColourFaultsKind ==
  ASSUME NEW node
  PROVE  ColourFaults(node) \subseteq {"threw", "undefined"}
BY SameFaults

(* WriteNumbers keeps it: all numbers are in the message, or one throws.   *)
LEMMA WriteNumbersStep ==
  ASSUME IInv, WriteNumbers
  PROVE  IInv'
<1>1. stage = "write_numbers" /\ doc # Absent /\ doc \in Documents /\ message = DefaultMessage /\ k = 1
  BY DEF IInv, WriteNumbers, WrittenSoFar
<1>2. CASE Fails(NumberFaults(doc))
  <2>1. NumberFaults(doc) \subseteq {"threw", "undefined"}
    BY DEF NumberFaults, FirstFault, OffsetOutcome
  <2>2. NumberFaults(doc) \subseteq BuilderFaults
    BY <1>1 DEF BuilderFaults
  <2> QED
    BY <1>1, <1>2, <2>1, <2>2, FailStep
<1>3. CASE ~ Fails(NumberFaults(doc))
  <2>1. /\ NumberFaults(doc) = {} /\ stage' = "write_underlayer" /\ doc' = doc /\ k' = k /\ rs' = rs
        /\ message' = [message EXCEPT
             !.numbers = [field \in NumberFields |-> doc[field][2]],
             !.offsets = [field \in OffsetFields |->
                            <<doc[field][2][1][2], doc[field][2][2][2]>>]]
    BY <1>3 DEF WriteNumbers
  <2>2. message' = Message(NoColour, 0)
    <3>1. <<>> = [i \in 1 .. 0 |-> ColourMessage(Palette[i])]
      OBVIOUS
    <3> QED
      BY <1>1, <2>1, <3>1 DEF Message, DefaultMessage
  <2>3. WrittenSoFar'
    BY <1>1, <2>1, <2>2, DocumentKept DEF WrittenSoFar
  <2>4. ReadSoFar'
    BY <1>1, <2>1 DEF IInv, ReadSoFar
  <2> QED
    BY <2>1, <2>3, <2>4, <1>1 DEF IInv
<1> QED
  BY <1>2, <1>3

(* NothingToWrite keeps it: the message stays the default one.             *)
LEMMA NothingToWriteStep ==
  ASSUME IInv, NothingToWrite
  PROVE  IInv'
<1>1. /\ stage = "write_numbers" /\ doc = Absent /\ stage' = "set_numbers" /\ doc' = doc
      /\ k' = k /\ message' = message /\ rs' = rs /\ k = 1 /\ message = DefaultMessage
  BY DEF IInv, NothingToWrite, WrittenSoFar
<1>2. WrittenSoFar'
  BY <1>1 DEF WrittenSoFar, DefaultMessage
<1>3. ReadSoFar'
  BY <1>1 DEF IInv, ReadSoFar
<1> QED
  BY <1>1, <1>2, <1>3 DEF IInv

(* WriteUnderlayer keeps it: the numbers are untouched.                    *)
LEMMA WriteUnderlayerStep ==
  ASSUME IInv, WriteUnderlayer
  PROVE  IInv'
<1>1. /\ stage = "write_underlayer" /\ doc # Absent /\ doc \in Documents /\ k = 1
      /\ NumberFaults(doc) = {} /\ message = Message(NoColour, 0)
  BY DEF IInv, WriteUnderlayer, WrittenSoFar
<1>0. Palette \in Seq(ToSet(Palette)) /\ Len(Palette) \in Nat
  BY <1>1, DocumentShape
<1>2. CASE ColourFaults(Underlayer) # {}
  <2>1. Fails(ColourFaults(Underlayer))
    BY <1>2 DEF WriteUnderlayer, Underlayer
  <2>2. (<<Underlayer>> \o Palette)[1] = Underlayer
    <3> DEFINE S == {Underlayer} \cup ToSet(Palette)
    <3>1. <<Underlayer>> \in Seq(S) /\ Len(<<Underlayer>>) = 1 /\ Palette \in Seq(S)
      BY <1>0
    <3> QED
      BY <3>1, <1>0
  <2>3. ColourFaults(Underlayer) \subseteq BuilderFaults
    <3>1. 1 \in 1 .. Len(Palette) + 1
      BY <1>0
    <3>2. \A i \in 1 .. 1 - 1 : ColourFaults((<<Underlayer>> \o Palette)[i]) = {}
      OBVIOUS
    <3>3. ColourFaults((<<Underlayer>> \o Palette)[1]) # {}
      BY <1>2, <2>2
    <3> QED
      BY <1>1, <2>2, <3>1, <3>2, <3>3, StopsWhereBuilderStops
  <2> QED
    BY <1>1, <2>1, <2>3, ColourFaultsKind, FailStep
<1>3. CASE ColourFaults(Underlayer) = {}
  <2>1. /\ stage' = "write_palette" /\ doc' = doc /\ k' = k /\ rs' = rs
        /\ message' = [message EXCEPT !.underlayer_color = ColourMessage(Underlayer)]
    BY <1>3 DEF WriteUnderlayer, Underlayer, Fails
  <2>2. message' = Message(ColourMessage(Underlayer), 0)
    BY <1>1, <2>1 DEF Message
  <2>3. NoFaults(0)
    BY <1>1, <1>3 DEF NoFaults
  <2>4. WrittenSoFar'
    <3>1. k' \in 1 .. Len(Palette) + 1 /\ k' - 1 = 0
      BY <1>0, <1>1, <2>1
    <3> QED
      BY <1>1, <2>1, <2>2, <2>3, <3>1, DocumentKept DEF WrittenSoFar
  <2>5. ReadSoFar'
    BY <1>1, <2>1 DEF IInv, ReadSoFar
  <2> QED
    BY <2>1, <2>4, <2>5, <1>1 DEF IInv
<1> QED
  BY <1>2, <1>3

(* WritePaletteColour keeps it: the palette grows by the next colour.      *)
LEMMA WritePaletteStep ==
  ASSUME IInv, WritePaletteColour, doc # Absent
  PROVE  IInv'
<1>1. /\ stage = "write_palette" /\ doc # Absent /\ doc \in Documents
      /\ k \in 1 .. Len(Palette) + 1 /\ k <= Len(Palette)
      /\ NoFaults(k - 1) /\ message = Message(ColourMessage(Underlayer), k - 1)
  BY DEF IInv, WritePaletteColour, WrittenSoFar
<1>2. Palette \in Seq(ToSet(Palette)) /\ Len(Palette) \in Nat
  BY <1>1, DocumentShape
<1>3. k \in Nat \ {0} /\ k - 1 \in Nat
  BY <1>1, <1>2
<1>4. CASE ColourFaults(Palette[k]) # {}
  <2> DEFINE colours == <<Underlayer>> \o Palette
  <2>1. Fails(ColourFaults(Palette[k]))
    BY <1>4 DEF WritePaletteColour
  <2>2. colours[1] = Underlayer /\ \A i \in 2 .. Len(Palette) + 1 : colours[i] = Palette[i - 1]
    <3> DEFINE S == {Underlayer} \cup ToSet(Palette)
    <3>1. <<Underlayer>> \in Seq(S) /\ Len(<<Underlayer>>) = 1 /\ Palette \in Seq(S)
      BY <1>2
    <3> QED
      BY <3>1, <1>2
  <2> HIDE DEF colours
  <2>3. k + 1 \in 1 .. Len(Palette) + 1 /\ colours[k + 1] = Palette[k]
    BY <2>2, <1>1, <1>2, <1>3
  <2>4. \A i \in 1 .. k : ColourFaults(colours[i]) = {}
    <3> SUFFICES ASSUME NEW i \in 1 .. k PROVE ColourFaults(colours[i]) = {}
      OBVIOUS
    <3>1. CASE i = 1
      BY <3>1, <1>1, <2>2 DEF NoFaults
    <3>2. CASE i # 1
      <4>1. i - 1 \in 1 .. k - 1 /\ colours[i] = Palette[i - 1]
        BY <3>2, <1>1, <1>2, <1>3, <2>2
      <4> QED
        BY <4>1, <1>1 DEF NoFaults
    <3> QED
      BY <3>1, <3>2
  <2>5. NumberFaults(doc) = {}
    BY <1>1 DEF NoFaults
  <2>6. ColourFaults(Palette[k]) \subseteq BuilderFaults
    <3>1. (k + 1) - 1 = k
      BY <1>3
    <3> QED
      BY <1>1, <1>4, <2>3, <2>4, <2>5, <3>1, StopsWhereBuilderStops DEF colours
  <2> QED
    BY <1>1, <2>1, <2>6, ColourFaultsKind, FailStep
<1>5. CASE ColourFaults(Palette[k]) = {}
  <2>1. /\ stage' = stage /\ doc' = doc /\ k' = k + 1 /\ rs' = rs
        /\ message' = [message EXCEPT !.color_palette = Append(message.color_palette, ColourMessage(Palette[k]))]
    BY <1>5 DEF WritePaletteColour, Fails
  <2>2. message' = Message(ColourMessage(Underlayer), k)
    <3> DEFINE f == [i \in 1 .. k |-> ColourMessage(Palette[i])]
    <3>1. Append([i \in 1 .. k - 1 |-> f[i]], f[(k - 1) + 1]) = [i \in 1 .. (k - 1) + 1 |-> f[i]]
      <4> HIDE DEF f
      <4> QED
        BY <1>3, AppendNext
    <3>2. (k - 1) + 1 = k /\ [i \in 1 .. k - 1 |-> f[i]] = [i \in 1 .. k - 1 |-> ColourMessage(Palette[i])]
      BY <1>3
    <3>3. f[k] = ColourMessage(Palette[k]) /\ [i \in 1 .. k |-> f[i]] = f
      BY <1>3
    <3>4. Append(message.color_palette, ColourMessage(Palette[k])) = f
      <4>1. message.color_palette = [i \in 1 .. k - 1 |-> ColourMessage(Palette[i])]
        BY <1>1 DEF Message
      <4> HIDE DEF f
      <4> QED
        BY <4>1, <3>1, <3>2, <3>3
    <3> HIDE DEF f
    <3>5. message' = [Message(ColourMessage(Underlayer), k - 1) EXCEPT !.color_palette = f]
      BY <1>1, <2>1, <3>4
    <3> QED
      BY <3>5 DEF Message, f
  <2>3. NoFaults(k)
    <3>1. \A i \in 1 .. k : i \in 1 .. k - 1 \/ i = k
      BY <1>3
    <3> QED
      BY <1>1, <1>5, <3>1 DEF NoFaults
  <2>4. WrittenSoFar'
    <3>1. k' \in 1 .. Len(Palette) + 1 /\ k' - 1 = k
      BY <1>1, <1>2, <1>3, <2>1
    <3> QED
      BY <1>1, <2>1, <2>2, <2>3, <3>1, DocumentKept DEF WrittenSoFar
  <2>5. ReadSoFar'
    BY <1>1, <2>1 DEF IInv, ReadSoFar
  <2> QED
    BY <2>1, <2>4, <2>5, <1>1 DEF IInv
<1> QED
  BY <1>4, <1>5

(* PaletteWritten keeps it: the message is complete.                       *)
LEMMA PaletteWrittenStep ==
  ASSUME IInv, PaletteWritten, doc # Absent
  PROVE  IInv'
<1>1. /\ stage = "write_palette" /\ doc \in Documents /\ k \in 1 .. Len(Palette) + 1
      /\ k > Len(Palette) /\ stage' = "set_numbers" /\ k' = 1 /\ doc' = doc /\ message' = message
      /\ rs' = rs /\ NoFaults(k - 1) /\ message = Message(ColourMessage(Underlayer), k - 1)
  BY DEF IInv, PaletteWritten, WrittenSoFar
<1>2. k - 1 = Len(Palette)
  BY <1>1, DocumentShape
<1>3. WrittenSoFar'
  BY <1>1, <1>2, DocumentKept DEF WrittenSoFar
<1>4. ReadSoFar'
  BY <1>1 DEF IInv, ReadSoFar
<1> QED
  BY <1>1, <1>3, <1>4 DEF IInv

(* Whether there is a document or not, the palette of a message that has   *)
(* been written is a sequence.                                             *)
LEMMA MessagePalette ==
  ASSUME IInv, stage \in {"set_numbers", "set_underlayer", "set_palette", "done"}
  PROVE  /\ Len(message.color_palette) \in Nat
         /\ message.color_palette = [i \in 1 .. Len(message.color_palette) |-> message.color_palette[i]]
<1>1. CASE doc = Absent
  <2>1. message.color_palette = <<>>
    BY <1>1 DEF IInv, WrittenSoFar, DefaultMessage
  <2> QED
    BY <2>1
<1>2. CASE doc # Absent
  <2>1. doc \in Documents /\ message = Message(ColourMessage(Underlayer), Len(Palette))
    BY <1>2 DEF IInv, WrittenSoFar
  <2>2. Len(Palette) \in Nat
    BY <1>2, <2>1, DocumentShape
  <2> DEFINE f == [i \in 1 .. Len(Palette) |-> ColourMessage(Palette[i])]
  <2>3. message.color_palette = f
    BY <2>1 DEF Message
  <2> HIDE DEF f
  <2>4. f = [i \in 1 .. Len(Palette) |-> f[i]] /\ Len(f) = Len(Palette)
    BY <2>2 DEF f
  <2> QED
    BY <2>2, <2>3, <2>4
<1> QED
  BY <1>1, <1>2

(* A step that reads leaves the message alone, and what is known of it.    *)
LEMMA ReadingKeeps ==
  ASSUME IInv, doc' = doc, message' = message,
         stage \in {"set_numbers", "set_underlayer", "set_palette"},
         stage' \in {"set_numbers", "set_underlayer", "set_palette", "done"}
  PROVE  WrittenSoFar'
<1>1. doc = Absent => message = DefaultMessage
  BY DEF IInv, WrittenSoFar
<1>2. doc # Absent => NoFaults(Len(Palette)) /\ message = Message(ColourMessage(Underlayer), Len(Palette))
  BY DEF IInv, WrittenSoFar
<1>3. DefaultMessage' = DefaultMessage
  BY DEF DefaultMessage
<1> QED
  BY <1>1, <1>2, <1>3, DocumentKept DEF WrittenSoFar

(* SetNumbers keeps it: the numbers are the message's.                     *)
LEMMA SetNumbersStep ==
  ASSUME IInv, SetNumbers
  PROVE  IInv'
<1>1. /\ stage = "set_numbers" /\ stage' = "set_underlayer" /\ doc' = doc /\ k' = k /\ message' = message
      /\ rs' = [rs EXCEPT !.numbers = message.numbers, !.offsets = message.offsets]
      /\ k = 1 /\ doc \in Documents
      /\ rs = [numbers |-> [field \in NumberFields |-> 0],
               offsets |-> [field \in OffsetFields |-> <<0, 0>>],
               underlayer_color |-> <<"monostate">>,
               color_palette |-> <<>>]
  BY DEF IInv, SetNumbers, ReadSoFar
<1>2. rs' = Settings(<<"monostate">>, 0)
  <2>1. <<>> = [i \in 1 .. 0 |-> ColourSet(message.color_palette[i])]
    OBVIOUS
  <2> QED
    BY <1>1, <2>1 DEF Settings
<1>3. Settings(<<"monostate">>, 0)' = Settings(<<"monostate">>, 0)
  BY <1>1 DEF Settings
<1>4. ReadSoFar'
  BY <1>1, <1>2, <1>3 DEF ReadSoFar
<1>5. WrittenSoFar'
  BY <1>1, ReadingKeeps
<1> QED
  BY <1>1, <1>4, <1>5 DEF IInv

(* SetUnderlayer keeps it.                                                 *)
LEMMA SetUnderlayerStep ==
  ASSUME IInv, SetUnderlayer
  PROVE  IInv'
<1>1. /\ stage = "set_underlayer" /\ stage' = "set_palette" /\ doc' = doc /\ k' = k /\ message' = message
      /\ rs' = [rs EXCEPT !.underlayer_color = ColourSet(message.underlayer_color)]
      /\ k = 1 /\ doc \in Documents /\ rs = Settings(<<"monostate">>, 0)
  BY DEF IInv, SetUnderlayer, ReadSoFar
<1>2. rs' = Settings(ColourSet(message.underlayer_color), 0)
  BY <1>1 DEF Settings
<1>3. Settings(ColourSet(message.underlayer_color), 0)' = Settings(ColourSet(message.underlayer_color), 0)
  BY <1>1 DEF Settings
<1>4. k' \in 1 .. Len(message'.color_palette) + 1 /\ k' - 1 = 0
  BY <1>1, MessagePalette
<1>5. ReadSoFar'
  BY <1>1, <1>2, <1>4 DEF ReadSoFar, Settings
<1>6. WrittenSoFar'
  BY <1>1, ReadingKeeps
<1> QED
  BY <1>1, <1>5, <1>6 DEF IInv

(* SetPaletteColour keeps it: one more colour of the message is read.      *)
LEMMA SetPaletteStep ==
  ASSUME IInv, SetPaletteColour
  PROVE  IInv'
<1> DEFINE n == Len(message.color_palette)
<1> DEFINE colour == ColourSet(message.underlayer_color)
<1>1. /\ stage = "set_palette" /\ stage' = stage /\ doc' = doc /\ k' = k + 1 /\ message' = message
      /\ rs' = [rs EXCEPT !.color_palette = Append(rs.color_palette, ColourSet(message.color_palette[k]))]
      /\ k \in 1 .. n + 1 /\ k <= n /\ doc \in Documents /\ rs = Settings(colour, k - 1)
  BY DEF IInv, SetPaletteColour, ReadSoFar
<1>2. n \in Nat /\ k \in Nat \ {0} /\ k - 1 \in Nat /\ k + 1 \in 1 .. n + 1 /\ (k + 1) - 1 = k
  BY <1>1, MessagePalette
<1>3. rs' = Settings(colour, k)
  <2> DEFINE f == [i \in 1 .. k |-> ColourSet(message.color_palette[i])]
  <2>1. Append([i \in 1 .. k - 1 |-> f[i]], f[(k - 1) + 1]) = [i \in 1 .. (k - 1) + 1 |-> f[i]]
    <3> HIDE DEF f
    <3> QED
      BY <1>2, AppendNext
  <2>2. (k - 1) + 1 = k
        /\ [i \in 1 .. k - 1 |-> f[i]] = [i \in 1 .. k - 1 |-> ColourSet(message.color_palette[i])]
    BY <1>2
  <2>3. f[k] = ColourSet(message.color_palette[k]) /\ [i \in 1 .. k |-> f[i]] = f
    BY <1>2
  <2>4. Append(rs.color_palette, ColourSet(message.color_palette[k])) = f
    <3>1. rs.color_palette = [i \in 1 .. k - 1 |-> ColourSet(message.color_palette[i])]
      BY <1>1 DEF Settings
    <3> HIDE DEF f
    <3> QED
      BY <3>1, <2>1, <2>2, <2>3
  <2> HIDE DEF f, colour
  <2>5. rs' = [Settings(colour, k - 1) EXCEPT !.color_palette = f]
    BY <1>1, <2>4
  <2> QED
    BY <2>5 DEF Settings, f
<1>4. ReadSoFar'
  <2>1. ReadSoFar' <=> /\ k' \in 1 .. n + 1
                       /\ rs' = Settings(colour, k' - 1)
    BY <1>1 DEF ReadSoFar, Settings
  <2> QED
    BY <2>1, <1>1, <1>2, <1>3
<1>5. WrittenSoFar'
  BY <1>1, ReadingKeeps
<1> QED
  BY <1>1, <1>4, <1>5 DEF IInv

(* PaletteSet keeps it: no colour of the message is left.                  *)
LEMMA PaletteSetStep ==
  ASSUME IInv, PaletteSet
  PROVE  IInv'
<1> DEFINE n == Len(message.color_palette)
<1>1. /\ stage = "set_palette" /\ stage' = "done" /\ doc' = doc /\ k' = k /\ message' = message /\ rs' = rs
      /\ k \in 1 .. n + 1 /\ k > n /\ doc \in Documents
      /\ rs = Settings(ColourSet(message.underlayer_color), k - 1)
  BY DEF IInv, PaletteSet, ReadSoFar
<1>2. k - 1 = n
  BY <1>1, MessagePalette
<1>3. ReadSoFar'
  BY <1>1, <1>2 DEF ReadSoFar, Settings
<1>4. WrittenSoFar'
  BY <1>1, ReadingKeeps
<1> QED
  BY <1>1, <1>3, <1>4 DEF IInv

(* A step that changes nothing keeps it.                                   *)
LEMMA StutterStep ==
  ASSUME IInv, UNCHANGED vars
  PROVE  IInv'
<1>1. doc' = doc /\ stage' = stage /\ k' = k /\ message' = message /\ rs' = rs
  BY DEF vars
<1>2. DefaultMessage' = DefaultMessage
  BY DEF DefaultMessage
<1>3. WrittenSoFar'
  BY <1>1, <1>2, DocumentKept DEF IInv, WrittenSoFar
<1>4. ReadSoFar'
  BY <1>1 DEF IInv, ReadSoFar, Settings
<1> QED
  BY <1>1, <1>3, <1>4 DEF IInv

(* The writer is between its first and its last step only if there is      *)
(* something to write.                                                     *)
LEMMA InvStep ==
  ASSUME IInv, [Next]_vars
  PROVE  IInv'
<1>1. ASSUME WritePaletteColour \/ PaletteWritten PROVE doc # Absent
  BY <1>1 DEF IInv, WrittenSoFar, WritePaletteColour, PaletteWritten
<1>2. CASE WriteNumbers
  BY <1>2, WriteNumbersStep
<1>3. CASE NothingToWrite
  BY <1>3, NothingToWriteStep
<1>4. CASE WriteUnderlayer
  BY <1>4, WriteUnderlayerStep
<1>5. CASE WritePaletteColour
  BY <1>5, <1>1, WritePaletteStep
<1>6. CASE PaletteWritten
  BY <1>6, <1>1, PaletteWrittenStep
<1>7. CASE SetNumbers
  BY <1>7, SetNumbersStep
<1>8. CASE SetUnderlayer
  BY <1>8, SetUnderlayerStep
<1>9. CASE SetPaletteColour
  BY <1>9, SetPaletteStep
<1>10. CASE PaletteSet
  BY <1>10, PaletteSetStep
<1>11. CASE UNCHANGED vars
  BY <1>11, StutterStep
<1> QED
  BY <1>2, <1>3, <1>4, <1>5, <1>6, <1>7, <1>8, <1>9, <1>10, <1>11 DEF Next

-----------------------------------------------------------------------------
(* What follows.                                                           *)

(* The invariant holds throughout RenderSettingsSerializer and then        *)
(* RenderSettingsSet.                                                      *)
THEOREM Invariance == Spec => []IInv
<1>1. Init => IInv
  BY InitStep
<1>2. IInv /\ [Next]_vars => IInv'
  BY InvStep
<1> QED
  BY <1>1, <1>2, PTL DEF Spec

(* Settings that were read from a complete message are the builder's.      *)
LEMMA SettingsFollow ==
  ASSUME IInv
  PROVE  SettingsAsBuilt
<1> SUFFICES ASSUME stage = "done"
             PROVE  IF doc = Absent
                      THEN rs.color_palette = <<>> /\ \A field \in NumberFields : rs.numbers[field] = 0
                      ELSE rs = Built
  BY DEF SettingsAsBuilt
<1>1. rs = Settings(ColourSet(message.underlayer_color), Len(message.color_palette))
  BY DEF IInv, ReadSoFar
<1>2. CASE doc = Absent
  <2>1. message.color_palette = <<>> /\ \A field \in NumberFields : message.numbers[field] = 0
    BY <1>2 DEF IInv, WrittenSoFar, DefaultMessage
  <2>2. rs.numbers = message.numbers /\ rs.color_palette = [i \in 1 .. 0 |-> ColourSet(message.color_palette[i])]
    BY <1>1, <2>1 DEF Settings
  <2>3. rs.color_palette = <<>>
    BY <2>2
  <2> QED
    BY <1>2, <2>1, <2>2, <2>3
<1>3. CASE doc # Absent
  <2> DEFINE n == Len(Palette)
  <2>1. doc \in Documents /\ NoFaults(n) /\ message = Message(ColourMessage(Underlayer), n)
    BY <1>3 DEF IInv, WrittenSoFar
  <2>2. /\ IsColourNode(Underlayer) /\ n \in Nat /\ DOMAIN Palette = 1 .. n
        /\ \A i \in 1 .. n : IsColourNode(Palette[i])
    BY <1>3, <2>1, DocumentShape
  <2>3. ColourSet(ColourMessage(Underlayer)) = BuiltColour(Underlayer)
    BY <2>1, <2>2, ColourKept DEF NoFaults
  <2>4. \A i \in 1 .. n : ColourSet(ColourMessage(Palette[i])) = BuiltColour(Palette[i])
    BY <2>1, <2>2, ColourKept DEF NoFaults
  <2>5. /\ message.numbers = Built.numbers
        /\ message.underlayer_color = ColourMessage(Underlayer)
        /\ message.color_palette = [i \in 1 .. n |-> ColourMessage(Palette[i])]
    BY <2>1 DEF Message, Built
  <2>6. message.offsets = Built.offsets
    <3>1. \A field \in OffsetFields :
            <<doc[field][2][1][2], doc[field][2][2][2]>> = [i \in 1 .. 2 |-> doc[field][2][i][2]]
      OBVIOUS
    <3> QED
      BY <2>1, <3>1 DEF Message, Built
  <2>7. Len(message.color_palette) = n
    BY <2>2, <2>5
  <2>8. [i \in 1 .. n |-> ColourSet(message.color_palette[i])] = [i \in DOMAIN Palette |-> BuiltColour(Palette[i])]
    BY <2>2, <2>4, <2>5
  <2> QED
    BY <1>1, <1>3, <2>3, <2>5, <2>6, <2>7, <2>8 DEF Settings, Built, Underlayer
<1> QED
  BY <1>2, <1>3

(* Where the run ends is where the builder ends.                           *)
LEMMA RefusalFollows ==
  ASSUME IInv
  PROVE  RefusedAlike
<1>1. CASE doc = Absent
  BY <1>1 DEF IInv, WrittenSoFar, RefusedAlike, BuilderFaults
<1>2. CASE doc # Absent
  <2>1. stage = "done" => BuilderFaults = {}
    BY <1>2, NothingRefused DEF IInv, WrittenSoFar
  <2> QED
    BY <1>2, <2>1 DEF IInv, WrittenSoFar, RefusedAlike
<1> QED
  BY <1>1, <1>2

(* The settings of process_requests are those RenderSettingsBuilder would  *)
(* make of the document of make_base.                                      *)
THEOREM SettingsSurvive == Spec => []SettingsAsBuilt
<1>1. IInv => SettingsAsBuilt
  BY SettingsFollow
<1> QED
  BY <1>1, Invariance, PTL

(* What the writer refuses the builder refuses, and nothing else.          *)
THEOREM RefusalsAgree == Spec => []RefusedAlike
<1>1. IInv => RefusedAlike
  BY RefusalFollows
<1> QED
  BY <1>1, Invariance, PTL
=============================================================================
