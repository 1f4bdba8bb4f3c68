--------------------------- MODULE RenderSettings ---------------------------
(***************************************************************************)
(* The way of the render settings from make_base to process_requests:      *)
(* Serializer::RenderSettingsSerializer puts the members of a document     *)
(* into a protobuf message, member after member, and RenderSettingsSet     *)
(* takes them out again (serialization.cpp).  JSONReader's                 *)
(* RenderSettingsBuilder (json_reader.cpp), which needs no file, says what *)
(* they should be.                                                         *)
(***************************************************************************)
EXTENDS Integers, Sequences, SequencesExt

CONSTANTS
  Documents,       (* members "render_settings", or Absent                 *)
  Absent, Missing,
  Uint8, Uint32    (* how many values the two types have                   *)

(* A node of the document is <<"int", n>>, <<"double", x>>, <<"string", s>>, *)
(* <<"null">> or <<"array", elements>>.                                    *)
IntFields    == {"bus_label_font_size", "stop_label_font_size"}
DoubleFields == {"width", "height", "padding", "stop_radius", "line_width", "underlayer_width"}
OffsetFields == {"bus_label_offset", "stop_label_offset"}
NumberFields == IntFields \cup DoubleFields

IsNode(node) ==
  CASE node[1] = "string" -> node = <<"string", node[2]>>
    [] node[1] = "int"    -> node[2] \in Int
    [] OTHER              -> TRUE

IsColourNode(node) ==
  /\ IsNode(node)
  /\ node[1] = "array" =>
       node[2] \in Seq(ToSet(node[2])) /\ \A part \in ToSet(node[2]) : IsNode(part)

ASSUME SettingsAssumption ==
  /\ Uint8 \in Nat \ {0} /\ Uint32 \in Nat \ {0} /\ Uint32 % Uint8 = 0
  /\ \A doc \in Documents \ {Absent} :
       /\ NumberFields \cup OffsetFields \cup {"underlayer_color", "color_palette"} = DOMAIN doc
       /\ \A field \in OffsetFields : doc[field][1] = "array"
       /\ IsColourNode(doc["underlayer_color"])
       /\ doc["color_palette"] \in Seq(ToSet(doc["color_palette"]))
       /\ \A colour \in ToSet(doc["color_palette"]) : IsColourNode(colour)

VARIABLES
  doc,
  stage,      (* what is done next                                         *)
  k,          (* the entry of a palette that is next                       *)
  message,    (* the message RenderSettings, in the program or in the file *)
  rs          (* render_settings_ of process_requests                      *)

vars == <<doc, stage, k, message, rs>>

-----------------------------------------------------------------------------
(* Reading nodes.  An index behind the end of an array is undefined, AsInt *)
(* and AsDouble throw for other nodes than theirs.                         *)

FitsInt(node)    == node[1] = "int"
FitsDouble(node) == node[1] \in {"int", "double"}

(* The nodes a colour is made of, and what is wrong with each.             *)
Parts(elements) == IF Len(elements) = 3 THEN 3 ELSE 4

PartOutcome(elements, i) ==
  IF i > Len(elements) THEN "undefined"
  ELSE IF i <= 3 /\ ~ FitsInt(elements[i]) THEN "threw"
  ELSE IF i = 4 /\ ~ FitsDouble(elements[i]) THEN "threw"
  ELSE "read"

(* One after the other is read, so only the first fault counts.            *)
FirstFault(outcomes) ==
  {outcomes[i] : i \in {n \in DOMAIN outcomes : /\ outcomes[n] # "read"
                                              /\ \A m \in 1 .. n - 1 : outcomes[m] = "read"}}

PartOutcomes(node) == [i \in 1 .. Parts(node[2]) |-> PartOutcome(node[2], i)]

ColourFaults(node) ==
  CASE node[1] = "array"  -> FirstFault(PartOutcomes(node))
    [] node[1] = "string" -> {}
    [] OTHER              -> {"threw"}

(* Every member is there or at() throws; the offsets are read last.        *)
OffsetOutcome(settings, field, i) ==
  IF i > Len(settings[field][2]) THEN "undefined"
  ELSE IF FitsDouble(settings[field][2][i]) THEN "read" ELSE "threw"

NumberFaults(settings) ==
  IF \/ \E field \in IntFields : settings[field] = Missing \/ ~ FitsInt(settings[field])
     \/ \E field \in DoubleFields : settings[field] = Missing \/ ~ FitsDouble(settings[field])
    THEN {"threw"}
  ELSE FirstFault(<<OffsetOutcome(settings, "bus_label_offset", 1),
                    OffsetOutcome(settings, "bus_label_offset", 2),
                    OffsetOutcome(settings, "stop_label_offset", 1),
                    OffsetOutcome(settings, "stop_label_offset", 2)>>)

-----------------------------------------------------------------------------
(* RenderSettingsSerializer.  A Color is a oneof: the member set last.     *)

NoColour == [case |-> "none", value |-> ""]

DefaultMessage ==
  [numbers |-> [field \in NumberFields |-> 0],
   offsets |-> [field \in OffsetFields |-> <<0, 0>>],
   underlayer_color |-> NoColour,
   color_palette |-> <<>>]

Channel(node) == node[2] % Uint32

ColourMessage(node) ==
  IF node[1] = "string" THEN [case |-> "str", value |-> node[2]]
  ELSE LET e == node[2]
           rgb == <<Channel(e[1]), Channel(e[2]), Channel(e[3])>>
       IN  IF Parts(e) = 3 THEN [case |-> "rgb", value |-> rgb]
           ELSE [case |-> "rgba", value |-> Append(rgb, e[4][2])]

Init ==
  /\ doc \in Documents
  /\ stage = "write_numbers" /\ k = 1
  /\ message = DefaultMessage
  /\ rs = [numbers |-> [field \in NumberFields |-> 0],
           offsets |-> [field \in OffsetFields |-> <<0, 0>>],
           underlayer_color |-> <<"monostate">>,
           color_palette |-> <<>>]

(* Either the faults of a step end the run, or the step is made.           *)
Fails(faults) ==
  /\ stage' \in faults
  /\ UNCHANGED <<doc, k, message, rs>>

WriteNumbers ==
  /\ stage = "write_numbers" /\ doc # Absent
  /\ \/ Fails(NumberFaults(doc))
     \/ /\ NumberFaults(doc) = {}
        /\ message' = [message EXCEPT
             !.numbers = [field \in NumberFields |-> doc[field][2]],
             !.offsets = [field \in OffsetFields |->
                            <<doc[field][2][1][2], doc[field][2][2][2]>>]]
        /\ stage' = "write_underlayer"
        /\ UNCHANGED <<doc, k, rs>>

NothingToWrite ==
  /\ stage = "write_numbers" /\ doc = Absent
  /\ stage' = "set_numbers"
  /\ UNCHANGED <<doc, k, message, rs>>

WriteUnderlayer ==
  /\ stage = "write_underlayer"
  /\ \/ Fails(ColourFaults(doc["underlayer_color"]))
     \/ /\ ColourFaults(doc["underlayer_color"]) = {}
        /\ message' = [message EXCEPT !.underlayer_color = ColourMessage(doc["underlayer_color"])]
        /\ stage' = "write_palette"
        /\ UNCHANGED <<doc, k, rs>>

Palette == doc["color_palette"]

WritePaletteFront ==
  /\ stage = "write_palette" /\ k <= Len(Palette)
  /\ \/ Fails(ColourFaults(Palette[k]))
     \/ /\ ColourFaults(Palette[k]) = {}
        /\ message' = [message EXCEPT !.color_palette = <<ColourMessage(Palette[k])>> \o @]
        /\ k' = k + 1
        /\ UNCHANGED <<doc, stage, rs>>
WritePaletteSkips ==
  /\ stage = "write_palette" /\ k <= Len(Palette)
  /\ message' = IF ColourFaults(Palette[k]) # {} THEN message
                ELSE [message EXCEPT !.color_palette = Append(@, ColourMessage(Palette[k]))]
  /\ k' = k + 1
  /\ UNCHANGED <<doc, stage, rs>>
WritePaletteColour ==
  /\ stage = "write_palette" /\ k <= Len(Palette)
  /\ \/ Fails(ColourFaults(Palette[k]))
     \/ /\ ColourFaults(Palette[k]) = {}
        /\ message' = [message EXCEPT !.color_palette = Append(@, ColourMessage(Palette[k]))]
        /\ k' = k + 1
        /\ UNCHANGED <<doc, stage, rs>>

(* The message goes to the file and, in the other run, comes back.         *)
PaletteWritten ==
  /\ stage = "write_palette" /\ k > Len(Palette)
  /\ stage' = "set_numbers" /\ k' = 1
  /\ UNCHANGED <<doc, message, rs>>

-----------------------------------------------------------------------------
(* RenderSettingsSet.  Rgb and Rgba take their channels as uint8_t.        *)

Bytes(channels) == [i \in 1 .. 3 |-> channels[i] % Uint8]

ColourSet(color) ==
  CASE color.case = "rgba" -> <<"rgba", Append(Bytes(color.value), color.value[4])>>
    [] color.case = "rgb"  -> <<"rgb", Bytes(color.value)>>
    [] OTHER               -> <<"string", color.value>>

SetNumbers ==
  /\ stage = "set_numbers"
  /\ rs' = [rs EXCEPT !.numbers = message.numbers, !.offsets = message.offsets]
  /\ stage' = "set_underlayer"
  /\ UNCHANGED <<doc, k, message>>

SetUnderlayer ==
  /\ stage = "set_underlayer"
  /\ rs' = [rs EXCEPT !.underlayer_color = ColourSet(message.underlayer_color)]
  /\ stage' = "set_palette"
  /\ UNCHANGED <<doc, k, message>>

SetPaletteColour ==
  /\ stage = "set_palette" /\ k <= Len(message.color_palette)
  /\ rs' = [rs EXCEPT !.color_palette = Append(@, ColourSet(message.color_palette[k]))]
  /\ k' = k + 1
  /\ UNCHANGED <<doc, stage, message>>

PaletteSet ==
  /\ stage = "set_palette" /\ k > Len(message.color_palette)
  /\ stage' = "done"
  /\ UNCHANGED <<doc, k, message, rs>>

Next ==
  \/ WriteNumbers \/ NothingToWrite \/ WriteUnderlayer \/ WritePaletteColour \/ PaletteWritten
  \/ SetNumbers \/ SetUnderlayer \/ SetPaletteColour \/ PaletteSet

Spec == Init /\ [][Next]_vars

-----------------------------------------------------------------------------
(* RenderSettingsBuilder: from the document straight to the settings.  The *)
(* nodes of a colour are arguments of one call, read in any order.         *)

BuiltColour(node) ==
  IF node[1] = "string" THEN node
  ELSE LET e == node[2]
       IN  IF Parts(e) = 3 THEN <<"rgb", [i \in 1 .. 3 |-> e[i][2] % Uint8]>>
           ELSE <<"rgba", [i \in 1 .. 4 |-> IF i = 4 THEN e[4][2] ELSE e[i][2] % Uint8]>>

Built ==
  [numbers |-> [field \in NumberFields |-> doc[field][2]],
   offsets |-> [field \in OffsetFields |-> [i \in 1 .. 2 |-> doc[field][2][i][2]]],
   underlayer_color |-> BuiltColour(doc["underlayer_color"]),
   color_palette |-> [i \in DOMAIN Palette |-> BuiltColour(Palette[i])]]

BuiltColourFaults(node) ==
  IF node[1] = "array" THEN ToSet(PartOutcomes(node)) \ {"read"} ELSE ColourFaults(node)

BuilderFaults ==
  LET colours == <<doc["underlayer_color"]>> \o Palette
      faulty  == {i \in DOMAIN colours : BuiltColourFaults(colours[i]) # {}}
  IN  IF doc = Absent THEN {}
      ELSE IF NumberFaults(doc) # {} THEN NumberFaults(doc)
      ELSE IF faulty = {} THEN {} ELSE BuiltColourFaults(colours[Min(faulty)])

-----------------------------------------------------------------------------
(* Safety.                                                                 *)

(* The settings a map is drawn with in process_requests are those the      *)
(* builder would make of the document: each number in its own member, each *)
(* colour of the same kind, with the same channels and opacity, in its     *)
(* place in the palette, although channels pass through a wider type.  If  *)
(* there are none, the underlayer colour becomes the empty string instead  *)
(* of no colour; but then so is the palette, and nothing can show it.      *)
SettingsAsBuilt ==
  stage = "done" =>
    IF doc = Absent
      THEN rs.color_palette = <<>> /\ \A field \in NumberFields : rs.numbers[field] = 0
      ELSE rs = Built

(* A document that either of the two refuses, by an exception or by        *)
(* undefined behaviour, is refused by the other as well.                   *)
RefusedAlike ==
  /\ stage \in {"threw", "undefined"} => stage \in BuilderFaults
  /\ stage = "done" => BuilderFaults = {}
=============================================================================
