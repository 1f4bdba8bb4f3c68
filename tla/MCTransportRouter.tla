------------------------- MODULE MCTransportRouter -------------------------
(***************************************************************************)
(* Instances of TransportRouter for TLC: every combination of road maps    *)
(* and of one or two bus requests from a pool.                             *)
(***************************************************************************)
EXTENDS TransportRouter

CONSTANTS A, B, C, X, Y, Somewhere

MCNameRank == (A :> 1) @@ (X :> 2) @@ (C :> 3) @@ (Y :> 4) @@ (B :> 5)

StopDoc(name, road_distances) ==
  [type |-> "Stop", name |-> name, coordinates |-> Somewhere,
   road_distances |-> road_distances]

BusDoc(name, stops, is_roundtrip) ==
  [type |-> "Bus", name |-> name, stops |-> stops, is_roundtrip |-> is_roundtrip]

(* Roads one way, both ways with different lengths, a missing one, one     *)
(* that leads back to its stop, and one of negative length.                *)
RoadMaps ==
  {<<StopDoc(A, << <<B, 1>>, <<C, 9>> >>), StopDoc(B, << <<A, 3>>, <<C, 1>> >>), StopDoc(C, <<>>)>>,
   <<StopDoc(B, << <<C, 2>> >>), StopDoc(A, << <<A, 1>>, <<B, 2>> >>), StopDoc(C, << <<B, 0>> >>)>>,
   <<StopDoc(C, << <<A, 4>> >>), StopDoc(A, << <<B, -1>>, <<C, 3>> >>), StopDoc(B, << <<C, 1>> >>)>>}

Buses ==
  {BusDoc(X, <<A, B, C>>, FALSE), BusDoc(X, <<A, B, C, A>>, TRUE), BusDoc(X, <<A, B>>, FALSE),
   BusDoc(Y, <<C, B>>, TRUE), BusDoc(Y, <<A, C>>, FALSE), BusDoc(Y, <<A, A, B>>, TRUE),
   BusDoc(Y, <<B>>, FALSE), BusDoc(Y, <<>>, TRUE)}

MCDocuments ==
  {map : map \in RoadMaps} \cup {<<b>> \o map : b \in Buses, map \in RoadMaps}
    \cup {map \o <<b, c>> : b, c \in Buses, map \in RoadMaps}
=============================================================================
