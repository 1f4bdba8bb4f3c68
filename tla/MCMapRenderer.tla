--------------------------- MODULE MCMapRenderer ---------------------------
(***************************************************************************)
(* An instance of MapRenderer for TLC: three stops at each of MCPlaces,    *)
(* pairs and triples of buses, palettes of up to three colours.            *)
(***************************************************************************)
EXTENDS MapRenderer

CONSTANTS A, B, C, X, Y, Z, Red, Green, Blue

MCNameRank == (A :> 4) @@ (X :> 5) @@ (C :> 3) @@ (Y :> 2) @@ (B :> 1) @@ (Z :> 6)

MCCoordinates == [lat : {0, 1, 5}, lng : {-2, 0, 3}]

StopDoc(name, c) == [type |-> "Stop", name |-> name, coordinates |-> c, road_distances |-> <<>>]
BusDoc(name, stops, is_roundtrip) ==
  [type |-> "Bus", name |-> name, stops |-> stops, is_roundtrip |-> is_roundtrip]

Routes(name) ==
  {BusDoc(name, stops, r) : stops \in {<<>>, <<B>>, <<A, B>>, <<A, B, A>>, <<C, A, B>>},
                            r \in BOOLEAN}

FewRoutes(name) ==
  {BusDoc(name, <<>>, TRUE), BusDoc(name, <<A, B, A>>, FALSE), BusDoc(name, <<A, C>>, FALSE)}

(* One bus at every set of up to three places, in one order each.          *)
At(places) == LET p == SetToSeq(places) IN [k \in 1 .. 3 |-> p[IF k <= Len(p) THEN k ELSE 1]]

Somewhere(p) ==
  <<StopDoc(A, p[1]), BusDoc(X, <<A, B, C>>, FALSE), StopDoc(B, p[2]), StopDoc(C, p[3])>>

(* Every route of one bus with few of the others, at places far apart.     *)
Together(x, y, z) ==
  <<StopDoc(A, [lat |-> 0, lng |-> 0]), StopDoc(C, [lat |-> 0, lng |-> 3]), x, y, z,
    StopDoc(B, [lat |-> 5, lng |-> -2])>>

MCDocuments ==
  {Somewhere(At(places)) : places \in UNION {kSubset(n, MCCoordinates) : n \in 1 .. 3}}
  \cup {Together(x, y, z) : x \in Routes(X), y \in FewRoutes(Y), z \in FewRoutes(Z)}
  \cup {<<StopDoc(A, [lat |-> 5, lng |-> 0]), BusDoc(X, <<A>>, TRUE), StopDoc(A, [lat |-> 1, lng |-> 0])>>,
        <<StopDoc(A, [lat |-> 5, lng |-> 0]), BusDoc(X, <<A>>, TRUE), [type |-> "Null"]>>}

MCSettings ==
  {[width |-> 9, height |-> h, padding |-> p, color_palette |-> <<Red, Green>>] :
     h \in {4, 9}, p \in {0, 2}}
  \cup {[width |-> 4, height |-> 6, padding |-> 1, color_palette |-> c] :
         c \in {<<>>, <<Green>>, <<Red, Green, Blue>>, <<Red, Red>>}}
=============================================================================
