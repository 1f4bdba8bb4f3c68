------------------------- MODULE MCResponseBuilder -------------------------
(***************************************************************************)
(* An instance of ResponseBuilder for TLC: a few base documents and every  *)
(* array of up to MaxRequests stat requests from a pool.                   *)
(***************************************************************************)
EXTENDS ResponseBuilder

CONSTANTS A, B, C, X, Y, Near, Far, MaxRequests

MCNameRank == (A :> 4) @@ (X :> 5) @@ (C :> 3) @@ (Y :> 2) @@ (B :> 1)

MCDistances == [p \in {Near, Far} \X {Near, Far} |-> IF p[1] = p[2] THEN 0 ELSE 7]

StopDoc(name, coordinates, road_distances) ==
  [type |-> "Stop", name |-> name, coordinates |-> coordinates,
   road_distances |-> road_distances]

BusDoc(name, stops, is_roundtrip) ==
  [type |-> "Bus", name |-> name, stops |-> stops, is_roundtrip |-> is_roundtrip]

Stops == <<StopDoc(A, Near, << <<A, 2>>, <<B, 3>> >>), StopDoc(B, Far, << <<A, 4>> >>)>>

Line(there, back, bus) ==
  <<StopDoc(A, Near, << <<B, there>> >>), StopDoc(B, Far, << <<A, back>> >>), bus>>

(* A ring of one-way roads, and a negative road on the way of a bus, or    *)
(* not.                                                                    *)
MCDocuments ==
  {<<StopDoc(A, Near, << <<B, 3>> >>), StopDoc(B, Far, << <<C, 5>> >>),
     StopDoc(C, Near, << <<A, 7>> >>), BusDoc(X, <<A, B, C, A>>, TRUE)>>,
   Line(-3, 4, BusDoc(X, <<A, B>>, FALSE)),
   Line(-3, 4, BusDoc(X, <<B, A>>, TRUE)),
   Stops \o <<BusDoc(X, <<A, B>>, FALSE), BusDoc(Y, <<B, A, A, B>>, TRUE)>>,
   <<BusDoc(Y, <<A, A>>, TRUE)>> \o Stops \o <<BusDoc(X, <<>>, FALSE), StopDoc(C, Far, <<>>)>>,
   Stops \o <<BusDoc(X, <<B>>, FALSE), [type |-> "Other"]>>,
   Stops \o <<StopDoc(C, Near, <<>>), BusDoc(X, <<A, C>>, FALSE)>>,
   <<[type |-> "Null"]>> \o Stops}

(* A round trip of two stops.                                              *)
RoundTripDocuments == {Line(2, 4, BusDoc(X, <<A, B>>, TRUE))}

Pool(id) ==
  {[type |-> "Bus", id |-> id, name |-> X], [type |-> "Bus", id |-> id, name |-> Y],
   [type |-> "Stop", id |-> id, name |-> A], [type |-> "Stop", id |-> id, name |-> C],
   [type |-> "Map", id |-> id],
   [type |-> "Route", id |-> id, from |-> A, to |-> B],
   [type |-> "Route", id |-> id, from |-> C, to |-> C],
   [type |-> "Route", id |-> id, from |-> A, to |-> C],
   [type |-> "Other"], [type |-> "Malformed"], [type |-> "Null"]}

MCRoutingSettings ==
  [wait_factor : {6}, speed_factor : {1, -1}] \cup [wait_factor : {-1}, speed_factor : {1}]

(* The second request has the smaller id.                                  *)
MCStatDocs ==
  {Absent, <<>>} \cup {<<r>> : r \in Pool(2)}
    \cup IF MaxRequests < 2 THEN {} ELSE {<<r, s>> : r \in Pool(2), s \in Pool(1)}
=============================================================================
