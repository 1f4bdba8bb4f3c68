----------------------------- MODULE JSONReader -----------------------------
(***************************************************************************)
(* The requests of a "base_requests" array, and JSONReader::DBBuilder      *)
(* (json_reader.cpp), which builds a catalogue straight from them.  The    *)
(* program now goes through a database file instead (Serialization);       *)
(* DBBuilder is the reference for what that detour has to preserve.        *)
(***************************************************************************)
EXTENDS TransportCatalogue, SequencesExt

CONSTANTS
  Names,        (* names of stops and of buses                             *)
  Coordinates   (* coordinates a document may give a stop                  *)

ASSUME CoordinatesAssumption == Uninitialised \notin Coordinates

(* What the code tells apart in an element of "base_requests".  In a Stop, *)
(* road_distances lists <<stop, length>> in the order of std::map; in a    *)
(* Bus, stops holds the strings of the "stops" array.  "Other" is a request *)
(* of another type, "Malformed" one that lacks a member or has one of      *)
(* another kind, "Null" the null node.                                     *)
Request ==
       [type : {"Stop"}, name : Names, coordinates : Coordinates,
        road_distances : Seq(Names \X Int)]
  \cup [type : {"Bus"}, name : Names, stops : Seq(Names), is_roundtrip : BOOLEAN]
  \cup [type : {"Other", "Malformed", "Null"}]

HasNull(base) == \E i \in DOMAIN base : base[i].type = "Null"

SetRoadDistances(cat, name, road_distances) ==
  FoldLeft(LAMBDA c, d : SetStopDistance(c, name, d[1], d[2]), cat, road_distances)

(* A request that is not malformed.                                        *)
ApplyRequest(cat, request) ==
  CASE request.type = "Bus" ->
         SetBus(cat, request.name, Reverse(request.stops), ~ request.is_roundtrip)
    [] request.type = "Stop" ->
         SetRoadDistances(SetStop(cat, request.name, request.coordinates),
                          request.name, request.road_distances)
    [] OTHER -> cat

(* One null in the array makes the code return before the first request;   *)
(* otherwise a malformed request makes it throw.                           *)
DBBuilderThrows(base) ==
  ~ HasNull(base) /\ \E i \in DOMAIN base : base[i].type = "Malformed"

(* The catalogue it leaves, unless it throws.                              *)
DBBuilder(base) ==
  IF HasNull(base) THEN EmptyCatalogue
  ELSE FoldLeft(ApplyRequest, EmptyCatalogue, base)

(* Stops with a request of their own, and stops that are only mentioned.   *)
DeclaredStops(base) ==
  {base[i].name : i \in {k \in DOMAIN base : base[k].type = "Stop"}}

MentionedStops(base) ==
  UNION {IF base[i].type = "Bus" THEN {base[i].stops[k] : k \in DOMAIN base[i].stops}
         ELSE IF base[i].type = "Stop"
           THEN {base[i].road_distances[k][1] : k \in DOMAIN base[i].road_distances}
         ELSE {} : i \in DOMAIN base}

(* road_distances is a json::Dict, a std::map: no stop is in it twice.     *)
RoadsAreMaps(base) ==
  \A i \in DOMAIN base : base[i].type = "Stop" =>
    LET roads == base[i].road_distances
    IN  \A j, k \in DOMAIN roads : roads[j][1] = roads[k][1] => j = k

AllDeclared(base) == HasNull(base) \/ MentionedStops(base) \subseteq DeclaredStops(base)

(* The road from one stop to another as the document gives it: the last    *)
(* length declared in that direction, else the last one in the other.      *)
RoadDeclarations(base, from, to) ==
  {i \in DOMAIN base :
     /\ base[i].type = "Stop" /\ base[i].name = from
     /\ \E k \in DOMAIN base[i].road_distances : base[i].road_distances[k][1] = to}

HasRoad(base, from, to) ==
  RoadDeclarations(base, from, to) \cup RoadDeclarations(base, to, from) # {}

RoadLength(base, from, to) ==
  LET direct == RoadDeclarations(base, from, to)
      last   == Max(IF direct # {} THEN direct ELSE RoadDeclarations(base, to, from))
      other  == IF direct # {} THEN to ELSE from
      roads  == base[last].road_distances
  IN  roads[CHOOSE k \in DOMAIN roads : roads[k][1] = other][2]

(* Hops of a bus, in the order of its "stops", and back for a chain.       *)
DocumentHops(bus) ==
  LET last  == IF bus.stops = <<>> THEN 0 ELSE Len(bus.stops) - 1
      there == [k \in 1 .. last |-> <<bus.stops[k], bus.stops[k + 1]>>]
      back  == [k \in DOMAIN there |-> <<there[k][2], there[k][1]>>]
  IN  IF bus.is_roundtrip THEN there ELSE there \o back

DocumentLength(base, bus) ==
  FoldLeft(LAMBDA sum, hop : sum + RoadLength(base, hop[1], hop[2]), 0, DocumentHops(bus))

(* What a catalogue is made of.                                            *)
IsPartialFunction(f, S, T) == DOMAIN f \subseteq S /\ f \in [DOMAIN f -> T]

CatalogueType(cat) ==
  /\ cat = [stops |-> cat.stops, buses |-> cat.buses, distances |-> cat.distances]
  /\ IsPartialFunction(cat.stops, Names,
       [coordinates : Coordinates \cup {Uninitialised}, buses : SUBSET Names])
  /\ IsPartialFunction(cat.buses, Names, [is_chain : BOOLEAN, route : Seq(Names)])
  /\ IsPartialFunction(cat.distances, Names \X Names, Int)
=============================================================================
