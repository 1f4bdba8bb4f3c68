------------------------- MODULE TransportCatalogue -------------------------
(***************************************************************************)
(* catalogue::TransportCatalogue (transport_catalogue.h/.cpp): stops,      *)
(* buses and road distances, as operators on a catalogue value.  Pointers  *)
(* to Stop and Bus are names: the maps hand out one object per name and    *)
(* the deques that own them never move one.  Coordinates are abstract      *)
(* values, and the distance between two of them is a parameter.            *)
(***************************************************************************)
EXTENDS Integers, Sequences, FiniteSets

CONSTANT
  Uninitialised   (* coordinates of a stop created by a mere mention of it *)

(* std::map: assignment through operator[], and insert                     *)
EmptyMap == [key \in {} |-> key]

Assign(map, key, value) ==
  [k \in DOMAIN map \cup {key} |-> IF k = key THEN value ELSE map[k]]

Insert(map, key, value) ==
  IF key \in DOMAIN map THEN map ELSE Assign(map, key, value)

EmptyCatalogue ==
  [stops     |-> EmptyMap,   (* name -> [coordinates, buses]                *)
   buses     |-> EmptyMap,   (* name -> [is_chain, route]                   *)
   distances |-> EmptyMap]   (* <<from, to>> -> length                      *)

StopNames(cat) == DOMAIN cat.stops
BusNames(cat)  == DOMAIN cat.buses

NewStop == [coordinates |-> Uninitialised, buses |-> {}]

(* ReturnStop, ReturnBus: the object of that name, created if it is new    *)
ReturnStop(cat, name) == [cat EXCEPT !.stops = Insert(@, name, NewStop)]

NewBus == [is_chain |-> FALSE, route |-> <<>>]

ReturnBus(cat, name) == [cat EXCEPT !.buses = Insert(@, name, NewBus)]

OnlyKnownStopSet(cat, name, coordinates) ==
  IF name \in StopNames(cat) THEN [cat EXCEPT !.stops[name].coordinates = coordinates]
  ELSE ReturnStop(cat, name)
SetStop(cat, name, coordinates) ==
  [ReturnStop(cat, name) EXCEPT !.stops[name].coordinates = coordinates]

SetStopDistance(cat, from, to, length) ==
  [ReturnStop(ReturnStop(cat, from), to) EXCEPT
     !.distances = Assign(@, <<from, to>>, length)]

(* SetBus: the stops are appended to what the route of that bus already    *)
(* holds, and each of them learns of the bus.  is_chain is overwritten.    *)
LastStopMissed(route) == {route[i] : i \in DOMAIN route \ {Len(route)}}
StopsIndexed(route) == {route[i] : i \in DOMAIN route}

SetBus(cat, name, route, is_chain) ==
  LET so_far   == ReturnBus(cat, name).buses[name].route
      on_route == StopsIndexed(route)
      known(s) == IF s \in StopNames(cat) THEN cat.stops[s] ELSE NewStop
  IN  [stops     |-> [s \in StopNames(cat) \cup on_route |->
                       [known(s) EXCEPT
                          !.buses = IF s \in on_route THEN @ \cup {name} ELSE @]],
       buses     |-> Assign(cat.buses, name,
                            [is_chain |-> is_chain, route |-> so_far \o route]),
       distances |-> cat.distances]

(* The two directions of the relation between stops and buses agree.       *)
IndexConsistent(cat) ==
  /\ \A b \in BusNames(cat) : \A k \in DOMAIN cat.buses[b].route :
       cat.buses[b].route[k] \in StopNames(cat)
  /\ \A s \in StopNames(cat) :
       cat.stops[s].buses =
         {b \in BusNames(cat) : \E k \in DOMAIN cat.buses[b].route :
                                  cat.buses[b].route[k] = s}

OneWayOnly(cat, from, to) == <<from, to>> \in DOMAIN cat.distances

(* std::map::at throws when neither direction is known.                    *)
HasDistance(cat, from, to) ==
  <<from, to>> \in DOMAIN cat.distances \/ <<to, from>> \in DOMAIN cat.distances

(* GetDistance, and the same choice spelled out twice in BusRouteLength    *)
GetDistance(cat, from, to) ==
  IF <<from, to>> \in DOMAIN cat.distances
    THEN cat.distances[<<from, to>>]
    ELSE cat.distances[<<to, from>>]

(* BusRouteLength throws unless each hop of the route has a distance.      *)
HasRouteLength(cat, name) ==
  LET route == cat.buses[name].route
  IN  \A i \in 2 .. Len(route) : HasDistance(cat, route[i], route[i - 1])

BusRouteLength(cat, name) ==
  LET route == cat.buses[name].route
      hop(i) == GetDistance(cat, route[i], route[i - 1])
                + IF cat.buses[name].is_chain
                    THEN GetDistance(cat, route[i - 1], route[i]) ELSE 0
      total[i \in 0 .. Len(route)] == IF i < 2 THEN 0 ELSE total[i - 1] + hop(i)
  IN  total[Len(route)]

(* The queries behind the answers: -1 for an unknown bus, and the way back *)
(* of a chain counted without a second stop at its end.                    *)
ThereAndBack(size) == size + (size - 1)

BusStopCount(cat, name) ==
  IF name \notin BusNames(cat) THEN -1
  ELSE LET bus  == cat.buses[name]
           size == Len(bus.route)
       IN  IF bus.is_chain /\ size > 0 THEN ThereAndBack(size) ELSE size

BusUniqStopCount(cat, name) ==
  Cardinality({cat.buses[name].route[k] : k \in DOMAIN cat.buses[name].route})

GetStopBuses(cat, name) == cat.stops[name].buses

(* The length as the crow flies, by which BusRouteLength divides;          *)
(* distances has what ComputeDistance returns for pairs of coordinates.    *)
OneWayChord(is_chain, chord) == chord
WholeChord(is_chain, chord) == IF is_chain THEN chord + chord ELSE chord

ChordLength(cat, name, distances) ==
  LET route == cat.buses[name].route
      at(k) == cat.stops[route[k]].coordinates
      total[k \in 0 .. Len(route)] ==
        IF k < 2 THEN 0 ELSE total[k - 1] + distances[<<at(k - 1), at(k)>>]
  IN  WholeChord(cat.buses[name].is_chain, total[Len(route)])
=============================================================================
