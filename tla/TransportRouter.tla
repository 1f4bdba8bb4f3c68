-------------------------- MODULE TransportRouter --------------------------
(***************************************************************************)
(* router::CustomRouteFinder (transport_router.h/.cpp): the constructor    *)
(* turns a catalogue into a graph with two vertices per stop, an edge for  *)
(* the wait at each stop and one for each ride between two stops of a bus; *)
(* RouteSearch then answers with the sections of a fastest way.            *)
(*                                                                         *)
(* One action is one iteration of a loop of the constructor, or one call   *)
(* of RouteSearch.  Of graph::Router only what ShortestPath promises is    *)
(* used.  Times are exact integers; an infinite speed_factor_ (velocity    *)
(* zero) is outside the model.                                             *)
(***************************************************************************)
EXTENDS JSONReader

CONSTANTS
  Documents,    (* base documents the catalogue was loaded from            *)
  NameRank,     (* the order of std::string on names                       *)
  WaitTime,     (* wait_factor_                                            *)
  SpeedFactor,  (* speed_factor_: time per unit of length                  *)
  NoRoute, NoAnswer

(* The Wait and the Ride of domain.h.                                      *)
Item == [kind : {"Wait"}, stop : Names, time : Int]
   \cup [kind : {"Ride"}, bus : Names, time : Int, span_count : Nat \ {0}]

ASSUME RouterAssumption ==
  /\ \A base \in Documents :
       /\ base \in Seq(Request) /\ ~ DBBuilderThrows(base)
       /\ AllDeclared(base) /\ RoadsAreMaps(base)
  /\ NameRank \in [Names -> Nat]
  /\ \A m, n \in Names : NameRank[m] = NameRank[n] => m = n
  /\ WaitTime \in Int /\ SpeedFactor \in Nat \ {0}
  /\ NoAnswer \notin [from : Names, to : Names] \cup [time : Int, items : Seq(Item)]
  /\ NoRoute \notin [weight : Int, edges : Seq(Nat)]

VARIABLES
  base,         (* the document, for the properties only                   *)
  catalogue,
  pc,
  stop_data,    (* stop_data_: stop -> [vertex_in_id, vertex_out_id]       *)
  vertex_ids,   (* vertex_ids_                                             *)
  edge_data,    (* edge_data_                                              *)
  stops_left,   (* stops whose wait edge is still to come                  *)
  buses_left,   (* buses GetEdges has not come to yet                      *)
  bus, route,   (* the bus at hand, and its stops as they are travelled    *)
  turn,         (* a chain that has still to be travelled the other way    *)
  outer, inner, (* outer_runner, inner_runner                              *)
  edges,        (* the edges of current_graph, by id from 0                *)
  items,        (* edges_: the Wait or Ride of each edge, by id from 0     *)
  query, answer

vars == <<base, catalogue, pc, stop_data, vertex_ids, edge_data, stops_left,
          buses_left, bus, route, turn, outer, inner, edges, items, query, answer>>

loop_vars  == <<stops_left, buses_left, bus, route, turn, outer, inner>>
graph_vars == <<edges, items>>
ask_vars   == <<query, answer>>

VertexCount == 2 * Cardinality(DOMAIN stop_data) + 1

(* The graph as graph::Router sees it.                                     *)
Search == INSTANCE ShortestPath WITH
  VertexCount <- VertexCount, Weights <- Int, edges <- edges,
  phase <- pc, query <- query, answer <- answer,
  NoRoute <- NoRoute, NoAnswer <- NoAnswer

FirstName(S) == CHOOSE n \in S : \A m \in S : NameRank[n] <= NameRank[m]

GetLastId == Len(vertex_ids)

Init ==
  /\ base \in Documents
  /\ catalogue = DBBuilder(base)
  /\ pc = "vertexes"
  /\ stop_data = EmptyMap /\ vertex_ids = <<>> /\ edge_data = <<>>
  /\ stops_left = StopNames(catalogue) /\ buses_left = BusNames(catalogue)
  /\ bus = NoAnswer /\ route = <<>> /\ turn = FALSE /\ outer = 1 /\ inner = 2
  /\ edges = <<>> /\ items = <<>>
  /\ query = NoAnswer /\ answer = NoAnswer

-----------------------------------------------------------------------------
(* GetVertexes: stops by name.  (ids begin with 1: vertex 0 has no edges.) *)

VerticesOverlap(id) == [vertex_in_id |-> id + 1, vertex_out_id |-> id + 1]
VerticesAt(id) == [vertex_in_id |-> id + 1, vertex_out_id |-> id + 2]

GetVertex ==
  /\ pc = "vertexes"
  /\ StopNames(catalogue) # DOMAIN stop_data
  /\ LET stop == FirstName(StopNames(catalogue) \ DOMAIN stop_data)
     IN  /\ stop_data' = Assign(stop_data, stop, VerticesAt(GetLastId))
         /\ vertex_ids' = vertex_ids \o <<GetLastId + 1, GetLastId + 2>>
  /\ UNCHANGED <<base, catalogue, pc, edge_data, loop_vars, graph_vars, ask_vars>>

VertexesDone ==
  /\ pc = "vertexes"
  /\ StopNames(catalogue) = DOMAIN stop_data
  /\ pc' = "waits"
  /\ UNCHANGED <<base, catalogue, stop_data, vertex_ids, edge_data, loop_vars,
                 graph_vars, ask_vars>>

(* GetEdges, in-stop edges: stop_data_ is ordered by the addresses of the  *)
(* stops, hence in any order.                                              *)
WaitEdgeOf(stop) ==
  [origin_id |-> stop_data[stop].vertex_in_id,
   destination_id |-> stop_data[stop].vertex_out_id,
   weight |-> WaitTime, item |-> [kind |-> "Wait", stop |-> stop, time |-> WaitTime]]

WaitEdge(stop) ==
  /\ pc = "waits"
  /\ edge_data' = Append(edge_data, WaitEdgeOf(stop))
  /\ stops_left' = stops_left \ {stop}
  /\ UNCHANGED <<base, catalogue, pc, stop_data, vertex_ids, buses_left, bus,
                 route, turn, outer, inner, graph_vars, ask_vars>>

WaitEdgesDone ==
  /\ pc = "waits"
  /\ stops_left = {}
  /\ pc' = "buses"
  /\ UNCHANGED <<base, catalogue, stop_data, vertex_ids, edge_data, loop_vars,
                 graph_vars, ask_vars>>

(* GetEdges, buses by name: a chain is travelled as it is stored and then  *)
(* in reverse, a round trip in reverse only.                               *)
TravelAsStored(stored, is_chain) == stored
FirstTravel(stored, is_chain) == IF is_chain THEN stored ELSE Reverse(stored)

TakeBus ==
  /\ pc = "buses"
  /\ buses_left # {}
  /\ LET next == FirstName(buses_left)
     IN  /\ bus' = next
         /\ buses_left' = buses_left \ {next}
         /\ route' = FirstTravel(catalogue.buses[next].route, catalogue.buses[next].is_chain)
         /\ turn' = catalogue.buses[next].is_chain
  /\ outer' = 1 /\ inner' = 2
  /\ pc' = "rides"
  /\ UNCHANGED <<base, catalogue, stop_data, vertex_ids, edge_data, stops_left,
                 graph_vars, ask_vars>>

(* GetEdgeWeight: length from one position of the route to a later one; it *)
(* throws if a hop on the way has a distance in neither direction.         *)
HopsKnown(from, to) ==
  \A k \in from + 1 .. to : HasDistance(catalogue, route[k - 1], route[k])

Length(from, to) ==
  LET sum[k \in from .. to] ==
        IF k = from THEN 0
        ELSE sum[k - 1] + GetDistance(catalogue, route[k - 1], route[k])
  IN  sum[to]

LastStopAsEnd == Len(route) - 1
RouteEnd == Len(route)

SpanCount(from, to) == to - from

RideOrigin(stop) == stop_data[stop].vertex_out_id

RideEdgeOf(from, to) ==
  LET time == Length(from, to) * SpeedFactor
  IN  [origin_id |-> RideOrigin(route[from]),
       destination_id |-> stop_data[route[to]].vertex_in_id,
       weight |-> time,
       item |-> [kind |-> "Ride", bus |-> bus, time |-> time, span_count |-> SpanCount(from, to)]]

RideEdge ==
  /\ pc = "rides"
  /\ inner <= RouteEnd
  /\ IF HopsKnown(outer, inner)
       THEN /\ edge_data' = Append(edge_data, RideEdgeOf(outer, inner))
            /\ inner' = inner + 1
            /\ UNCHANGED pc
       ELSE /\ pc' = "threw"
            /\ UNCHANGED <<edge_data, inner>>
  /\ UNCHANGED <<base, catalogue, stop_data, vertex_ids, stops_left, buses_left,
                 bus, route, turn, outer, graph_vars, ask_vars>>

NextOuter ==
  /\ pc = "rides"
  /\ inner > RouteEnd /\ outer <= RouteEnd
  /\ outer' = outer + 1
  /\ inner' = outer + 2
  /\ UNCHANGED <<base, catalogue, pc, stop_data, vertex_ids, edge_data, stops_left,
                 buses_left, bus, route, turn, graph_vars, ask_vars>>

(* std::reverse on the copy of the route, for the second pass of a chain.  *)
TurnsLeft == FALSE

TurnRound ==
  /\ pc = "rides"
  /\ outer > RouteEnd
  /\ turn
  /\ route' = Reverse(route)
  /\ turn' = TurnsLeft
  /\ outer' = 1 /\ inner' = 2
  /\ UNCHANGED <<base, catalogue, pc, stop_data, vertex_ids, edge_data, stops_left,
                 buses_left, bus, graph_vars, ask_vars>>

BusDone ==
  /\ pc = "rides"
  /\ outer > RouteEnd
  /\ ~ turn
  /\ pc' = "buses"
  /\ UNCHANGED <<base, catalogue, stop_data, vertex_ids, edge_data, loop_vars,
                 graph_vars, ask_vars>>

BusesDone ==
  /\ pc = "buses"
  /\ buses_left = {}
  /\ pc' = "graph"
  /\ UNCHANGED <<base, catalogue, stop_data, vertex_ids, edge_data, loop_vars,
                 graph_vars, ask_vars>>

(* BuildRouter                                                             *)
AddEdge ==
  /\ pc = "graph"
  /\ Len(edges) < Len(edge_data)
  /\ LET e == edge_data[Len(edges) + 1]
     IN  IF e.origin_id < VertexCount
           THEN /\ edges' = Append(edges, [from |-> e.origin_id, to |-> e.destination_id,
                                           weight |-> e.weight])
                /\ items' = Append(items, e.item)
                /\ UNCHANGED pc
           ELSE /\ pc' = "threw"
                /\ UNCHANGED graph_vars
  /\ UNCHANGED <<base, catalogue, stop_data, vertex_ids, edge_data, loop_vars, ask_vars>>

(* The constructor of graph::Router refuses an edge of negative weight.    *)
RouterBuilt ==
  /\ pc = "graph"
  /\ Len(edges) = Len(edge_data)
  /\ pc' = IF Search!HasNegative THEN "domain_error" ELSE "ready"
  /\ UNCHANGED <<base, catalogue, stop_data, vertex_ids, edge_data, loop_vars,
                 graph_vars, ask_vars>>

-----------------------------------------------------------------------------
(* RouteSearch                                                             *)

(* Walks from u that visit no vertex twice, as sequences of edge ids: what *)
(* BuildRoute returns is among them (WalkIsSimple of Router).              *)
EdgeEnd(u, walk) == IF walk = <<>> THEN u ELSE edges[Last(walk) + 1].to

SimpleWalks(u) ==
  LET visited(walk) == {u} \cup {edges[walk[k] + 1].to : k \in DOMAIN walk}
      longer(walk) ==
        {Append(walk, id) : id \in
           {e \in 0 .. Len(edges) - 1 :
              /\ edges[e + 1].from = EdgeEnd(u, walk)
              /\ edges[e + 1].to \notin visited(walk)}}
      of_length[n \in Nat] ==
        IF n = 0 THEN {<<>>} ELSE UNION {longer(walk) : walk \in of_length[n - 1]}
  IN  UNION {of_length[n] : n \in 0 .. VertexCount - 1}

BuildRoute(u, v) ==
  LET walks == {w \in SimpleWalks(u) : EdgeEnd(u, w) = v}
      least == {w \in walks : \A x \in walks : Search!WalkWeight(w) <= Search!WalkWeight(x)}
  IN  IF walks = {} THEN {NoRoute}
      ELSE {[weight |-> Search!WalkWeight(w), edges |-> w] : w \in least}

(* GetSearchResult                                                         *)
Sections(ids) == [k \in DOMAIN ids |-> items[ids[k] + 1]]

NoSections == [time |-> 0, items |-> <<>>]
NotFound   == [time |-> -1, items |-> <<>>]

(* GetFromToId looks up the vertex where one arrives, at both ends.        *)
BoardingVertex(stop) == stop_data[stop].vertex_out_id
OriginVertex(stop) == stop_data[stop].vertex_in_id

NeverTheSame(from, to) == FALSE
SameName(from, to) == from = to

(* ReturnStop enters an unknown name into the catalogue before the lookup  *)
(* in stop_data_ throws; the name of the origin is looked up first.        *)
RouteSearch(from, to) ==
  /\ pc = "ready"
  /\ query = NoAnswer
  /\ query' = [from |-> from, to |-> to]
  /\ IF SameName(from, to)
       THEN answer' = NoSections /\ UNCHANGED <<catalogue, pc>>
     ELSE IF {from, to} \subseteq DOMAIN stop_data
       THEN /\ \E found \in BuildRoute(OriginVertex(from), stop_data[to].vertex_in_id) :
                 answer' = IF found = NoRoute THEN NotFound
                           ELSE [time |-> found.weight, items |-> Sections(found.edges)]
            /\ UNCHANGED <<catalogue, pc>>
     ELSE /\ catalogue' = ReturnStop(catalogue, IF from \in DOMAIN stop_data THEN to ELSE from)
          /\ pc' = "threw"
          /\ UNCHANGED answer
  /\ UNCHANGED <<base, stop_data, vertex_ids, edge_data, loop_vars, graph_vars>>

(* The caller reads the answer and may ask again.                          *)
TakeAnswer ==
  /\ pc = "ready"
  /\ query # NoAnswer
  /\ query' = NoAnswer /\ answer' = NoAnswer
  /\ UNCHANGED <<base, catalogue, pc, stop_data, vertex_ids, edge_data, loop_vars,
                 graph_vars>>

Construct ==
  \/ GetVertex \/ VertexesDone
  \/ \E stop \in stops_left : WaitEdge(stop)
  \/ WaitEdgesDone \/ TakeBus \/ RideEdge \/ NextOuter \/ TurnRound \/ BusDone
  \/ BusesDone \/ AddEdge \/ RouterBuilt

Next ==
  \/ Construct
  \/ \E from, to \in Names : RouteSearch(from, to)
  \/ TakeAnswer

Spec == Init /\ [][Next]_vars

-----------------------------------------------------------------------------
(* Type invariant, a part of GraphConsistent.                              *)

(* Every variable stays in its type, and the loop variables within the     *)
(* routes they index.                                                      *)
TypeOK ==
  /\ base \in Documents
  /\ pc \in {"vertexes", "waits", "buses", "rides", "graph", "ready",
             "domain_error", "threw"}
  /\ DOMAIN stop_data \subseteq StopNames(catalogue)
  /\ stop_data \in [DOMAIN stop_data -> [vertex_in_id : Nat, vertex_out_id : Nat]]
  /\ vertex_ids \in Seq(Nat)
  /\ edge_data \in Seq([origin_id : Nat, destination_id : Nat, weight : Int, item : Item])
  /\ stops_left \subseteq StopNames(catalogue)
  /\ buses_left \subseteq BusNames(catalogue)
  /\ bus \in BusNames(catalogue) \cup {NoAnswer}
  /\ route \in Seq(StopNames(catalogue))
  /\ turn \in BOOLEAN /\ outer \in 1 .. Len(route) + 1 /\ inner \in 2 .. Len(route) + 2
  /\ edges \in Seq([from : Nat, to : Nat, weight : Int]) /\ items \in Seq(Item)
  /\ query \in [from : Names, to : Names] \cup {NoAnswer}
  /\ answer \in [time : Int, items : Seq(Item)] \cup {NoAnswer}

-----------------------------------------------------------------------------
(* Safety.                                                                 *)

VertexIds == 1 .. 2 * Cardinality(DOMAIN stop_data)

(* No two vertices of the stops share an id, and every edge that is built  *)
(* joins vertices of stops.  So incidence_lists_.at does not throw, and    *)
(* graph::Router, which indexes its table by edge.to without a test, stays *)
(* within a graph of 2 n + 1 vertices.                                     *)
VerticesDistinct ==
  /\ Len(vertex_ids) = 2 * Cardinality(DOMAIN stop_data)
  /\ \A s \in DOMAIN stop_data :
       stop_data[s].vertex_in_id \in VertexIds /\ stop_data[s].vertex_out_id \in VertexIds
  /\ \A s, t \in DOMAIN stop_data :
       /\ stop_data[s].vertex_in_id # stop_data[t].vertex_out_id
       /\ s # t => /\ stop_data[s].vertex_in_id # stop_data[t].vertex_in_id
                   /\ stop_data[s].vertex_out_id # stop_data[t].vertex_out_id

EdgesFit ==
  /\ \A k \in DOMAIN edge_data :
       \E s, t \in DOMAIN stop_data :
         IF edge_data[k].item.kind = "Wait"
           THEN /\ s = t /\ edge_data[k].item.stop = s
                /\ edge_data[k].origin_id = stop_data[s].vertex_in_id
                /\ edge_data[k].destination_id = stop_data[s].vertex_out_id
           ELSE /\ edge_data[k].origin_id = stop_data[s].vertex_out_id
                /\ edge_data[k].destination_id = stop_data[t].vertex_in_id
  /\ Len(edges) = Len(items) /\ Len(edges) <= Len(edge_data)
  /\ \A k \in DOMAIN edges :
       /\ edges[k] = [from |-> edge_data[k].origin_id, to |-> edge_data[k].destination_id,
                      weight |-> edge_data[k].weight]
       /\ items[k] = edge_data[k].item

(* The graph never refers to a vertex of no stop, or of two, and a loop    *)
(* never to a stop outside of its route, whatever is built when.           *)
GraphConsistent == TypeOK /\ VerticesDistinct /\ EdgesFit

(* The ways a bus can be ridden, as its request gives them: there, and for *)
(* a chain back; nobody rides on through the terminus of a chain.          *)
BusRequests == IF HasNull(base) THEN {} ELSE {k \in DOMAIN base : base[k].type = "Bus"}

DeclaredOnce == \A k, n \in BusRequests : base[k].name = base[n].name => k = n

Ways(request) == IF request.is_roundtrip THEN {request.stops}
                 ELSE {request.stops, Reverse(request.stops)}

WayLength(way, from, to) ==
  LET sum[k \in from .. to] ==
        IF k = from THEN 0 ELSE sum[k - 1] + RoadLength(base, way[k - 1], way[k])
  IN  sum[to]

Rides(request) ==
  UNION {{[bus |-> request.name, from |-> way[p[1]], to |-> way[p[2]],
           time |-> SpeedFactor * WayLength(way, p[1], p[2]), span_count |-> p[2] - p[1]] :
            p \in {q \in (DOMAIN way) \X (DOMAIN way) : q[1] < q[2]}} :
         way \in Ways(request)}

AllRides == UNION {Rides(base[k]) : k \in BusRequests}

RidesOffered(request) ==
  LET n == Len(request.stops)
  IN  (IF request.is_roundtrip THEN 1 ELSE 2) * ((n * (n - 1)) \div 2)

RideCount ==
  LET count[k \in 0 .. Len(base)] ==
        IF k = 0 THEN 0
        ELSE count[k - 1] + IF k \in BusRequests THEN RidesOffered(base[k]) ELSE 0
  IN  count[Len(base)]

StopLeaving(id) == CHOOSE s \in DOMAIN stop_data : stop_data[s].vertex_out_id = id
StopReached(id) == CHOOSE s \in DOMAIN stop_data : stop_data[s].vertex_in_id = id

(* Routes were reversed once on loading and are reversed again here, once  *)
(* or twice: the rides of the graph are exactly those of the document, in  *)
(* its directions, each with the length of the road travelled that way and *)
(* the number of hops, and besides them there is one wait per stop.        *)
RidesAreTheDocuments ==
  pc \in {"graph", "ready", "domain_error"} =>
    LET rides == {k \in DOMAIN edge_data : edge_data[k].item.kind = "Ride"}
    IN  /\ {edge_data[k].item.stop : k \in (DOMAIN edge_data) \ rides} = StopNames(catalogue)
        /\ DeclaredOnce =>
             /\ Len(edge_data) = Cardinality(StopNames(catalogue)) + RideCount
             /\ AllRides =
                  {[bus |-> edge_data[k].item.bus,
                    from |-> StopLeaving(edge_data[k].origin_id),
                    to |-> StopReached(edge_data[k].destination_id),
                    time |-> edge_data[k].weight,
                    span_count |-> edge_data[k].item.span_count] : k \in rides}

(* The constructor throws exactly for a hop without any road, which spoils *)
(* the answers to all requests, and ends in domain_error exactly for a     *)
(* ride, or a wait at some stop, that takes less than no time.             *)
ConstructorOutcome ==
  LET hops == UNION {{<<base[k].stops[n - 1], base[k].stops[n]>> :
                        n \in 2 .. Len(base[k].stops)} : k \in BusRequests}
      roads == \A hop \in hops : HasRoad(base, hop[1], hop[2])
      negative == \/ \E ride \in AllRides : ride.time < 0
                  \/ WaitTime < 0 /\ StopNames(catalogue) # {}
  IN  DeclaredOnce =>
        /\ pc \in {"graph", "ready", "domain_error"} => roads
        /\ pc = "threw" /\ query = NoAnswer => ~ roads
        /\ pc = "ready" => ~ negative
        /\ pc = "domain_error" => negative

(* A search throws exactly for two different names of which one is not a   *)
(* stop: not for an unknown name asked about itself, which is answered     *)
(* with a way of no sections.  Only a search that throws leaves a stop     *)
(* nobody declared in the catalogue.                                       *)
SearchOutcome ==
  /\ query # NoAnswer =>
       ((pc = "threw") <=>
          (query.from # query.to /\ ~ {query.from, query.to} \subseteq DOMAIN stop_data))
  /\ (catalogue # DBBuilder(base)) <=> (pc = "threw" /\ query # NoAnswer)

TotalTime(s) ==
  LET sum[k \in 0 .. Len(s)] == IF k = 0 THEN 0 ELSE sum[k - 1] + s[k].time
  IN  sum[Len(s)]

(* What is found can be travelled: waits and rides take turns, each ride   *)
(* is one the document offers from the stop waited at to the next stop     *)
(* waited at (at last to the goal), and the times add up.                  *)
AnswerIsJourney ==
  (answer \notin {NoAnswer, NotFound, NoSections} /\ DeclaredOnce) =>
    LET s == answer.items
        stop(k) == IF k > Len(s) THEN query.to ELSE s[k].stop
    IN  /\ Len(s) % 2 = 0 /\ Len(s) > 0
        /\ \A k \in DOMAIN s : s[k].kind = IF k % 2 = 1 THEN "Wait" ELSE "Ride"
        /\ stop(1) = query.from
        /\ \A k \in {n \in DOMAIN s : n % 2 = 0} :
             [bus |-> s[k].bus, from |-> stop(k - 1), to |-> stop(k + 1),
              time |-> s[k].time, span_count |-> s[k].span_count] \in AllRides
        /\ answer.time = TotalTime(s)

(* Shortest times from a stop, from the rides of the document alone: after *)
(* as many rides as there are stops no better one can follow.              *)
Arrivals(from) ==
  LET arrivals[n \in Nat] ==
        IF n = 0 THEN {<<from, 0>>}
        ELSE LET all == arrivals[n - 1] \cup
                   {<<p[2].to, p[1][2] + WaitTime + p[2].time>> :
                      p \in {q \in arrivals[n - 1] \X AllRides : q[1][1] = q[2].from}}
             IN  {a \in all : \A b \in all : a[1] = b[1] => a[2] <= b[2]}
  IN  arrivals[Cardinality(StopNames(catalogue))]

(* The two vertices per stop, the wait edges and the search together find  *)
(* the least time from stop to stop, a wait before every ride included,    *)
(* and report that there is no way exactly if there is none.               *)
AnswerIsFastest ==
  (pc = "ready" /\ answer # NoAnswer /\ query.from # query.to /\ DeclaredOnce) =>
    LET times == {a[2] : a \in {b \in Arrivals(query.from) : b[1] = query.to}}
    IN  IF times = {} THEN answer = NotFound
        ELSE answer # NotFound /\ answer.time = Min(times)
=============================================================================
