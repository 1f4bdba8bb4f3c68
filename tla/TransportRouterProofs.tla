----------------------- MODULE TransportRouterProofs -----------------------
(***************************************************************************)
(* Proofs about TransportRouter, for every base document and all routing   *)
(* settings.  Two invariants carry them.  GInv adds to GraphConsistent how *)
(* far the constructor has come (Progress) and where the catalogue stands  *)
(* to the one the router was given (Searched).  Construction says what the *)
(* edges built so far stand for: the rides of the buses that are done and  *)
(* those of the bus at hand, up to the pair of positions the loops are at, *)
(* in each of its passes; and how many they are.  What the catalogue knows *)
(* of the document comes from JSONReaderProofs.  Last comes the comparison *)
(* of the search with the arrivals the document allows: every arrival is   *)
(* that of a simple walk which takes no longer, and every simple walk is   *)
(* no faster than some arrival.                                            *)
(***************************************************************************)
EXTENDS TransportRouter, JSONReaderProofs, FiniteSetTheorems

(* The catalogue the router is built from.                                 *)
Source == DBBuilder(base)

(* What is known of it: it is well formed, its stops and buses agree, its  *)
(* stops are those its document declares, and there are only so many.      *)
LEMMA SourceFacts ==
  ASSUME base \in Documents
  PROVE  /\ base \in Seq(Request)
         /\ CatalogueType(Source) /\ IndexConsistent(Source)
         /\ StopNames(Source) \subseteq Names /\ BusNames(Source) \subseteq Names
         /\ IsFiniteSet(StopNames(Source))
<1>1. base \in Seq(Request) /\ AllDeclared(base)
  BY RouterAssumption
<1> QED
  BY <1>1, DBBuilderNames DEF Source

(* A set of names that is not empty has a first one.                       *)
LEMMA FirstNameFacts ==
  ASSUME NEW S, S \subseteq Names, S # {}
  PROVE  /\ FirstName(S) \in S
         /\ \A m \in S : NameRank[FirstName(S)] <= NameRank[m]
<1> DEFINE R == {NameRank[n] : n \in S}
<1>1. R \subseteq Nat /\ R # {}
  BY RouterAssumption
<1>2. PICK r \in R : \A q \in R : ~ (<<q, r>> \in LessThan)
  <2> HIDE DEF R
  <2> QED
    BY <1>1, LessThanWF, WFMin
<1>3. PICK n \in S : NameRank[n] = r
  OBVIOUS
<1>4. \A m \in S : NameRank[n] <= NameRank[m]
  <2> TAKE m \in S
  <2>1. NameRank[m] \in R /\ NameRank[m] \in Nat /\ r \in Nat
    BY <1>1
  <2>2. ~ (<<NameRank[m], r>> \in LessThan)
    BY <1>2, <2>1
  <2> HIDE DEF R
  <2> QED
    BY <1>3, <2>1, <2>2 DEF LessThan
<1> QED
  BY <1>3, <1>4 DEF FirstName

(* GetEdgeWeight, on any way.                                              *)
LengthOn(cat, way, from, to) ==
  LET sum[k \in from .. to] ==
        IF k = from THEN 0
        ELSE sum[k - 1] + GetDistance(cat, way[k - 1], way[k])
  IN  sum[to]

HopsOn(cat, way, from, to) ==
  \A k \in from + 1 .. to : HasDistance(cat, way[k - 1], way[k])

LEMMA DistanceType ==
  ASSUME NEW cat, CatalogueType(cat), NEW from, NEW to, HasDistance(cat, from, to)
  PROVE  GetDistance(cat, from, to) \in Int
<1>1. cat.distances \in [DOMAIN cat.distances -> Int]
  BY DEF CatalogueType, IsPartialFunction
<1> QED
  BY <1>1 DEF GetDistance, HasDistance

(* It is the sum of the lengths of the hops.                               *)
LEMMA LengthIsSum ==
  ASSUME NEW cat, CatalogueType(cat), NEW way,
         NEW from \in Nat, NEW to \in Nat, from <= to, HopsOn(cat, way, from, to)
  PROVE  \E g \in [from .. to -> Int] :
           /\ Sums(g, from, to,
                   [k \in from + 1 .. to |-> GetDistance(cat, way[k - 1], way[k])])
           /\ LengthOn(cat, way, from, to) = g[to]
<1> DEFINE w == [k \in from + 1 .. to |-> GetDistance(cat, way[k - 1], way[k])]
           Obeys(g) == g = [k \in from .. to |->
                             IF k = from THEN 0
                             ELSE g[k - 1] + GetDistance(cat, way[k - 1], way[k])]
           sum == CHOOSE g : Obeys(g)
<1>1. w \in [from + 1 .. to -> Int]
  BY DistanceType DEF HopsOn
<1>2. \A k \in from + 1 .. to : w[k] = GetDistance(cat, way[k - 1], way[k])
  OBVIOUS
<1>3. LengthOn(cat, way, from, to) = sum[to]
  BY DEF LengthOn
<1> HIDE DEF w
<1>4. PICK g \in [from .. to -> Int] : Sums(g, from, to, w)
  BY <1>1, SumsExist
<1>5. Obeys(g)
  <2>1. \A k \in from .. to : k # from => k \in from + 1 .. to
    OBVIOUS
  <2> QED
    BY <1>2, <1>4, <2>1 DEF Sums
<1>6. Obeys(sum)
  <2> HIDE DEF Obeys
  <2> QED
    BY <1>5
<1>7. Sums(sum, from, to, w)
  <2> HIDE DEF sum
  <2>1. from \in from .. to /\ \A k \in from + 1 .. to : k \in from .. to /\ k # from
    OBVIOUS
  <2> QED
    BY <1>2, <1>6, <2>1 DEF Sums
<1> HIDE DEF sum
<1>8. to \in from .. to
  OBVIOUS
<1>9. sum[to] = g[to]
  BY <1>4, <1>7, <1>8, SumsAgree
<1> QED
  BY <1>3, <1>4, <1>9 DEF w

LEMMA LengthType ==
  ASSUME NEW cat, CatalogueType(cat), NEW way,
         NEW from \in Nat, NEW to \in Nat, from <= to, HopsOn(cat, way, from, to)
  PROVE  LengthOn(cat, way, from, to) \in Int
<1>1. to \in from .. to
  OBVIOUS
<1>2. PICK g \in [from .. to -> Int] : LengthOn(cat, way, from, to) = g[to]
  BY LengthIsSum
<1> QED
  BY <1>1, <1>2

(* The loops of GetEdges look at the route at hand.                        *)
LEMMA OnTheRoute ==
  /\ \A from, to : Length(from, to) = LengthOn(catalogue, route, from, to)
  /\ \A from, to : HopsKnown(from, to) <=> HopsOn(catalogue, route, from, to)
BY DEF Length, LengthOn, HopsKnown, HopsOn

-----------------------------------------------------------------------------
(* The graph.                                                              *)

(* What the constructor has done when it gets to the next loop, and what   *)
(* becomes of the catalogue when a search for an unknown stop throws.      *)
Progress ==
  /\ pc = "vertexes" => edge_data = <<>>
  /\ pc # "vertexes" => DOMAIN stop_data = StopNames(Source)
  /\ pc = "rides" => outer < inner /\ bus \in BusNames(Source)

Searched ==
  /\ query # NoAnswer => pc \in {"ready", "threw"}
  /\ IF pc = "threw" /\ query # NoAnswer
       THEN /\ \E name \in Names \ StopNames(Source) : catalogue = ReturnStop(Source, name)
            /\ query.from # query.to /\ ~ {query.from, query.to} \subseteq DOMAIN stop_data
       ELSE catalogue = Source
  /\ query # NoAnswer /\ pc = "ready" =>
       query.from = query.to \/ {query.from, query.to} \subseteq DOMAIN stop_data

GInv == GraphConsistent /\ Progress /\ Searched

Building == pc \in {"vertexes", "waits", "buses", "rides", "graph"}

(* While the graph is built the catalogue is the one it was given.         *)
LEMMA CatalogueFacts ==
  ASSUME GInv, Building \/ query = NoAnswer
  PROVE  /\ catalogue = Source /\ CatalogueType(catalogue) /\ IndexConsistent(catalogue)
         /\ StopNames(catalogue) \subseteq Names /\ BusNames(catalogue) \subseteq Names
         /\ IsFiniteSet(StopNames(catalogue))
         /\ base \in Documents
<1>1. base \in Documents
  BY DEF GInv, GraphConsistent, TypeOK
<1>2. catalogue = Source
  BY DEF GInv, Searched, Building
<1> QED
  BY <1>1, <1>2, SourceFacts

EdgeData == [origin_id : Nat, destination_id : Nat, weight : Int, item : Item]

VertexPair == [vertex_in_id : Nat, vertex_out_id : Nat]

LEMMA InitGInv == Init => GInv
<1> SUFFICES ASSUME Init PROVE GInv
  OBVIOUS
<1> USE DEF Init
<1>1. /\ CatalogueType(Source) /\ catalogue = Source /\ IsFiniteSet(StopNames(Source))
  BY SourceFacts DEF Source
<1>2. DOMAIN stop_data = {} /\ stop_data \in [DOMAIN stop_data -> VertexPair]
  <2>1. \A S : EmptyMap \in [{} -> S]
    BY DEF EmptyMap
  <2> QED
    BY <2>1 DEF EmptyMap
<1>3. <<>> \in Seq(StopNames(catalogue)) /\ vertex_ids \in Seq(Nat)
      /\ edge_data \in Seq(EdgeData) /\ edges \in Seq([from : Nat, to : Nat, weight : Int])
      /\ items \in Seq(Item)
  OBVIOUS
<1>4. TypeOK
  <2>1. outer \in 1 .. Len(route) + 1 /\ inner \in 2 .. Len(route) + 2
    OBVIOUS
  <2>2. DOMAIN stop_data \subseteq StopNames(catalogue)
    BY <1>2
  <2> QED
    BY <1>2, <1>3, <2>1, <2>2 DEF TypeOK, EdgeData, VertexPair
<1>5. VerticesDistinct
  BY <1>2, FS_EmptySet DEF VerticesDistinct
<1>6. EdgesFit
  BY DEF EdgesFit
<1>7. Progress /\ Searched
  BY <1>1 DEF Progress, Searched
<1> QED
  BY <1>4, <1>5, <1>6, <1>7 DEF GInv, GraphConsistent

(* A step that leaves the graph, the vertices and the search alone.        *)
LEMMA LoopStep ==
  ASSUME GInv, Building, Building', pc # "vertexes", pc' # "vertexes",
         UNCHANGED <<base, catalogue, stop_data, vertex_ids, edge_data, graph_vars, ask_vars>>,
         stops_left' \subseteq StopNames(catalogue), buses_left' \subseteq BusNames(catalogue),
         bus' \in BusNames(catalogue) \cup {NoAnswer},
         route' \in Seq(StopNames(catalogue)), turn' \in BOOLEAN,
         outer' \in 1 .. Len(route') + 1, inner' \in 2 .. Len(route') + 2,
         pc' = "rides" => outer' < inner' /\ bus' \in BusNames(catalogue)
  PROVE  GInv'
<1> USE DEF graph_vars, ask_vars, Building
<1>1. TypeOK /\ VerticesDistinct /\ EdgesFit
  BY DEF GInv, GraphConsistent
<1>2. TypeOK'
  BY <1>1 DEF TypeOK
<1>3. VerticesDistinct'
  BY <1>1 DEF VerticesDistinct, VertexIds
<1>4. EdgesFit'
  BY <1>1 DEF EdgesFit
<1>5. catalogue = Source
  BY CatalogueFacts
<1>6. Progress'
  BY <1>5 DEF GInv, Progress, Source
<1>7. Searched'
  BY DEF GInv, Searched, Source
<1> QED
  BY <1>2, <1>3, <1>4, <1>6, <1>7 DEF GInv, GraphConsistent

(* GetVertexes: a stop without vertices gets the next two.                 *)
LEMMA GetVertexStep == GInv /\ GetVertex => GInv'
<1> SUFFICES ASSUME GInv, GetVertex PROVE GInv'
  OBVIOUS
<1> USE DEF graph_vars, ask_vars, loop_vars
<1>1. TypeOK /\ VerticesDistinct /\ EdgesFit /\ Progress /\ Searched
  BY DEF GInv, GraphConsistent
<1>2. pc = "vertexes" /\ Building
  BY DEF GetVertex, Building
<1>3. /\ catalogue = Source /\ StopNames(catalogue) \subseteq Names
      /\ IsFiniteSet(StopNames(catalogue))
  BY <1>2, CatalogueFacts
<1> DEFINE stop == FirstName(StopNames(catalogue) \ DOMAIN stop_data)
           S == DOMAIN stop_data
           n == Cardinality(S)
<1>4. S \subseteq StopNames(catalogue) /\ StopNames(catalogue) # S
  BY <1>1 DEF TypeOK, GetVertex
<1>5. stop \in StopNames(catalogue) \ S
  BY <1>3, <1>4, FirstNameFacts
<1>6. /\ stop_data' = Assign(stop_data, stop, VerticesAt(GetLastId))
      /\ vertex_ids' = vertex_ids \o <<GetLastId + 1, GetLastId + 2>>
      /\ UNCHANGED <<base, catalogue, pc, edge_data, stops_left, buses_left, bus, route,
                     turn, outer, inner, edges, items, query, answer>>
  BY DEF GetVertex
<1> HIDE DEF stop
<1>7. IsFiniteSet(S)
  BY <1>3, <1>4, FS_Subset
<1>8. n \in Nat
  BY <1>7, FS_CardinalityType
<1>9. GetLastId = 2 * n
  BY <1>1 DEF VerticesDistinct, GetLastId
<1>10. VerticesAt(GetLastId) = [vertex_in_id |-> 2 * n + 1, vertex_out_id |-> 2 * n + 2]
  BY <1>9 DEF VerticesAt
<1>11. /\ DOMAIN stop_data' = S \cup {stop}
       /\ stop_data'[stop] = VerticesAt(GetLastId)
       /\ \A s \in S : stop_data'[s] = stop_data[s]
  BY <1>5, <1>6 DEF Assign
<1>12. Cardinality(DOMAIN stop_data') = n + 1
  BY <1>5, <1>7, <1>11, FS_AddElement
<1>13. TypeOK'
  <2>1. DOMAIN stop_data' \subseteq StopNames(catalogue')
    BY <1>4, <1>5, <1>6, <1>11
  <2>2. VerticesAt(GetLastId) \in VertexPair
    <3>1. 2 * n + 1 \in Nat /\ 2 * n + 2 \in Nat
      BY <1>8
    <3> QED
      BY <1>10, <3>1 DEF VertexPair
  <2>3. stop_data' \in [DOMAIN stop_data' -> VertexPair]
    <3>1. stop_data \in [S -> VertexPair]
      BY <1>1 DEF TypeOK, VertexPair
    <3> QED
      BY <2>2, <3>1, <1>6, <1>11 DEF Assign
  <2>4. vertex_ids' \in Seq(Nat)
    BY <1>1, <1>6, <1>8, <1>9, SMTT(30) DEF TypeOK
  <2> QED
    BY <1>1, <1>6, <2>1, <2>3, <2>4 DEF TypeOK, VertexPair
<1>14. VerticesDistinct'
  <2>1. Len(vertex_ids') = 2 * Cardinality(DOMAIN stop_data')
    <3>1. vertex_ids \in Seq(Nat) /\ Len(vertex_ids) = 2 * n
      BY <1>1, <1>9 DEF TypeOK, GetLastId
    <3>2. \A p, q \in Nat : Len(vertex_ids \o <<p, q>>) = Len(vertex_ids) + 2
      BY <3>1
    <3>3. GetLastId + 1 \in Nat /\ GetLastId + 2 \in Nat
      BY <1>8, <1>9
    <3>4. Len(vertex_ids') = 2 * n + 2
      BY <3>1, <3>2, <3>3, <1>6
    <3> QED
      BY <3>4, <1>8, <1>12
  <2>2. \A s \in S : /\ stop_data[s].vertex_in_id \in 1 .. 2 * n
                     /\ stop_data[s].vertex_out_id \in 1 .. 2 * n
    BY <1>1 DEF VerticesDistinct, VertexIds
  <2>3. ASSUME NEW s \in DOMAIN stop_data'
        PROVE  /\ stop_data'[s].vertex_in_id \in 1 .. 2 * (n + 1)
               /\ stop_data'[s].vertex_out_id \in 1 .. 2 * (n + 1)
    <3>1. CASE s \in S
      BY <1>8, <1>11, <2>2, <3>1
    <3>2. CASE s = stop
      BY <1>8, <1>10, <1>11, <3>2
    <3> QED
      BY <1>11, <3>1, <3>2
  <2>4. ASSUME NEW s \in DOMAIN stop_data', NEW t \in DOMAIN stop_data'
        PROVE  /\ stop_data'[s].vertex_in_id # stop_data'[t].vertex_out_id
               /\ s # t => /\ stop_data'[s].vertex_in_id # stop_data'[t].vertex_in_id
                           /\ stop_data'[s].vertex_out_id # stop_data'[t].vertex_out_id
    <3>1. CASE s \in S /\ t \in S
      BY <1>1, <1>11, <3>1 DEF VerticesDistinct
    <3>2. CASE s \in S /\ t = stop
      BY <1>8, <1>10, <1>11, <2>2, <3>2
    <3>3. CASE s = stop /\ t \in S
      BY <1>8, <1>10, <1>11, <2>2, <3>3
    <3>4. CASE s = stop /\ t = stop
      BY <1>8, <1>10, <1>11, <3>4
    <3> QED
      BY <1>11, <3>1, <3>2, <3>3, <3>4
  <2> QED
    BY <1>12, <2>1, <2>3, <2>4 DEF VerticesDistinct, VertexIds
<1>15. EdgesFit'
  <2>1. edge_data = <<>>
    BY <1>1, <1>2 DEF Progress
  <2> QED
    BY <1>1, <1>6, <2>1 DEF EdgesFit
<1>16. Progress'
  BY <1>1, <1>2, <1>6 DEF Progress
<1>17. Searched'
  <2>1. query = NoAnswer
    BY <1>1, <1>2 DEF Searched
  <2> QED
    BY <1>1, <1>2, <1>6, <2>1 DEF Searched, Source
<1> QED
  BY <1>13, <1>14, <1>15, <1>16, <1>17 DEF GInv, GraphConsistent

LEMMA VertexesDoneStep == GInv /\ VertexesDone => GInv'
<1> SUFFICES ASSUME GInv, VertexesDone PROVE GInv'
  OBVIOUS
<1> USE DEF graph_vars, ask_vars, loop_vars, VertexesDone
<1>1. TypeOK /\ VerticesDistinct /\ EdgesFit /\ Progress /\ Searched
  BY DEF GInv, GraphConsistent
<1>2. catalogue = Source
  BY CatalogueFacts DEF Building
<1>3. TypeOK'
  BY <1>1 DEF TypeOK
<1>4. VerticesDistinct' /\ EdgesFit'
  BY <1>1 DEF VerticesDistinct, EdgesFit, VertexIds
<1>5. Progress'
  BY <1>1, <1>2 DEF Progress, Source
<1>6. Searched'
  BY <1>1 DEF Searched, Source
<1> QED
  BY <1>3, <1>4, <1>5, <1>6 DEF GInv, GraphConsistent

(* An edge that joins vertices of stops is added.                          *)
Fits(e) ==
  \E s, t \in DOMAIN stop_data :
    IF e.item.kind = "Wait"
      THEN /\ s = t /\ e.item.stop = s
           /\ e.origin_id = stop_data[s].vertex_in_id
           /\ e.destination_id = stop_data[s].vertex_out_id
      ELSE /\ e.origin_id = stop_data[s].vertex_out_id
           /\ e.destination_id = stop_data[t].vertex_in_id

LEMMA EdgeAdded ==
  ASSUME TypeOK, EdgesFit, NEW e \in EdgeData, Fits(e),
         edge_data' = Append(edge_data, e), UNCHANGED <<stop_data, edges, items>>
  PROVE  /\ edge_data' \in Seq(EdgeData) /\ EdgesFit'
<1>1. edge_data \in Seq(EdgeData) /\ edges \in Seq([from : Nat, to : Nat, weight : Int])
  BY DEF TypeOK, EdgeData
<1>2. edge_data' \in Seq(EdgeData) /\ Len(edge_data') = Len(edge_data) + 1
  BY <1>1
<1>3. /\ DOMAIN edge_data' = DOMAIN edge_data \cup {Len(edge_data) + 1}
      /\ \A k \in DOMAIN edge_data : edge_data'[k] = edge_data[k]
      /\ edge_data'[Len(edge_data) + 1] = e
  BY <1>1
<1>4. \A k \in DOMAIN edge_data : Fits(edge_data[k])
  BY DEF EdgesFit, Fits
<1>5. \A k \in DOMAIN edge_data' : Fits(edge_data'[k])
  <2> HIDE DEF Fits
  <2> QED
    BY <1>3, <1>4
<1>6. /\ \A k \in DOMAIN edges :
           /\ edges[k] = [from |-> edge_data[k].origin_id, to |-> edge_data[k].destination_id,
                          weight |-> edge_data[k].weight]
           /\ items[k] = edge_data[k].item
      /\ Len(edges) <= Len(edge_data) /\ Len(edges) = Len(items)
  BY DEF EdgesFit
<1>7. DOMAIN edges \subseteq DOMAIN edge_data
  BY <1>1, <1>6
<1>8. \A k \in DOMAIN edges :
           /\ edges[k] = [from |-> edge_data'[k].origin_id, to |-> edge_data'[k].destination_id,
                          weight |-> edge_data'[k].weight]
           /\ items[k] = edge_data'[k].item
  BY <1>3, <1>6, <1>7
<1>9. Len(edges) <= Len(edge_data')
  BY <1>1, <1>2, <1>6
<1>10. EdgesFit'
  BY <1>5, <1>6, <1>8, <1>9 DEF EdgesFit, Fits
<1> QED
  BY <1>2, <1>10

LEMMA ItemFacts ==
  /\ \A s \in Names : [kind |-> "Wait", stop |-> s, time |-> WaitTime] \in Item
  /\ \A b \in Names, t \in Int, n \in Nat \ {0} :
       [kind |-> "Ride", bus |-> b, time |-> t, span_count |-> n] \in Item
BY RouterAssumption DEF Item

(* The edge of the wait at a stop, and its step.                           *)
LEMMA WaitEdgeStep ==
  ASSUME GInv, NEW stop \in stops_left, WaitEdge(stop)
  PROVE  GInv'
<1> USE DEF graph_vars, ask_vars, loop_vars, Building
<1>1. TypeOK /\ VerticesDistinct /\ EdgesFit /\ Progress /\ Searched
  BY DEF GInv, GraphConsistent
<1>2. pc = "waits"
  BY DEF WaitEdge
<1>3. /\ catalogue = Source /\ StopNames(catalogue) \subseteq Names
  BY <1>2, CatalogueFacts
<1>4. stop \in StopNames(catalogue) /\ stop \in DOMAIN stop_data /\ stop \in Names
  BY <1>1, <1>2, <1>3 DEF TypeOK, Progress
<1>5. stop_data[stop] \in VertexPair
  BY <1>1, <1>4 DEF TypeOK, VertexPair
<1>6. WaitEdgeOf(stop) \in EdgeData /\ WaitEdgeOf(stop).item.kind = "Wait"
  BY <1>4, <1>5, ItemFacts, RouterAssumption DEF WaitEdgeOf, EdgeData, VertexPair
<1>7. Fits(WaitEdgeOf(stop))
  BY <1>4 DEF WaitEdgeOf, Fits
<1>8. /\ edge_data' = Append(edge_data, WaitEdgeOf(stop)) /\ stops_left' = stops_left \ {stop}
      /\ UNCHANGED <<base, catalogue, pc, stop_data, vertex_ids, buses_left, bus,
                     route, turn, outer, inner, edges, items, query, answer>>
  BY DEF WaitEdge
<1>9. edge_data' \in Seq(EdgeData) /\ EdgesFit'
  BY <1>1, <1>6, <1>7, <1>8, EdgeAdded
<1>10. TypeOK'
  BY <1>1, <1>8, <1>9 DEF TypeOK, EdgeData
<1>11. VerticesDistinct'
  BY <1>1, <1>8 DEF VerticesDistinct, VertexIds
<1>12. Progress' /\ Searched'
  BY <1>1, <1>2, <1>8 DEF Progress, Searched, Source
<1> QED
  BY <1>9, <1>10, <1>11, <1>12 DEF GInv, GraphConsistent

(* The edge of a ride.  The constructor throws instead if there is no road *)
(* for a hop.                                                              *)
LEMMA RideEdgeFacts ==
  ASSUME GInv, pc = "rides", inner <= RouteEnd, HopsKnown(outer, inner)
  PROVE  RideEdgeOf(outer, inner) \in EdgeData /\ Fits(RideEdgeOf(outer, inner))
<1>1. TypeOK /\ Progress
  BY DEF GInv, GraphConsistent
<1>2. /\ catalogue = Source /\ CatalogueType(catalogue) /\ BusNames(catalogue) \subseteq Names
  BY CatalogueFacts DEF Building
<1>3. /\ outer \in 1 .. Len(route) /\ inner \in 1 .. Len(route) /\ outer < inner
      /\ outer \in Nat /\ inner \in Nat /\ inner - outer \in Nat \ {0}
  <2>1. Len(route) \in Nat /\ outer \in 1 .. Len(route) + 1 /\ inner \in 2 .. Len(route) + 2
    BY <1>1 DEF TypeOK
  <2>2. outer < inner /\ inner <= Len(route)
    BY <1>1 DEF Progress, RouteEnd
  <2> QED
    BY <2>1, <2>2
<1>4. route[outer] \in DOMAIN stop_data /\ route[inner] \in DOMAIN stop_data
  <2>1. route \in Seq(DOMAIN stop_data)
    BY <1>1, <1>2 DEF TypeOK, Progress
  <2> QED
    BY <1>3, <2>1
<1>5. stop_data[route[outer]] \in VertexPair /\ stop_data[route[inner]] \in VertexPair
  BY <1>1, <1>4 DEF TypeOK, VertexPair
<1>6. Length(outer, inner) * SpeedFactor \in Int
  <2>1. Length(outer, inner) \in Int
    BY <1>2, <1>3, LengthType, OnTheRoute
  <2>2. SpeedFactor \in Int
    BY RouterAssumption
  <2> QED
    BY <2>1, <2>2
<1>7. bus \in Names
  BY <1>1, <1>2 DEF Progress
<1> DEFINE time == Length(outer, inner) * SpeedFactor
           item == [kind |-> "Ride", bus |-> bus, time |-> time, span_count |-> inner - outer]
<1>8. item \in Item
  <2> HIDE DEF time
  <2> QED
    BY <1>3, <1>6, <1>7, ItemFacts DEF time
<1>9. RideEdgeOf(outer, inner) =
        [origin_id |-> stop_data[route[outer]].vertex_out_id,
         destination_id |-> stop_data[route[inner]].vertex_in_id,
         weight |-> time, item |-> item]
  BY DEF RideEdgeOf, RideOrigin, SpanCount
<1>10. item.kind # "Wait"
  OBVIOUS
<1> HIDE DEF time, item
<1>11. RideEdgeOf(outer, inner) \in EdgeData
  BY <1>5, <1>6, <1>8, <1>9 DEF EdgeData, VertexPair, time
<1>12. Fits(RideEdgeOf(outer, inner))
  BY <1>4, <1>9, <1>10 DEF Fits
<1> QED
  BY <1>11, <1>12

LEMMA RideEdgeStep == GInv /\ RideEdge => GInv'
<1> SUFFICES ASSUME GInv, RideEdge PROVE GInv'
  OBVIOUS
<1> USE DEF graph_vars, ask_vars, loop_vars, Building
<1>1. TypeOK /\ VerticesDistinct /\ EdgesFit /\ Progress /\ Searched
  BY DEF GInv, GraphConsistent
<1>2. /\ pc = "rides" /\ inner <= RouteEnd
      /\ UNCHANGED <<base, catalogue, stop_data, vertex_ids, stops_left, buses_left, bus,
                     route, turn, outer, edges, items, query, answer>>
  BY DEF RideEdge
<1>3. query = NoAnswer
  BY <1>1, <1>2 DEF Searched
<1>4. VerticesDistinct'
  BY <1>1, <1>2 DEF VerticesDistinct, VertexIds
<1>5. CASE HopsKnown(outer, inner)
  <2>1. /\ edge_data' = Append(edge_data, RideEdgeOf(outer, inner))
        /\ inner' = inner + 1 /\ pc' = pc
    BY <1>5 DEF RideEdge
  <2>2. RideEdgeOf(outer, inner) \in EdgeData /\ Fits(RideEdgeOf(outer, inner))
    BY <1>2, <1>5, RideEdgeFacts
  <2>3. edge_data' \in Seq(EdgeData) /\ EdgesFit'
    BY <1>1, <1>2, <2>1, <2>2, EdgeAdded
  <2>4. inner' \in 2 .. Len(route') + 2 /\ outer' \in 1 .. Len(route') + 1
    BY <1>1, <1>2, <2>1 DEF TypeOK, RouteEnd
  <2>5. TypeOK'
    BY <1>1, <1>2, <2>1, <2>3, <2>4 DEF TypeOK, EdgeData
  <2>6. outer' < inner'
    BY <1>1, <1>2, <2>1 DEF Progress, TypeOK
  <2>7. Progress' /\ Searched'
    BY <1>1, <1>2, <2>1, <2>6 DEF Progress, Searched, Source
  <2> QED
    BY <1>4, <2>3, <2>5, <2>7 DEF GInv, GraphConsistent
<1>6. CASE ~ HopsKnown(outer, inner)
  <2>1. pc' = "threw" /\ UNCHANGED <<edge_data, inner>>
    BY <1>6 DEF RideEdge
  <2>2. TypeOK' /\ EdgesFit'
    BY <1>1, <1>2, <2>1 DEF TypeOK, EdgesFit
  <2>3. Progress' /\ Searched'
    BY <1>1, <1>2, <1>3, <2>1 DEF Progress, Searched, Source
  <2> QED
    BY <1>4, <2>2, <2>3 DEF GInv, GraphConsistent
<1> QED
  BY <1>5, <1>6

(* The steps of the loops over the buses and over the rides of a bus.      *)
LEMMA TakeBusStep == GInv /\ TakeBus => GInv'
<1> SUFFICES ASSUME GInv, TakeBus PROVE GInv'
  OBVIOUS
<1> DEFINE next == FirstName(buses_left)
           stored == catalogue.buses[next].route
           chain == catalogue.buses[next].is_chain
<1>1. TypeOK
  BY DEF GInv, GraphConsistent
<1>2. /\ pc = "buses" /\ buses_left # {} /\ pc' = "rides"
      /\ bus' = next /\ buses_left' = buses_left \ {next}
      /\ route' = (IF chain THEN stored ELSE Reverse(stored)) /\ turn' = chain
      /\ outer' = 1 /\ inner' = 2
      /\ UNCHANGED <<base, catalogue, stop_data, vertex_ids, edge_data, stops_left,
                     graph_vars, ask_vars>>
  BY DEF TakeBus, FirstTravel
<1>3. /\ CatalogueType(catalogue) /\ IndexConsistent(catalogue)
      /\ BusNames(catalogue) \subseteq Names
  BY <1>2, CatalogueFacts DEF Building
<1>4. buses_left \subseteq BusNames(catalogue) /\ stops_left \subseteq StopNames(catalogue)
  BY <1>1 DEF TypeOK
<1>5. next \in buses_left
  BY <1>2, <1>3, <1>4, FirstNameFacts
<1>6. /\ stored \in Seq(StopNames(catalogue)) /\ Reverse(stored) \in Seq(StopNames(catalogue))
      /\ chain \in BOOLEAN
  BY <1>3, <1>4, <1>5, BusFacts
<1> HIDE DEF next, stored, chain
<1>7. route' \in Seq(StopNames(catalogue)) /\ turn' \in BOOLEAN
  BY <1>2, <1>6
<1>8. outer' \in 1 .. Len(route') + 1 /\ inner' \in 2 .. Len(route') + 2 /\ outer' < inner'
  BY <1>2, <1>7
<1>9. /\ Building /\ Building' /\ pc # "vertexes" /\ pc' # "vertexes"
  BY <1>2 DEF Building
<1>10. stops_left' \subseteq StopNames(catalogue) /\ buses_left' \subseteq BusNames(catalogue)
  BY <1>2, <1>4
<1>11. bus' \in BusNames(catalogue)
  BY <1>2, <1>4, <1>5
<1> QED
  BY <1>2, <1>7, <1>8, <1>9, <1>10, <1>11, LoopStep

LEMMA RouteLoopSteps == GInv /\ (NextOuter \/ TurnRound) => GInv'
<1> SUFFICES ASSUME GInv, NextOuter \/ TurnRound PROVE GInv'
  OBVIOUS
<1>1. TypeOK /\ Progress
  BY DEF GInv, GraphConsistent
<1>2. /\ pc = "rides" /\ pc' = "rides" /\ Building /\ Building'
      /\ UNCHANGED <<base, catalogue, stop_data, vertex_ids, edge_data, stops_left,
                     buses_left, bus, graph_vars, ask_vars>>
  BY DEF NextOuter, TurnRound, Building
<1>3. catalogue = Source
  BY <1>2, CatalogueFacts
<1>4. /\ stops_left' \subseteq StopNames(catalogue) /\ buses_left' \subseteq BusNames(catalogue)
      /\ bus' \in BusNames(catalogue) \cup {NoAnswer} /\ bus' \in BusNames(catalogue)
  BY <1>1, <1>2, <1>3 DEF TypeOK, Progress
<1>5. route \in Seq(StopNames(catalogue)) /\ turn \in BOOLEAN
  BY <1>1 DEF TypeOK
<1>6. CASE NextOuter
  <2>1. route' = route /\ turn' = turn /\ outer' = outer + 1 /\ inner' = outer + 2
        /\ outer <= Len(route)
    BY <1>6 DEF NextOuter, RouteEnd
  <2>2. outer' \in 1 .. Len(route') + 1 /\ inner' \in 2 .. Len(route') + 2 /\ outer' < inner'
    <3>1. outer \in 1 .. Len(route) /\ Len(route) \in Nat
      BY <1>1, <2>1 DEF TypeOK
    <3> QED
      BY <2>1, <3>1
  <2>3. route' \in Seq(StopNames(catalogue)) /\ turn' \in BOOLEAN
    BY <1>5, <2>1
  <2> QED
    BY <1>2, <1>4, <2>2, <2>3, LoopStep
<1>7. CASE TurnRound
  <2>1. route' = Reverse(route) /\ turn' = FALSE /\ outer' = 1 /\ inner' = 2
    BY <1>7 DEF TurnRound, TurnsLeft
  <2>2. route' \in Seq(StopNames(catalogue)) /\ turn' \in BOOLEAN
    BY <1>5, <2>1, ReverseFacts
  <2>3. outer' \in 1 .. Len(route') + 1 /\ inner' \in 2 .. Len(route') + 2 /\ outer' < inner'
    BY <2>1, <2>2
  <2> QED
    BY <1>2, <1>4, <2>2, <2>3, LoopStep
<1> QED
  BY <1>6, <1>7

LEMMA LoopEndSteps == GInv /\ (WaitEdgesDone \/ BusDone \/ BusesDone) => GInv'
<1> SUFFICES ASSUME GInv, WaitEdgesDone \/ BusDone \/ BusesDone PROVE GInv'
  OBVIOUS
<1>1. TypeOK
  BY DEF GInv, GraphConsistent
<1>2. /\ pc \in {"waits", "rides", "buses"} /\ pc' \in {"buses", "graph"}
      /\ UNCHANGED <<base, catalogue, stop_data, vertex_ids, edge_data,
                     graph_vars, ask_vars>>
      /\ UNCHANGED <<stops_left, buses_left, bus, route, turn, outer, inner>>
  BY DEF WaitEdgesDone, BusDone, BusesDone, loop_vars
<1>3. Building /\ Building' /\ pc # "vertexes" /\ pc' # "vertexes" /\ pc' # "rides"
  BY <1>2 DEF Building
<1>4. /\ stops_left' \subseteq StopNames(catalogue) /\ buses_left' \subseteq BusNames(catalogue)
      /\ bus' \in BusNames(catalogue) \cup {NoAnswer}
      /\ route' \in Seq(StopNames(catalogue)) /\ turn' \in BOOLEAN
      /\ outer' \in 1 .. Len(route') + 1 /\ inner' \in 2 .. Len(route') + 2
  BY <1>1, <1>2 DEF TypeOK
<1> QED
  BY <1>2, <1>3, <1>4, LoopStep

(* BuildRouter: the edges of the graph follow edge_data.                   *)
LEMMA AddEdgeStep == GInv /\ AddEdge => GInv'
<1> SUFFICES ASSUME GInv, AddEdge PROVE GInv'
  OBVIOUS
<1> USE DEF graph_vars, ask_vars, loop_vars, Building
<1> DEFINE e == edge_data[Len(edges) + 1]
           Edge == [from : Nat, to : Nat, weight : Int]
           new == [from |-> e.origin_id, to |-> e.destination_id, weight |-> e.weight]
<1>1. TypeOK /\ VerticesDistinct /\ EdgesFit /\ Progress /\ Searched
  BY DEF GInv, GraphConsistent
<1>2. /\ pc = "graph" /\ Len(edges) < Len(edge_data)
      /\ UNCHANGED <<base, catalogue, stop_data, vertex_ids, edge_data, stops_left,
                     buses_left, bus, route, turn, outer, inner, query, answer>>
  BY DEF AddEdge
<1>3. query = NoAnswer
  BY <1>1, <1>2 DEF Searched
<1>4. VerticesDistinct'
  BY <1>1, <1>2 DEF VerticesDistinct, VertexIds
<1>5. /\ edges \in Seq(Edge) /\ items \in Seq(Item) /\ edge_data \in Seq(EdgeData)
  BY <1>1 DEF TypeOK, EdgeData
<1>6. /\ \A k \in DOMAIN edges :
           /\ edges[k] = [from |-> edge_data[k].origin_id, to |-> edge_data[k].destination_id,
                          weight |-> edge_data[k].weight]
           /\ items[k] = edge_data[k].item
      /\ Len(edges) = Len(items)
  BY <1>1 DEF EdgesFit
<1>7. CASE e.origin_id < VertexCount
  <2>1. edges' = Append(edges, new) /\ items' = Append(items, e.item) /\ pc' = pc
    BY <1>7 DEF AddEdge
  <2>2. e \in EdgeData
    BY <1>2, <1>5
  <2>3. new \in Edge /\ e.item \in Item
    BY <2>2 DEF EdgeData
  <2> HIDE DEF e, new, Edge
  <2>4. edges' \in Seq(Edge) /\ items' \in Seq(Item)
    BY <1>5, <2>1, <2>3
  <2>5. /\ Len(edges') = Len(edges) + 1 /\ Len(items') = Len(edges) + 1
        /\ DOMAIN edges' = DOMAIN edges \cup {Len(edges) + 1}
        /\ \A k \in DOMAIN edges : edges'[k] = edges[k] /\ items'[k] = items[k]
        /\ edges'[Len(edges) + 1] = new /\ items'[Len(edges) + 1] = e.item
    BY <1>5, <1>6, <2>1
  <2>6. ASSUME NEW k \in DOMAIN edges'
        PROVE  /\ edges'[k] = [from |-> edge_data[k].origin_id, to |-> edge_data[k].destination_id,
                               weight |-> edge_data[k].weight]
               /\ items'[k] = edge_data[k].item
    <3>1. CASE k \in DOMAIN edges
      BY <1>6, <2>5, <3>1
    <3>2. CASE k = Len(edges) + 1
      BY <2>5, <3>2 DEF e, new
    <3> QED
      BY <2>5, <3>1, <3>2
  <2>7. Len(edges') <= Len(edge_data)
    BY <1>2, <1>5, <2>5
  <2>8. EdgesFit'
    BY <1>1, <1>2, <2>5, <2>6, <2>7 DEF EdgesFit
  <2>9. TypeOK'
    BY <1>1, <1>2, <2>1, <2>4 DEF TypeOK, Edge
  <2>10. Progress' /\ Searched'
    BY <1>1, <1>2, <2>1 DEF Progress, Searched, Source
  <2> QED
    BY <1>4, <2>8, <2>9, <2>10 DEF GInv, GraphConsistent
<1>8. CASE ~ (e.origin_id < VertexCount)
  <2>1. pc' = "threw" /\ UNCHANGED <<edges, items>>
    BY <1>8 DEF AddEdge
  <2>2. TypeOK' /\ EdgesFit'
    BY <1>1, <1>2, <2>1 DEF TypeOK, EdgesFit
  <2>3. Progress' /\ Searched'
    BY <1>1, <1>2, <1>3, <2>1 DEF Progress, Searched, Source
  <2> QED
    BY <1>4, <2>2, <2>3 DEF GInv, GraphConsistent
<1> QED
  BY <1>7, <1>8

(* The steps that leave the vertices, the edges and the catalogue alone.   *)
LEMMA QuietSteps ==
  GInv /\ (RouterBuilt \/ TakeAnswer \/ UNCHANGED vars) => GInv'
<1> SUFFICES ASSUME GInv, RouterBuilt \/ TakeAnswer \/ UNCHANGED vars PROVE GInv'
  OBVIOUS
<1> USE DEF graph_vars, ask_vars, loop_vars
<1>1. TypeOK /\ VerticesDistinct /\ EdgesFit /\ Progress /\ Searched
  BY DEF GInv, GraphConsistent
<1>2. UNCHANGED <<base, catalogue, stop_data, vertex_ids, edge_data, stops_left, buses_left,
                  bus, route, turn, outer, inner, edges, items>>
  BY DEF RouterBuilt, TakeAnswer, vars
<1>3. VerticesDistinct' /\ EdgesFit'
  BY <1>1, <1>2 DEF VerticesDistinct, EdgesFit, VertexIds
<1>4. CASE RouterBuilt
  <2>1. pc = "graph" /\ pc' \in {"ready", "domain_error"} /\ UNCHANGED <<query, answer>>
    BY <1>4 DEF RouterBuilt
  <2>2. query = NoAnswer
    BY <1>1, <2>1 DEF Searched
  <2>3. TypeOK'
    BY <1>1, <1>2, <2>1 DEF TypeOK
  <2>4. Progress' /\ Searched'
    BY <1>1, <1>2, <2>1, <2>2 DEF Progress, Searched, Source
  <2> QED
    BY <1>3, <2>3, <2>4 DEF GInv, GraphConsistent
<1>5. CASE TakeAnswer
  <2>1. pc = "ready" /\ pc' = pc /\ query' = NoAnswer /\ answer' = NoAnswer
    BY <1>5 DEF TakeAnswer
  <2>2. TypeOK'
    BY <1>1, <1>2, <2>1 DEF TypeOK
  <2>3. Progress' /\ Searched'
    BY <1>1, <1>2, <2>1 DEF Progress, Searched, Source
  <2> QED
    BY <1>3, <2>2, <2>3 DEF GInv, GraphConsistent
<1>6. CASE UNCHANGED vars
  <2>1. UNCHANGED <<pc, query, answer>>
    BY <1>6 DEF vars
  <2>2. TypeOK'
    BY <1>1, <1>2, <2>1 DEF TypeOK
  <2>3. Progress' /\ Searched'
    BY <1>1, <1>2, <2>1 DEF Progress, Searched, Source
  <2> QED
    BY <1>3, <2>2, <2>3 DEF GInv, GraphConsistent
<1> QED
  BY <1>4, <1>5, <1>6

-----------------------------------------------------------------------------
(* The search.                                                             *)

EdgeIds == 0 .. Len(edges) - 1

(* The walks of the graph from a vertex.                                   *)
WalksFrom(u) ==
  {w \in Seq(EdgeIds) :
     \A i \in DOMAIN w :
       edges[w[i] + 1].from = IF i = 1 THEN u ELSE edges[w[i - 1] + 1].to}

LEMMA OneMoreEdgeWalks ==
  ASSUME NEW u, NEW w \in WalksFrom(u), NEW id \in EdgeIds,
         edges[id + 1].from = EdgeEnd(u, w)
  PROVE  Append(w, id) \in WalksFrom(u)
<1> DEFINE x == Append(w, id)
<1>1. w \in Seq(EdgeIds) /\ Len(w) \in Nat
  BY DEF WalksFrom
<1>2. x \in Seq(EdgeIds)
  BY <1>1
<1>3. /\ DOMAIN x = 1 .. Len(w) + 1 /\ DOMAIN w = 1 .. Len(w)
      /\ \A i \in DOMAIN w : x[i] = w[i]
      /\ x[Len(w) + 1] = id
  BY <1>1
<1> HIDE DEF x
<1>4. ASSUME NEW i \in DOMAIN x
      PROVE  edges[x[i] + 1].from = IF i = 1 THEN u ELSE edges[x[i - 1] + 1].to
  <2>1. CASE i \in DOMAIN w
    <3>1. i # 1 => i - 1 \in DOMAIN w
      BY <1>1, <1>3, <2>1
    <3> QED
      BY <1>3, <2>1, <3>1 DEF WalksFrom
  <2>2. CASE i = Len(w) + 1 /\ Len(w) = 0
    <3>1. w = <<>>
      BY <1>1, <2>2
    <3> QED
      BY <1>3, <2>2, <3>1 DEF EdgeEnd
  <2>3. CASE i = Len(w) + 1 /\ Len(w) # 0
    <3>1. /\ w # <<>> /\ i # 1 /\ i - 1 = Len(w) /\ Len(w) \in DOMAIN w
      BY <1>1, <1>3, <2>3
    <3>2. Last(w) = w[Len(w)]
      BY DEF Last
    <3> QED
      BY <1>3, <2>3, <3>1, <3>2 DEF EdgeEnd
  <2> QED
    BY <1>1, <1>3, <2>1, <2>2, <2>3
<1> QED
  BY <1>2, <1>4 DEF WalksFrom, x

(* The search looks at the walks that visit no vertex twice, by length.    *)
Visited(u, w) == {u} \cup {edges[w[k] + 1].to : k \in DOMAIN w}

Longer(u, w) ==
  {Append(w, id) : id \in {e \in EdgeIds : /\ edges[e + 1].from = EdgeEnd(u, w)
                                           /\ edges[e + 1].to \notin Visited(u, w)}}

ByLength(u, g) ==
  /\ g[0] = {<<>>}
  /\ \A n \in Nat : g[n + 1] = UNION {Longer(u, w) : w \in g[n]} /\ g[n] \subseteq WalksFrom(u)

LEMMA SimpleWalksByLength ==
  ASSUME NEW u
  PROVE  \E g : ByLength(u, g) /\ SimpleWalks(u) = UNION {g[n] : n \in 0 .. VertexCount - 1}
<1> DEFINE Obeys(g) == g = [n \in Nat |-> IF n = 0 THEN {<<>>}
                                          ELSE UNION {Longer(u, walk) : walk \in g[n - 1]}]
           of_length == CHOOSE g : Obeys(g)
           T == SUBSET WalksFrom(u)
           step == [n \in Nat |-> [W \in T |-> UNION {Longer(u, walk) : walk \in W}]]
<1>1. SimpleWalks(u) = UNION {of_length[n] : n \in 0 .. VertexCount - 1}
  BY DEF SimpleWalks, Longer, Visited, EdgeIds
<1>2. \A walk \in WalksFrom(u) : Longer(u, walk) \subseteq WalksFrom(u)
  BY OneMoreEdgeWalks DEF Longer
<1>3. {<<>>} \in T
  BY DEF WalksFrom
<1>4. /\ step \in StepsOn(T)
      /\ \A n \in Nat : \A W \in T : step[n][W] = UNION {Longer(u, walk) : walk \in W}
  BY <1>2 DEF StepsOn
<1> HIDE DEF step, T
<1>5. PICK g \in [Nat -> T] : Iterates(g, {<<>>}, step)
  BY <1>3, <1>4, PrimitiveRecursion, Zenon
<1>6. Obeys(g)
  <2>1. ASSUME NEW n \in Nat, n # 0 PROVE g[n] = UNION {Longer(u, walk) : walk \in g[n - 1]}
    <3>1. n - 1 \in Nat /\ (n - 1) + 1 = n
      BY <2>1
    <3>2. g[(n - 1) + 1] = step[n - 1][g[n - 1]] /\ g[n - 1] \in T
      BY <1>5, <3>1 DEF Iterates
    <3> QED
      BY <1>4, <3>1, <3>2
  <2>2. g[0] = {<<>>}
    BY <1>5 DEF Iterates
  <2> QED
    BY <2>1, <2>2
<1>7. Obeys(of_length)
  <2> HIDE DEF Obeys
  <2> QED
    BY <1>6
<1> HIDE DEF of_length
<1>8. /\ of_length[0] = {<<>>}
      /\ \A n \in Nat : of_length[n + 1] = UNION {Longer(u, w) : w \in of_length[n]}
  <2>1. \A n \in Nat : n + 1 \in Nat /\ n + 1 # 0 /\ (n + 1) - 1 = n
    OBVIOUS
  <2> QED
    BY <1>7, <2>1
<1> DEFINE S == {n \in Nat : of_length[n] \in T}
<1>9. 0 \in S
  BY <1>3, <1>8
<1>10. ASSUME NEW n \in S PROVE n + 1 \in S
  <2>1. of_length[n + 1] = UNION {Longer(u, walk) : walk \in of_length[n]}
    BY <1>8
  <2>2. of_length[n] \subseteq WalksFrom(u)
    BY DEF T
  <2>3. of_length[n + 1] \in T
    BY <1>2, <2>1, <2>2 DEF T
  <2> QED
    BY <2>3
<1>11. S = Nat
  <2>1. S \in SUBSET Nat
    OBVIOUS
  <2> HIDE DEF S
  <2> QED
    BY <1>9, <1>10, <2>1, SetInduction
<1>12. \A n \in Nat : of_length[n] \subseteq WalksFrom(u)
  BY <1>11 DEF T
<1>13. ByLength(u, of_length)
  BY <1>8, <1>12 DEF ByLength
<1> QED
  BY <1>1, <1>13

(* BuildRoute returns such walks.                                          *)
LEMMA SimpleWalksAreWalks ==
  ASSUME NEW u
  PROVE  SimpleWalks(u) \subseteq WalksFrom(u)
<1>1. PICK g : ByLength(u, g) /\ SimpleWalks(u) = UNION {g[n] : n \in 0 .. VertexCount - 1}
  BY SimpleWalksByLength
<1>2. \A n \in 0 .. VertexCount - 1 : n \in Nat
  OBVIOUS
<1> QED
  BY <1>1, <1>2 DEF ByLength

(* The weight of a walk is the sum of those of its edges.                  *)
LEMMA WalkWeightIsSum ==
  ASSUME TypeOK, NEW w \in Seq(EdgeIds)
  PROVE  \E g \in [0 .. Len(w) -> Int] :
           /\ Sums(g, 0, Len(w), [k \in 1 .. Len(w) |-> edges[w[k] + 1].weight])
           /\ Search!WalkWeight(w) = g[Len(w)]
<1> DEFINE v == [k \in 1 .. Len(w) |-> edges[w[k] + 1].weight]
           Obeys(g) == g = [n \in 0 .. Len(w) |->
                             IF n = 0 THEN 0
                             ELSE g[n - 1] + Search!EdgeOf(w[n]).weight]
           total == CHOOSE g : Obeys(g)
<1>1. Len(w) \in Nat /\ Len(w) \in Int /\ 0 \in Int /\ 0 <= Len(w) /\ 0 + 1 = 1
  OBVIOUS
<1>2. \A k \in 1 .. Len(w) : v[k] \in Int /\ v[k] = Search!EdgeOf(w[k]).weight
  <2> TAKE k \in 1 .. Len(w)
  <2> DEFINE Edge == [from : Nat, to : Nat, weight : Int]
  <2>1. edges \in Seq(Edge)
    BY DEF TypeOK
  <2>2. w[k] \in EdgeIds
    OBVIOUS
  <2> HIDE DEF Edge
  <2>3. w[k] + 1 \in 1 .. Len(edges)
    BY <2>1, <2>2 DEF EdgeIds
  <2>4. edges[w[k] + 1] \in Edge
    BY <2>1, <2>3
  <2> QED
    BY <2>4 DEF Edge, Search!EdgeOf
<1>3. v \in [1 .. Len(w) -> Int]
  BY <1>2
<1>4. Search!WalkWeight(w) = total[Len(w)]
  BY DEF Search!WalkWeight
<1> HIDE DEF v
<1>5. PICK g \in [0 .. Len(w) -> Int] : Sums(g, 0, Len(w), v)
  <2>1. v \in [0 + 1 .. Len(w) -> Int]
    BY <1>1, <1>3
  <2> QED
    BY <1>1, <2>1, SumsExist
<1>6. Obeys(g)
  <2>1. \A k \in 0 .. Len(w) : k # 0 => k \in 0 + 1 .. Len(w) /\ k \in 1 .. Len(w)
    OBVIOUS
  <2> QED
    BY <1>2, <1>5, <2>1 DEF Sums
<1>7. Obeys(total)
  <2> HIDE DEF Obeys
  <2> QED
    BY <1>6
<1>8. Sums(total, 0, Len(w), v)
  <2> HIDE DEF total
  <2>1. /\ 0 \in 0 .. Len(w)
        /\ \A k \in 0 + 1 .. Len(w) : k \in 0 .. Len(w) /\ k # 0 /\ k \in 1 .. Len(w)
    OBVIOUS
  <2> QED
    BY <1>2, <1>7, <2>1 DEF Sums
<1> HIDE DEF total
<1>9. total[Len(w)] = g[Len(w)]
  <2>1. Len(w) \in 0 .. Len(w)
    OBVIOUS
  <2> QED
    BY <1>1, <1>5, <1>8, <2>1, SumsAgree
<1> QED
  BY <1>4, <1>5, <1>9 DEF v

LEMMA WalkWeightType ==
  ASSUME TypeOK, NEW w \in Seq(EdgeIds)
  PROVE  Search!WalkWeight(w) \in Int
<1>1. Len(w) \in 0 .. Len(w)
  OBVIOUS
<1>2. PICK g \in [0 .. Len(w) -> Int] : Search!WalkWeight(w) = g[Len(w)]
  BY WalkWeightIsSum
<1> QED
  BY <1>1, <1>2

(* A route that BuildRoute returns.                                        *)
LEMMA BuildRouteFacts ==
  ASSUME TypeOK, NEW u, NEW v, NEW found \in BuildRoute(u, v), found # NoRoute
  PROVE  /\ found.edges \in WalksFrom(u) /\ EdgeEnd(u, found.edges) = v
         /\ found.weight = Search!WalkWeight(found.edges) /\ found.weight \in Int
<1>1. PICK w \in SimpleWalks(u) :
        EdgeEnd(u, w) = v /\ found = [weight |-> Search!WalkWeight(w), edges |-> w]
  BY DEF BuildRoute
<1>2. w \in WalksFrom(u) /\ w \in Seq(EdgeIds)
  BY SimpleWalksAreWalks DEF WalksFrom
<1>3. Search!WalkWeight(w) \in Int
  BY <1>2, WalkWeightType
<1> QED
  BY <1>1, <1>2, <1>3

LEMMA SectionsType ==
  ASSUME TypeOK, EdgesFit, NEW w \in Seq(EdgeIds)
  PROVE  Sections(w) \in Seq(Item)
<1>1. items \in Seq(Item) /\ Len(items) = Len(edges) /\ Len(w) \in Nat
  BY DEF TypeOK, EdgesFit
<1>2. ASSUME NEW k \in 1 .. Len(w) PROVE items[w[k] + 1] \in Item
  <2>1. w[k] \in 0 .. Len(edges) - 1
    BY DEF EdgeIds
  <2>2. w[k] + 1 \in 1 .. Len(items)
    BY <1>1, <2>1
  <2> QED
    BY <1>1, <2>2
<1>3. Sections(w) = [k \in 1 .. Len(w) |-> items[w[k] + 1]]
  BY DEF Sections
<1>4. Sections(w) \in [1 .. Len(w) -> Item]
  BY <1>2, <1>3
<1> QED
  BY <1>1, <1>4

LEMMA RouteSearchStep ==
  ASSUME GInv, NEW from \in Names, NEW to \in Names, RouteSearch(from, to)
  PROVE  GInv'
<1> USE DEF graph_vars, ask_vars, loop_vars
<1>1. TypeOK /\ VerticesDistinct /\ EdgesFit /\ Progress /\ Searched
  BY DEF GInv, GraphConsistent
<1>2. /\ pc = "ready" /\ query = NoAnswer /\ query' = [from |-> from, to |-> to]
      /\ UNCHANGED <<base, stop_data, vertex_ids, edge_data, stops_left, buses_left,
                     bus, route, turn, outer, inner, edges, items>>
  BY DEF RouteSearch
<1>3. /\ catalogue = Source /\ CatalogueType(catalogue)
  BY <1>2, CatalogueFacts
<1>4. VerticesDistinct' /\ EdgesFit'
  BY <1>1, <1>2 DEF VerticesDistinct, EdgesFit, VertexIds
<1>5. query' \in [from : Names, to : Names] /\ query' # NoAnswer
  BY <1>2, RouterAssumption
<1>6. query'.from = from /\ query'.to = to
  BY <1>2
<1>7. DOMAIN stop_data = StopNames(Source)
  BY <1>1, <1>2 DEF Progress
<1> DEFINE Answers == [time : Int, items : Seq(Item)]
<1>8. ASSUME answer' \in Answers, UNCHANGED <<catalogue, pc>>,
             from = to \/ {from, to} \subseteq DOMAIN stop_data
      PROVE  GInv'
  <2>1. TypeOK'
    BY <1>1, <1>2, <1>5, <1>8 DEF TypeOK
  <2>2. Progress'
    BY <1>1, <1>2, <1>8 DEF Progress, Source
  <2>3. Searched'
    BY <1>1, <1>2, <1>5, <1>6, <1>8 DEF Searched, Source
  <2> QED
    BY <1>4, <2>1, <2>2, <2>3 DEF GInv, GraphConsistent
<1>9. CASE from = to
  <2>1. answer' = NoSections /\ UNCHANGED <<catalogue, pc>>
    BY <1>9 DEF RouteSearch, SameName
  <2>2. NoSections \in Answers
    BY DEF NoSections
  <2> QED
    BY <1>8, <1>9, <2>1, <2>2
<1>10. CASE from # to /\ {from, to} \subseteq DOMAIN stop_data
  <2>1. /\ UNCHANGED <<catalogue, pc>>
        /\ \E found \in BuildRoute(OriginVertex(from), stop_data[to].vertex_in_id) :
             answer' = IF found = NoRoute THEN NotFound
                       ELSE [time |-> found.weight, items |-> Sections(found.edges)]
    BY <1>10 DEF RouteSearch, SameName
  <2>2. PICK found \in BuildRoute(OriginVertex(from), stop_data[to].vertex_in_id) :
             answer' = IF found = NoRoute THEN NotFound
                       ELSE [time |-> found.weight, items |-> Sections(found.edges)]
    BY <2>1
  <2>3. CASE found = NoRoute
    <3>1. NotFound \in Answers
      BY DEF NotFound
    <3> QED
      BY <1>8, <1>10, <2>1, <2>2, <2>3, <3>1
  <2>4. CASE found # NoRoute
    <3>1. found.edges \in WalksFrom(OriginVertex(from)) /\ found.weight \in Int
      BY <1>1, <2>4, BuildRouteFacts
    <3>2. Sections(found.edges) \in Seq(Item)
      BY <1>1, <3>1, SectionsType DEF WalksFrom
    <3>3. answer' = [time |-> found.weight, items |-> Sections(found.edges)]
      BY <2>2, <2>4
    <3>4. answer' \in Answers
      BY <3>1, <3>2, <3>3
    <3> QED
      BY <1>8, <1>10, <2>1, <3>4
  <2> QED
    BY <2>3, <2>4
<1>11. CASE from # to /\ ~ {from, to} \subseteq DOMAIN stop_data
  <2> DEFINE name == IF from \in DOMAIN stop_data THEN to ELSE from
  <2>1. /\ catalogue' = ReturnStop(catalogue, name) /\ pc' = "threw" /\ answer' = answer
    BY <1>11 DEF RouteSearch, SameName
  <2>2. name \in Names \ StopNames(Source)
    BY <1>7, <1>11
  <2> HIDE DEF name
  <2>3. /\ StopNames(catalogue') = StopNames(catalogue) \cup {name}
        /\ catalogue'.buses = catalogue.buses
    BY <1>3, <2>1, <2>2, ReturnStopFields
  <2>4. BusNames(catalogue') = BusNames(catalogue)
    BY <2>3 DEF BusNames
  <2>5. TypeOK'
    <3>1. route' \in Seq(StopNames(catalogue'))
      <4>1. route \in Seq(StopNames(catalogue))
        BY <1>1 DEF TypeOK
      <4>2. StopNames(catalogue) \subseteq StopNames(catalogue')
        BY <2>3
      <4> QED
        BY <1>2, <4>1, <4>2
    <3>2. /\ DOMAIN stop_data' \subseteq StopNames(catalogue')
          /\ stops_left' \subseteq StopNames(catalogue')
          /\ buses_left' \subseteq BusNames(catalogue')
          /\ bus' \in BusNames(catalogue') \cup {NoAnswer}
      BY <1>1, <1>2, <2>3, <2>4 DEF TypeOK
    <3> QED
      BY <1>1, <1>2, <1>5, <2>1, <3>1, <3>2 DEF TypeOK
  <2>6. Progress'
    BY <1>1, <1>2, <2>1 DEF Progress, Source
  <2>7. Searched'
    <3>1. \E n \in Names \ StopNames(Source) : ReturnStop(catalogue, name) = ReturnStop(Source, n)
      BY <1>3, <2>2
    <3>2. Source' = Source
      BY <1>2 DEF Source
    <3> QED
      BY <1>2, <1>5, <1>6, <1>11, <2>1, <3>1, <3>2 DEF Searched
  <2> QED
    BY <1>4, <2>5, <2>6, <2>7 DEF GInv, GraphConsistent
<1> QED
  BY <1>9, <1>10, <1>11

LEMMA NextGInv == GInv /\ [Next]_vars => GInv'
<1> SUFFICES ASSUME GInv, [Next]_vars PROVE GInv'
  OBVIOUS
<1>1. CASE Construct
  <2>1. CASE \E stop \in stops_left : WaitEdge(stop)
    BY <2>1, WaitEdgeStep
  <2> QED
    BY <1>1, <2>1, GetVertexStep, VertexesDoneStep, LoopEndSteps, TakeBusStep, RideEdgeStep,
       RouteLoopSteps, AddEdgeStep, QuietSteps DEF Construct
<1>2. CASE \E from, to \in Names : RouteSearch(from, to)
  BY <1>2, RouteSearchStep
<1>3. CASE TakeAnswer \/ UNCHANGED vars
  BY <1>3, QuietSteps
<1> QED
  BY <1>1, <1>2, <1>3 DEF Next

LEMMA AlwaysGInv == Spec => []GInv
<1>1. Init => GInv
  BY InitGInv
<1>2. GInv /\ [Next]_vars => GInv'
  BY NextGInv
<1> QED
  BY <1>1, <1>2, PTL DEF Spec

(* Whatever the document: the graph refers to the vertices of its stops    *)
(* only, of which no two are the same, and no loop to a stop outside of    *)
(* the route at hand.                                                      *)
THEOREM GraphConsistentHolds == Spec => []GraphConsistent
<1>1. GInv => GraphConsistent
  BY DEF GInv
<1> QED
  BY <1>1, AlwaysGInv, PTL

(* A search throws exactly for two names of which one is not a stop, and   *)
(* only then is a stop entered into the catalogue.                         *)
THEOREM SearchOutcomeHolds == Spec => []SearchOutcome
<1>1. GInv => SearchOutcome
  <2> SUFFICES ASSUME GInv PROVE SearchOutcome
    OBVIOUS
  <2>1. TypeOK /\ Searched
    BY DEF GInv, GraphConsistent
  <2>2. query # NoAnswer =>
          ((pc = "threw") <=>
             (query.from # query.to /\ ~ {query.from, query.to} \subseteq DOMAIN stop_data))
    BY <2>1 DEF Searched
  <2>3. (catalogue # Source) <=> (pc = "threw" /\ query # NoAnswer)
    <3>1. CASE pc = "threw" /\ query # NoAnswer
      <4>1. PICK name \in Names \ StopNames(Source) : catalogue = ReturnStop(Source, name)
        BY <2>1, <3>1 DEF Searched
      <4>2. CatalogueType(Source)
        BY <2>1, SourceFacts DEF TypeOK
      <4>3. name \in StopNames(catalogue)
        BY <4>1, <4>2, ReturnStopFields
      <4> QED
        BY <3>1, <4>1, <4>3
    <3>2. CASE ~ (pc = "threw" /\ query # NoAnswer)
      BY <2>1, <3>2 DEF Searched
    <3> QED
      BY <3>1, <3>2
  <2> QED
    BY <2>2, <2>3 DEF SearchOutcome, Source
<1> QED
  BY <1>1, AlwaysGInv, PTL

-----------------------------------------------------------------------------
(* What the constructor has built so far.                                  *)

Stored(cat, b) == cat.buses[b].route
Chain(cat, b)  == cat.buses[b].is_chain

(* The ways GetEdges travels a bus.                                        *)
Travels(cat, b) ==
  {Reverse(Stored(cat, b))} \cup (IF Chain(cat, b) THEN {Stored(cat, b)} ELSE {})

WayKnown(cat, way) == HopsOn(cat, way, 1, Len(way))

RideOn(cat, b, way, from, to) ==
  [bus |-> b, from |-> way[from], to |-> way[to],
   time |-> LengthOn(cat, way, from, to) * SpeedFactor, span_count |-> to - from]

Pairs(way) == {p \in (DOMAIN way) \X (DOMAIN way) : p[1] < p[2]}

RidesOn(cat, b, way, pairs) == {RideOn(cat, b, way, p[1], p[2]) : p \in pairs}

RidesOf(cat, b) == UNION {RidesOn(cat, b, way, Pairs(way)) : way \in Travels(cat, b)}

RidesOfAll(cat, names) == UNION {RidesOf(cat, b) : b \in names}

(* The buses that are done, and the rides of the bus at hand.              *)
Finished == (BusNames(Source) \ buses_left) \ (IF pc = "rides" THEN {bus} ELSE {})

SecondPass == Chain(Source, bus) /\ ~ turn

PairsTo(way, a, c) == {p \in Pairs(way) : p[1] < a \/ (p[1] = a /\ p[2] < c)}

RidesOfPass ==
  IF pc # "rides" THEN {}
  ELSE RidesOn(Source, bus, route, PairsTo(route, outer, inner))
         \cup (IF SecondPass
                 THEN RidesOn(Source, bus, Stored(Source, bus), Pairs(Stored(Source, bus)))
               ELSE {})

(* What the edges stand for.                                               *)
RideOfEdge(e) ==
  [bus |-> e.item.bus, from |-> StopLeaving(e.origin_id), to |-> StopReached(e.destination_id),
   time |-> e.weight, span_count |-> e.item.span_count]

EdgesOfKind(kind) == {k \in DOMAIN edge_data : edge_data[k].item.kind = kind}

WaitsBuilt == {edge_data[k].item.stop : k \in EdgesOfKind("Wait")}
RidesBuilt == {RideOfEdge(edge_data[k]) : k \in EdgesOfKind("Ride")}

(* How many edges there are.                                               *)
PairCount(n) == (n * (n - 1)) \div 2

Counted(doc, names) ==
  [k \in 1 .. Len(doc) |->
    IF k \in BusPlaces(doc) /\ doc[k].name \in names THEN RidesOffered(doc[k]) ELSE 0]

CountOf(doc, names) ==
  CHOOSE c : \E g \in [0 .. Len(doc) -> Int] :
    Sums(g, 0, Len(doc), Counted(doc, names)) /\ c = g[Len(doc)]

CountOfPass ==
  IF pc # "rides" THEN 0
  ELSE (PairCount(Len(route)) - PairCount(Len(route) - outer + 1)) + (inner - outer - 1)
         + (IF SecondPass THEN PairCount(Len(route)) ELSE 0)

Phases ==
  /\ pc = "vertexes" => stops_left = StopNames(Source)
  /\ pc \in {"vertexes", "waits"} => buses_left = BusNames(Source)
  /\ pc \in {"buses", "rides", "graph", "ready", "domain_error"} => stops_left = {}
  /\ pc \in {"graph", "ready", "domain_error"} => buses_left = {}

Travelling ==
  pc = "rides" =>
    /\ bus \notin buses_left
    /\ route = IF turn THEN Stored(Source, bus) ELSE Reverse(Stored(Source, bus))
    /\ turn => Chain(Source, bus)
    /\ outer <= Len(route) => inner <= Len(route) + 1
    /\ outer > Len(route) => inner = outer + 1

HopsSoFar ==
  /\ pc # "threw" => \A b \in Finished : WayKnown(Source, Stored(Source, b))
  /\ pc = "rides" => HopsKnown(1, IF outer = 1 THEN inner - 1 ELSE Len(route))
  /\ pc = "threw" /\ query = NoAnswer =>
       \E b \in BusNames(Source) : ~ WayKnown(Source, Stored(Source, b))

EdgesSoFar ==
  pc # "threw" =>
    /\ WaitsBuilt = StopNames(Source) \ stops_left
    /\ RidesBuilt = RidesOfAll(Source, Finished) \cup RidesOfPass

CountSoFar ==
  (pc # "threw" /\ DeclaredOnce) =>
    Len(edge_data) = Cardinality(StopNames(Source) \ stops_left)
                       + CountOf(base, Finished) + CountOfPass

GraphBuilt ==
  /\ pc \in {"ready", "domain_error"} => Len(edges) = Len(edge_data)
  /\ pc = "ready" => ~ Search!HasNegative
  /\ pc = "domain_error" => Search!HasNegative

Construction == Phases /\ Travelling /\ HopsSoFar /\ EdgesSoFar /\ CountSoFar /\ GraphBuilt

(* A way and the same way back: its hops are known together.               *)
LEMMA ReverseTwice ==
  ASSUME NEW S, NEW s \in Seq(S)
  PROVE  Reverse(Reverse(s)) = s
<1>1. Reverse(s) \in Seq(S) /\ Len(Reverse(s)) = Len(s)
  BY ReverseFacts
<1>2. Reverse(Reverse(s)) \in Seq(S) /\ Len(Reverse(Reverse(s))) = Len(s)
  BY <1>1, ReverseFacts
<1>3. ASSUME NEW k \in 1 .. Len(s) PROVE Reverse(Reverse(s))[k] = s[k]
  <2>1. /\ Len(s) - k + 1 \in 1 .. Len(s) /\ Len(s) - (Len(s) - k + 1) + 1 = k
    OBVIOUS
  <2>2. Reverse(Reverse(s))[k] = Reverse(s)[Len(s) - k + 1]
    <3> k \in DOMAIN Reverse(s)
      BY <1>1
    <3> QED
      BY <1>1, ReverseFacts
  <2>3. Reverse(s)[Len(s) - k + 1] = s[Len(s) - (Len(s) - k + 1) + 1]
    BY <2>1, ReverseFacts
  <2> QED
    BY <2>1, <2>2, <2>3
<1> HIDE DEF Reverse
<1> QED
  BY <1>2, <1>3

(* The hops of a way are known if those of the way back are.               *)
LEMMA KnownBackwards ==
  ASSUME NEW S, NEW s \in Seq(S), WayKnown(Source, s)
  PROVE  WayKnown(Source, Reverse(s))
<1>1. Reverse(s) \in Seq(S) /\ Len(Reverse(s)) = Len(s) /\ Len(s) \in Nat
  BY ReverseFacts
<1>2. ASSUME NEW k \in 1 + 1 .. Len(s)
      PROVE  HasDistance(Source, Reverse(s)[k - 1], Reverse(s)[k])
  <2> DEFINE n == Len(s) - k + 2
  <2>1. /\ n \in 1 + 1 .. Len(s) /\ k - 1 \in DOMAIN s /\ k \in DOMAIN s
        /\ Len(s) - (k - 1) + 1 = n /\ Len(s) - k + 1 = n - 1
    OBVIOUS
  <2>2. Reverse(s)[k - 1] = s[n] /\ Reverse(s)[k] = s[n - 1]
    <3> HIDE DEF n
    <3> QED
      BY <2>1, ReverseFacts
  <2>3. HasDistance(Source, s[n - 1], s[n])
    <3> HIDE DEF n
    <3> QED
      BY <2>1 DEF WayKnown, HopsOn
  <2> QED
    BY <2>2, <2>3 DEF HasDistance
<1> QED
  BY <1>1, <1>2 DEF WayKnown, HopsOn

(* How many pairs there are of n positions.                                *)
LEMMA PairCountFacts ==
  /\ PairCount(0) = 0
  /\ \A n \in Nat : PairCount(n) \in Nat /\ PairCount(n + 1) = PairCount(n) + n
<1> DEFINE S == {n \in Nat : \E h \in Nat : n * (n - 1) = 2 * h}
<1>1. 0 \in S
  BY 0 * (0 - 1) = 2 * 0
<1>2. ASSUME NEW n \in S PROVE n + 1 \in S
  <2>1. PICK h \in Nat : n * (n - 1) = 2 * h
    OBVIOUS
  <2>2. (n + 1) * ((n + 1) - 1) = n * (n - 1) + 2 * n
    OBVIOUS
  <2>3. (n + 1) * ((n + 1) - 1) = 2 * (h + n) /\ h + n \in Nat
    BY <2>1, <2>2
  <2> QED
    BY <2>3
<1>3. S = Nat
  <2>1. S \in SUBSET Nat
    OBVIOUS
  <2> HIDE DEF S
  <2> QED
    BY <1>1, <1>2, <2>1, SetInduction
<1>4. \A h \in Nat : (2 * h) \div 2 = h
  OBVIOUS
<1>5. PairCount(0) = 0
  BY <1>4, 0 * (0 - 1) = 2 * 0 DEF PairCount
<1>6. ASSUME NEW n \in Nat
      PROVE  PairCount(n) \in Nat /\ PairCount(n + 1) = PairCount(n) + n
  <2>1. n \in S
    BY <1>3
  <2>2. PICK h \in Nat : n * (n - 1) = 2 * h
    BY <2>1
  <2>3. (n + 1) * ((n + 1) - 1) = 2 * (h + n) /\ h + n \in Nat
    <3>1. (n + 1) * ((n + 1) - 1) = n * (n - 1) + 2 * n
      OBVIOUS
    <3> QED
      BY <2>2, <3>1
  <2> QED
    BY <1>4, <2>2, <2>3 DEF PairCount
<1> QED
  BY <1>5, <1>6

(* The rides of some buses are counted one request after the other ...     *)
LEMMA RidesOfferedType ==
  ASSUME NEW doc \in Seq(Request), NEW k \in BusPlaces(doc)
  PROVE  /\ k \in 1 .. Len(doc) /\ doc[k] \in Request /\ doc[k].type = "Bus"
         /\ RidesOffered(doc[k]) = IF doc[k].is_roundtrip THEN PairCount(Len(doc[k].stops))
                                   ELSE PairCount(Len(doc[k].stops)) + PairCount(Len(doc[k].stops))
         /\ RidesOffered(doc[k]) \in Nat
<1>1. k \in 1 .. Len(doc) /\ doc[k].type = "Bus" /\ doc[k] \in Request
  BY DEF BusPlaces
<1>2. Len(doc[k].stops) \in Nat
  <2>1. doc[k].stops \in Seq(Names)
    BY <1>1, RequestFields
  <2> QED
    BY <2>1
<1>3. PairCount(Len(doc[k].stops)) \in Nat
  BY <1>2, PairCountFacts
<1>4. RidesOffered(doc[k])
        = (IF doc[k].is_roundtrip THEN 1 ELSE 2) * PairCount(Len(doc[k].stops))
  BY DEF RidesOffered, PairCount
<1> QED
  BY <1>1, <1>3, <1>4

LEMMA CountedType ==
  ASSUME NEW doc \in Seq(Request), NEW names
  PROVE  /\ Len(doc) \in Nat /\ Len(doc) \in Int /\ 0 \in Int /\ 0 + 1 = 1
         /\ 0 <= Len(doc) /\ Len(doc) \in 0 .. Len(doc)
         /\ Counted(doc, names) \in [1 .. Len(doc) -> Int]
BY RidesOfferedType DEF Counted

LEMMA CountIsSum ==
  ASSUME NEW doc \in Seq(Request), NEW names
  PROVE  \E g \in [0 .. Len(doc) -> Int] :
           Sums(g, 0, Len(doc), Counted(doc, names)) /\ CountOf(doc, names) = g[Len(doc)]
<1> DEFINE Sum(g) == g \in [0 .. Len(doc) -> Int] /\ Sums(g, 0, Len(doc), Counted(doc, names))
<1>1. \E g : Sum(g)
  <2>1. Counted(doc, names) \in [0 + 1 .. Len(doc) -> Int]
    BY CountedType
  <2>2. Len(doc) \in Int /\ 0 \in Int /\ 0 <= Len(doc)
    BY CountedType
  <2> QED
    BY <2>1, <2>2, SumsExist
<1>2. CountOf(doc, names) = CHOOSE c : \E g : Sum(g) /\ c = g[Len(doc)]
  BY DEF CountOf
<1> HIDE DEF Sum
<1>3. \E g : Sum(g) /\ CountOf(doc, names) = g[Len(doc)]
  BY <1>1, <1>2
<1> QED
  BY <1>3 DEF Sum

(* ... none for no bus ...                                                *)
LEMMA CountNone ==
  ASSUME NEW doc \in Seq(Request)
  PROVE  CountOf(doc, {}) = 0
<1> DEFINE N == Len(doc)
           none == [k \in 0 .. N |-> 0]
<1>1. N \in Nat /\ N \in Int /\ 0 \in Int /\ N \in 0 .. N
  BY CountedType
<1>2. PICK g \in [0 .. N -> Int] : Sums(g, 0, N, Counted(doc, {})) /\ CountOf(doc, {}) = g[N]
  BY CountIsSum
<1>3. \A k \in 0 + 1 .. N : Counted(doc, {})[k] = 0
  BY DEF Counted
<1>4. Sums(none, 0, N, Counted(doc, {}))
  <2>1. 0 \in 0 .. N /\ \A k \in 0 + 1 .. N : k \in 0 .. N /\ k - 1 \in 0 .. N
    BY <1>1
  <2> QED
    BY <1>3, <2>1 DEF Sums
<1>5. none[N] = 0
  BY <1>1
<1> HIDE DEF none, N
<1> QED
  BY <1>1, <1>2, <1>4, <1>5, SumsAgree

(* ... and one more for a bus that was not among them.                     *)
LEMMA CountOneMore ==
  ASSUME NEW doc \in Seq(Request), OnceEach(doc), NEW place \in BusPlaces(doc),
         NEW names, doc[place].name \notin names
  PROVE  /\ CountOf(doc, names) \in Int
         /\ CountOf(doc, names \cup {doc[place].name})
              = CountOf(doc, names) + RidesOffered(doc[place])
<1> DEFINE N == Len(doc)
           more == names \cup {doc[place].name}
           c == RidesOffered(doc[place])
<1>1. N \in Nat /\ N \in Int /\ 0 \in Int /\ N \in 0 .. N
  BY CountedType
<1>2. place \in 1 .. N /\ c \in Nat
  BY RidesOfferedType
<1>3. PICK g \in [0 .. N -> Int] :
        Sums(g, 0, N, Counted(doc, names)) /\ CountOf(doc, names) = g[N]
  BY CountIsSum
<1>4. PICK h \in [0 .. N -> Int] :
        Sums(h, 0, N, Counted(doc, more)) /\ CountOf(doc, more) = h[N]
  BY CountIsSum
<1>5. ASSUME NEW k \in 1 .. N
      PROVE  /\ k = place => Counted(doc, more)[k] = c /\ Counted(doc, names)[k] = 0
             /\ k # place => Counted(doc, more)[k] = Counted(doc, names)[k]
  <2>1. k \in BusPlaces(doc) /\ k # place => doc[k].name # doc[place].name
    BY DEF OnceEach
  <2> QED
    BY <2>1 DEF Counted
<1> DEFINE f == [k \in 0 .. N |-> IF k < place THEN g[k] ELSE g[k] + c]
<1> HIDE DEF more, c, N
<1>6. Sums(f, 0, N, Counted(doc, more))
  <2>1. f[0] = 0
    BY <1>1, <1>2, <1>3 DEF Sums
  <2>2. ASSUME NEW k \in 0 + 1 .. N PROVE f[k] = f[k - 1] + Counted(doc, more)[k]
    <3>1. k \in 1 .. N /\ k \in 0 .. N /\ k - 1 \in 0 .. N /\ g[k] \in Int /\ g[k - 1] \in Int
      BY <1>1, <1>3
    <3>2. g[k] = g[k - 1] + Counted(doc, names)[k]
      BY <1>3 DEF Sums
    <3>3. CASE k = place
      <4>1. f[k] = g[k] + c /\ f[k - 1] = g[k - 1]
        BY <1>2, <3>1, <3>3
      <4>2. g[k] = g[k - 1]
        BY <1>5, <3>1, <3>2, <3>3
      <4> QED
        BY <1>5, <3>1, <3>3, <4>1, <4>2
    <3>4. CASE k < place
      <4>1. f[k] = g[k] /\ f[k - 1] = g[k - 1] /\ k # place
        BY <1>2, <3>1, <3>4
      <4> QED
        BY <1>5, <3>1, <3>2, <4>1
    <3>5. CASE k > place
      <4>1. f[k] = g[k] + c /\ f[k - 1] = g[k - 1] + c /\ k # place
        BY <1>2, <3>1, <3>5
      <4>2. Counted(doc, names)[k] \in Int
        <5>1. RidesOffered(doc[k]) \in Nat \/ k \notin BusPlaces(doc)
          BY RidesOfferedType
        <5> QED
          BY <3>1, <5>1 DEF Counted, N
      <4>3. Counted(doc, more)[k] = Counted(doc, names)[k]
        BY <1>5, <3>1, <4>1
      <4> QED
        BY <1>2, <3>1, <3>2, <4>1, <4>2, <4>3
    <3> QED
      BY <1>2, <3>1, <3>3, <3>4, <3>5
  <2> HIDE DEF f
  <2> QED
    BY <2>1, <2>2 DEF Sums
<1>7. f[N] = g[N] + c
  BY <1>1, <1>2
<1> HIDE DEF f
<1>8. h[N] = f[N]
  BY <1>1, <1>4, <1>6, SumsAgree
<1>9. g[N] \in Int
  BY <1>1, <1>3
<1> QED
  BY <1>3, <1>4, <1>7, <1>8, <1>9 DEF more, c

-----------------------------------------------------------------------------
(* Each step of the constructor builds what it should.                     *)

CInv == GInv /\ Construction

(* The edges there are stand for the same as before.                       *)
LEMMA SameEdges ==
  ASSUME UNCHANGED <<base, stop_data, edge_data>>
  PROVE  /\ WaitsBuilt' = WaitsBuilt /\ RidesBuilt' = RidesBuilt /\ Source' = Source
         /\ DeclaredOnce' = DeclaredOnce
<1>1. Source' = Source
  BY DEF Source
<1>2. DeclaredOnce' = DeclaredOnce
  BY DEF DeclaredOnce, BusRequests, HasNull
<1>3. EdgesOfKind("Wait")' = EdgesOfKind("Wait") /\ EdgesOfKind("Ride")' = EdgesOfKind("Ride")
  BY DEF EdgesOfKind
<1>4. WaitsBuilt' = WaitsBuilt
  BY <1>3 DEF WaitsBuilt
<1>5. RidesBuilt' = RidesBuilt
  BY <1>3 DEF RidesBuilt, RideOfEdge, StopLeaving, StopReached
<1> QED
  BY <1>1, <1>2, <1>4, <1>5

(* The steps outside of the loops over buses and rides that leave          *)
(* edge_data alone.                                                        *)
LEMMA SameConstruction ==
  ASSUME CInv, UNCHANGED <<base, stop_data, edge_data, stops_left>>,
         pc # "rides", pc' # "rides", pc # "threw", pc' # "threw",
         Finished' = Finished, Phases', GraphBuilt'
  PROVE  Construction'
<1>1. HopsSoFar /\ EdgesSoFar /\ CountSoFar
  BY DEF CInv, Construction
<1>2. /\ WaitsBuilt' = WaitsBuilt /\ RidesBuilt' = RidesBuilt /\ Source' = Source
      /\ DeclaredOnce' = DeclaredOnce
  BY SameEdges
<1>3. /\ RidesOfPass = {} /\ RidesOfPass' = {} /\ CountOfPass = 0 /\ CountOfPass' = 0
  BY DEF RidesOfPass, CountOfPass
<1>4. Travelling'
  BY DEF Travelling
<1>5. HopsSoFar'
  BY <1>1, <1>2 DEF HopsSoFar
<1>6. EdgesSoFar'
  BY <1>1, <1>2, <1>3 DEF EdgesSoFar
<1>7. CountSoFar'
  BY <1>1, <1>2, <1>3 DEF CountSoFar
<1> QED
  BY <1>4, <1>5, <1>6, <1>7 DEF Construction

LEMMA InitConstruction == Init => Construction
<1> SUFFICES ASSUME Init PROVE Construction
  OBVIOUS
<1>1. /\ pc = "vertexes" /\ edge_data = <<>> /\ stops_left = StopNames(Source)
      /\ buses_left = BusNames(Source) /\ base \in Documents
  BY DEF Init, Source
<1>2. Finished = {} /\ RidesOfPass = {} /\ CountOfPass = 0
  BY <1>1 DEF Finished, RidesOfPass, CountOfPass
<1>3. WaitsBuilt = {} /\ RidesBuilt = {}
  BY <1>1 DEF WaitsBuilt, RidesBuilt, EdgesOfKind
<1>4. Phases /\ Travelling /\ GraphBuilt
  BY <1>1 DEF Phases, Travelling, GraphBuilt
<1>5. HopsSoFar
  BY <1>1, <1>2 DEF HopsSoFar
<1>6. EdgesSoFar
  BY <1>1, <1>2, <1>3 DEF EdgesSoFar, RidesOfAll
<1>7. CountSoFar
  <2>1. CountOf(base, {}) = 0
    BY <1>1, CountNone, RouterAssumption
  <2>2. StopNames(Source) \ stops_left = {} /\ Cardinality({}) = 0
    BY <1>1, FS_EmptySet
  <2>3. Len(edge_data) = 0 /\ 0 = (0 + 0) + 0
    BY <1>1
  <2> HIDE DEF CountSoFar
  <2> QED
    BY <1>2, <2>1, <2>2, <2>3 DEF CountSoFar
<1> QED
  BY <1>4, <1>5, <1>6, <1>7 DEF Construction

LEMMA VertexConstruction == CInv /\ (GetVertex \/ VertexesDone) => Construction'
<1> SUFFICES ASSUME CInv, GetVertex \/ VertexesDone PROVE Construction'
  OBVIOUS
<1>1. /\ pc = "vertexes" /\ pc' \in {"vertexes", "waits"}
      /\ UNCHANGED <<base, catalogue, edge_data, stops_left, buses_left, edges>>
  BY DEF GetVertex, VertexesDone, loop_vars, graph_vars
<1>2. edge_data = <<>>
  BY <1>1 DEF CInv, GInv, Progress
<1>3. Phases /\ HopsSoFar /\ EdgesSoFar /\ CountSoFar /\ GraphBuilt
  BY DEF CInv, Construction
<1>4. Source' = Source /\ DeclaredOnce' = DeclaredOnce
  BY <1>1 DEF Source, DeclaredOnce, BusRequests, HasNull
<1>5. Phases' /\ GraphBuilt'
  BY <1>1, <1>3, <1>4 DEF Phases, GraphBuilt
<1>6. Finished' = Finished
  BY <1>1, <1>4 DEF Finished
<1>7. /\ WaitsBuilt = {} /\ RidesBuilt = {} /\ WaitsBuilt' = {} /\ RidesBuilt' = {}
  BY <1>1, <1>2 DEF WaitsBuilt, RidesBuilt, EdgesOfKind
<1>8. /\ RidesOfPass = {} /\ RidesOfPass' = {} /\ CountOfPass = 0 /\ CountOfPass' = 0
  BY <1>1 DEF RidesOfPass, CountOfPass
<1>9. Travelling' /\ HopsSoFar'
  BY <1>1, <1>3, <1>4, <1>6 DEF Travelling, HopsSoFar
<1>10. EdgesSoFar'
  BY <1>1, <1>3, <1>4, <1>6, <1>7, <1>8 DEF EdgesSoFar
<1>11. CountSoFar'
  BY <1>1, <1>3, <1>4, <1>6, <1>8 DEF CountSoFar
<1> QED
  BY <1>5, <1>9, <1>10, <1>11 DEF Construction

(* One more edge stands for one more wait, or for one more ride.           *)
LEMMA OneMoreEdgeBuilt ==
  ASSUME TypeOK, NEW e, edge_data' = Append(edge_data, e), UNCHANGED <<base, stop_data>>
  PROVE  /\ e.item.kind = "Wait" =>
              WaitsBuilt' = WaitsBuilt \cup {e.item.stop} /\ RidesBuilt' = RidesBuilt
         /\ e.item.kind = "Ride" =>
              WaitsBuilt' = WaitsBuilt /\ RidesBuilt' = RidesBuilt \cup {RideOfEdge(e)}
         /\ Len(edge_data') = Len(edge_data) + 1 /\ Len(edge_data) \in Nat
<1>1. edge_data \in Seq(EdgeData)
  BY DEF TypeOK, EdgeData
<1>2. /\ DOMAIN edge_data' = DOMAIN edge_data \cup {Len(edge_data) + 1}
      /\ \A k \in DOMAIN edge_data : edge_data'[k] = edge_data[k]
      /\ edge_data'[Len(edge_data) + 1] = e
      /\ Len(edge_data') = Len(edge_data) + 1 /\ Len(edge_data) \in Nat
      /\ Len(edge_data) + 1 \notin DOMAIN edge_data
  BY <1>1
<1> DEFINE last == Len(edge_data) + 1
<1> HIDE DEF last
<1>3. \A kind \in {"Wait", "Ride"} :
        EdgesOfKind(kind)' = EdgesOfKind(kind) \cup (IF e.item.kind = kind THEN {last} ELSE {})
  BY <1>2 DEF EdgesOfKind, last
<1>4. \A kind \in {"Wait", "Ride"} : \A k \in EdgesOfKind(kind) : edge_data'[k] = edge_data[k]
  BY <1>2 DEF EdgesOfKind
<1>5. \A x : RideOfEdge(x)' = RideOfEdge(x)
  BY DEF RideOfEdge, StopLeaving, StopReached
<1>6. edge_data'[last] = e
  BY <1>2 DEF last
<1>7. WaitsBuilt' = {edge_data'[k].item.stop : k \in EdgesOfKind("Wait")'}
  BY DEF WaitsBuilt
<1>8. RidesBuilt' = {RideOfEdge(edge_data'[k]) : k \in EdgesOfKind("Ride")'}
  BY DEF RidesBuilt, RideOfEdge, StopLeaving, StopReached
<1>9. ASSUME e.item.kind = "Wait"
      PROVE  WaitsBuilt' = WaitsBuilt \cup {e.item.stop} /\ RidesBuilt' = RidesBuilt
  <2>1. EdgesOfKind("Wait")' = EdgesOfKind("Wait") \cup {last}
    BY <1>3, <1>9
  <2>2. EdgesOfKind("Ride")' = EdgesOfKind("Ride")
    BY <1>3, <1>9
  <2>3. WaitsBuilt' = WaitsBuilt \cup {e.item.stop}
    BY <1>4, <1>6, <1>7, <2>1, ZenonT(30) DEF WaitsBuilt
  <2>4. RidesBuilt' = RidesBuilt
    BY <1>4, <1>8, <2>2 DEF RidesBuilt
  <2> QED
    BY <2>3, <2>4
<1>10. ASSUME e.item.kind = "Ride"
       PROVE  WaitsBuilt' = WaitsBuilt /\ RidesBuilt' = RidesBuilt \cup {RideOfEdge(e)}
  <2>1. EdgesOfKind("Ride")' = EdgesOfKind("Ride") \cup {last}
    BY <1>3, <1>10
  <2>2. EdgesOfKind("Wait")' = EdgesOfKind("Wait")
    BY <1>3, <1>10
  <2>3. WaitsBuilt' = WaitsBuilt
    BY <1>4, <1>7, <2>2 DEF WaitsBuilt
  <2>4. RidesBuilt' = RidesBuilt \cup {RideOfEdge(e)}
    BY <1>4, <1>6, <1>8, <2>1 DEF RidesBuilt
  <2> QED
    BY <2>3, <2>4
<1> QED
  BY <1>2, <1>9, <1>10

(* A wait is added for a stop that had none.                               *)
LEMMA WaitConstruction ==
  ASSUME CInv, NEW stop \in stops_left, WaitEdge(stop)
  PROVE  Construction'
<1>1. /\ pc = "waits" /\ edge_data' = Append(edge_data, WaitEdgeOf(stop))
      /\ stops_left' = stops_left \ {stop}
      /\ UNCHANGED <<base, catalogue, pc, stop_data, buses_left, bus, edges>>
  BY DEF WaitEdge, graph_vars
<1>2. GInv /\ TypeOK /\ catalogue = Source
  BY <1>1, CatalogueFacts DEF CInv, GInv, GraphConsistent, Building
<1>3. Phases /\ HopsSoFar /\ EdgesSoFar /\ CountSoFar /\ GraphBuilt
  BY DEF CInv, Construction
<1>4. Source' = Source /\ DeclaredOnce' = DeclaredOnce
  BY <1>1 DEF Source, DeclaredOnce, BusRequests, HasNull
<1>5. WaitEdgeOf(stop).item.kind = "Wait" /\ WaitEdgeOf(stop).item.stop = stop
  BY DEF WaitEdgeOf
<1>6. /\ WaitsBuilt' = WaitsBuilt \cup {stop} /\ RidesBuilt' = RidesBuilt
      /\ Len(edge_data') = Len(edge_data) + 1
  BY <1>1, <1>2, <1>5, OneMoreEdgeBuilt
<1>7. stop \in StopNames(Source) /\ stops_left \subseteq StopNames(Source)
  BY <1>2 DEF TypeOK
<1>8. StopNames(Source) \ stops_left' = (StopNames(Source) \ stops_left) \cup {stop}
  BY <1>1, <1>7
<1>9. /\ Cardinality(StopNames(Source) \ stops_left')
           = Cardinality(StopNames(Source) \ stops_left) + 1
      /\ Cardinality(StopNames(Source) \ stops_left) \in Nat
  <2>1. IsFiniteSet(StopNames(Source) \ stops_left)
    BY <1>1, <1>2, CatalogueFacts, FS_Subset DEF Building
  <2> QED
    BY <1>8, <2>1, FS_AddElement, FS_CardinalityType
<1>10. Phases' /\ GraphBuilt' /\ Travelling'
  BY <1>1, <1>3, <1>4 DEF Phases, GraphBuilt, Travelling
<1>11. Finished' = Finished /\ Finished = {}
  BY <1>1, <1>3, <1>4 DEF Finished, Phases
<1>12. /\ RidesOfPass = {} /\ RidesOfPass' = {} /\ CountOfPass = 0 /\ CountOfPass' = 0
  BY <1>1 DEF RidesOfPass, CountOfPass
<1>13. HopsSoFar'
  BY <1>1, <1>11 DEF HopsSoFar
<1>14. EdgesSoFar'
  BY <1>1, <1>3, <1>4, <1>6, <1>8, <1>11, <1>12 DEF EdgesSoFar
<1>15. CountSoFar'
  <2>1. CountOf(base, {}) = 0
    BY <1>2, CountNone, RouterAssumption DEF TypeOK
  <2> QED
    BY <1>1, <1>3, <1>4, <1>6, <1>9, <1>11, <1>12, <2>1 DEF CountSoFar
<1> QED
  BY <1>10, <1>13, <1>14, <1>15 DEF Construction

LEMMA StageConstruction ==
  CInv /\ (WaitEdgesDone \/ BusesDone \/ RouterBuilt \/ TakeAnswer) => Construction'
<1> SUFFICES ASSUME CInv, WaitEdgesDone \/ BusesDone \/ RouterBuilt \/ TakeAnswer
             PROVE  Construction'
  OBVIOUS
<1>1. /\ <<pc, pc'>> \in {<<"waits", "buses">>, <<"buses", "graph">>, <<"graph", "ready">>,
                         <<"graph", "domain_error">>, <<"ready", "ready">>}
      /\ UNCHANGED <<base, catalogue, stop_data, edge_data, stops_left, buses_left, edges>>
      /\ pc = "waits" => stops_left = {}
      /\ pc = "buses" => buses_left = {}
      /\ pc = "graph" => /\ Len(edges) = Len(edge_data)
                         /\ pc' = "ready" => ~ Search!HasNegative
                         /\ pc' = "domain_error" => Search!HasNegative
  BY DEF WaitEdgesDone, BusesDone, RouterBuilt, TakeAnswer, loop_vars, graph_vars
<1>2. Phases /\ GraphBuilt
  BY DEF CInv, Construction
<1>3. Source' = Source
  BY <1>1 DEF Source
<1>4. Search!HasNegative' = Search!HasNegative
  BY <1>1 DEF Search!HasNegative
<1>5. Phases'
  BY <1>1, <1>2, <1>3 DEF Phases
<1>6. GraphBuilt'
  BY <1>1, <1>2, <1>4 DEF GraphBuilt
<1>7. Finished' = Finished
  BY <1>1, <1>3 DEF Finished
<1>8. pc # "rides" /\ pc' # "rides" /\ pc # "threw" /\ pc' # "threw"
  BY <1>1
<1> QED
  BY <1>1, <1>5, <1>6, <1>7, <1>8, SameConstruction

-----------------------------------------------------------------------------
(* The loops over a route: which pairs of its positions are done.          *)
LEMMA PairsFacts ==
  ASSUME NEW S, NEW way \in Seq(S)
  PROVE  /\ PairsTo(way, 1, 2) = {}
         /\ \A a \in 1 .. Len(way) : \A c \in a + 1 .. Len(way) :
              PairsTo(way, a, c + 1) = PairsTo(way, a, c) \cup {<<a, c>>}
         /\ \A a \in 1 .. Len(way) :
              PairsTo(way, a + 1, a + 2) = PairsTo(way, a, Len(way) + 1)
         /\ PairsTo(way, Len(way) + 1, Len(way) + 2) = Pairs(way)
<1> DEFINE N == Len(way)
<1>1. DOMAIN way = 1 .. N /\ N \in Nat
  OBVIOUS
<1>2. \A p \in Pairs(way) : /\ p[1] \in 1 .. N /\ p[2] \in 1 .. N /\ p[1] < p[2]
                            /\ p = <<p[1], p[2]>>
  BY <1>1 DEF Pairs
<1>3. \A a \in 1 .. N : \A c \in a + 1 .. N : <<a, c>> \in Pairs(way)
  BY <1>1 DEF Pairs
<1> HIDE DEF N
<1>4. PairsTo(way, 1, 2) = {}
  BY <1>1, <1>2 DEF PairsTo
<1>5. ASSUME NEW a \in 1 .. N, NEW c \in a + 1 .. N
      PROVE  PairsTo(way, a, c + 1) = PairsTo(way, a, c) \cup {<<a, c>>}
  <2>1. ASSUME NEW p \in PairsTo(way, a, c + 1) PROVE p \in PairsTo(way, a, c) \cup {<<a, c>>}
    <3>1. p \in Pairs(way) /\ (p[1] < a \/ (p[1] = a /\ p[2] < c + 1))
      BY DEF PairsTo
    <3>2. p[1] < a \/ (p[1] = a /\ p[2] < c) \/ (p[1] = a /\ p[2] = c)
      BY <1>1, <1>2, <3>1
    <3> QED
      BY <1>2, <3>1, <3>2 DEF PairsTo
  <2>2. ASSUME NEW p \in PairsTo(way, a, c) PROVE p \in PairsTo(way, a, c + 1)
    <3>1. p \in Pairs(way) /\ (p[1] < a \/ (p[1] = a /\ p[2] < c))
      BY DEF PairsTo
    <3>2. p[1] < a \/ (p[1] = a /\ p[2] < c + 1)
      BY <1>1, <1>2, <3>1
    <3> QED
      BY <3>1, <3>2 DEF PairsTo
  <2>3. <<a, c>> \in PairsTo(way, a, c + 1)
    BY <1>1, <1>3 DEF PairsTo
  <2> QED
    BY <2>1, <2>2, <2>3
<1>6. ASSUME NEW a \in 1 .. N PROVE PairsTo(way, a + 1, a + 2) = PairsTo(way, a, N + 1)
  <2>1. ASSUME NEW p \in Pairs(way)
        PROVE  (p[1] < a + 1 \/ (p[1] = a + 1 /\ p[2] < a + 2))
                 <=> (p[1] < a \/ (p[1] = a /\ p[2] < N + 1))
    BY <1>1, <1>2
  <2> QED
    BY <2>1 DEF PairsTo
<1>7. PairsTo(way, N + 1, N + 2) = Pairs(way)
  <2>1. \A p \in Pairs(way) : p[1] < N + 1
    BY <1>1, <1>2
  <2> QED
    BY <2>1 DEF PairsTo
<1> QED
  BY <1>4, <1>5, <1>6, <1>7 DEF N

(* What holds in these loops.                                              *)
LEMMA RidesFacts ==
  ASSUME CInv, pc = "rides"
  PROVE  /\ TypeOK /\ catalogue = Source /\ CatalogueType(Source) /\ base \in Documents
         /\ bus \in BusNames(Source) /\ bus \notin buses_left
         /\ Stored(Source, bus) \in Seq(StopNames(Source)) /\ Chain(Source, bus) \in BOOLEAN
         /\ route = (IF turn THEN Stored(Source, bus) ELSE Reverse(Stored(Source, bus)))
         /\ route \in Seq(StopNames(Source)) /\ Len(route) = Len(Stored(Source, bus))
         /\ Len(route) \in Nat /\ turn \in BOOLEAN /\ (turn => Chain(Source, bus))
         /\ outer \in 1 .. Len(route) + 1 /\ inner \in 2 .. Len(route) + 2 /\ outer < inner
         /\ outer <= Len(route) => inner <= Len(route) + 1
         /\ outer > Len(route) => outer = Len(route) + 1 /\ inner = Len(route) + 2
<1>1. GInv /\ TypeOK /\ Progress /\ Travelling
  BY DEF CInv, GInv, GraphConsistent, Construction
<1>2. /\ catalogue = Source /\ CatalogueType(Source) /\ IndexConsistent(Source)
      /\ base \in Documents
  BY <1>1, CatalogueFacts DEF Building
<1>3. bus \in BusNames(Source)
  BY <1>1 DEF Progress
<1>4. /\ bus \notin buses_left
      /\ route = (IF turn THEN Stored(Source, bus) ELSE Reverse(Stored(Source, bus)))
      /\ turn => Chain(Source, bus)
      /\ outer <= Len(route) => inner <= Len(route) + 1
      /\ outer > Len(route) => inner = outer + 1
  BY <1>1 DEF Travelling
<1>5. Stored(Source, bus) \in Seq(StopNames(Source)) /\ Chain(Source, bus) \in BOOLEAN
  BY <1>2, <1>3, BusFacts DEF Stored, Chain
<1>6. Len(Reverse(Stored(Source, bus))) = Len(Stored(Source, bus))
  BY <1>5, ReverseFacts
<1>7. Len(route) = Len(Stored(Source, bus))
  BY <1>4, <1>6
<1>8. /\ route \in Seq(StopNames(Source)) /\ turn \in BOOLEAN
      /\ outer \in 1 .. Len(route) + 1 /\ inner \in 2 .. Len(route) + 2
  BY <1>1, <1>2 DEF TypeOK
<1>9. Len(route) \in Nat /\ outer < inner
  BY <1>1, <1>8 DEF Progress
<1>10. outer > Len(route) => outer = Len(route) + 1 /\ inner = Len(route) + 2
  BY <1>4, <1>8, <1>9
<1> QED
  BY <1>1, <1>2, <1>3, <1>4, <1>5, <1>7, <1>8, <1>9, <1>10

(* A bus is taken with none of its rides built.                            *)
LEMMA TakeBusConstruction == CInv /\ TakeBus => Construction'
<1> SUFFICES ASSUME CInv, TakeBus PROVE Construction'
  OBVIOUS
<1> DEFINE next == FirstName(buses_left)
<1>1. /\ pc = "buses" /\ buses_left # {} /\ pc' = "rides"
      /\ bus' = next /\ buses_left' = buses_left \ {next}
      /\ route' = (IF catalogue.buses[next].is_chain THEN catalogue.buses[next].route
                   ELSE Reverse(catalogue.buses[next].route))
      /\ turn' = catalogue.buses[next].is_chain
      /\ outer' = 1 /\ inner' = 2
      /\ UNCHANGED <<base, catalogue, stop_data, edge_data, stops_left, edges>>
  BY DEF TakeBus, FirstTravel, graph_vars
<1>2. GInv /\ TypeOK
  BY DEF CInv, GInv, GraphConsistent
<1>3. /\ catalogue = Source /\ CatalogueType(Source) /\ IndexConsistent(Source)
      /\ BusNames(Source) \subseteq Names
  BY <1>1, <1>2, CatalogueFacts DEF Building
<1>4. buses_left \subseteq BusNames(Source)
  BY <1>2, <1>3 DEF TypeOK
<1>5. next \in buses_left
  BY <1>1, <1>3, <1>4, FirstNameFacts
<1> HIDE DEF next
<1>6. Stored(Source, next) \in Seq(StopNames(Source)) /\ Chain(Source, next) \in BOOLEAN
  BY <1>3, <1>4, <1>5, BusFacts DEF Stored, Chain
<1>7. /\ route' = (IF turn' THEN Stored(Source, next) ELSE Reverse(Stored(Source, next)))
      /\ turn' = Chain(Source, next)
  BY <1>1, <1>3 DEF Stored, Chain
<1>8. route' \in Seq(StopNames(Source)) /\ Len(route') \in Nat
  BY <1>6, <1>7, ReverseFacts
<1>9. Phases /\ HopsSoFar /\ EdgesSoFar /\ CountSoFar /\ GraphBuilt
  BY DEF CInv, Construction
<1>10. /\ WaitsBuilt' = WaitsBuilt /\ RidesBuilt' = RidesBuilt /\ Source' = Source
       /\ DeclaredOnce' = DeclaredOnce
  BY <1>1, SameEdges
<1>11. Finished' = Finished
  <2>1. Finished = BusNames(Source) \ buses_left
    BY <1>1 DEF Finished
  <2>2. Finished' = (BusNames(Source) \ (buses_left \ {next})) \ {next}
    BY <1>1, <1>10 DEF Finished
  <2> QED
    BY <1>4, <1>5, <2>1, <2>2
<1>12. RidesOfPass = {} /\ CountOfPass = 0
  BY <1>1 DEF RidesOfPass, CountOfPass
<1>13. PairsTo(route', 1, 2) = {}
  BY <1>8, PairsFacts
<1>14. ~ SecondPass'
  BY <1>1, <1>7, <1>10 DEF SecondPass
<1>15. RidesOfPass' = {}
  BY <1>1, <1>13, <1>14 DEF RidesOfPass, RidesOn
<1>16. CountOfPass' = 0
  <2>1. PairCount(Len(route')) \in Nat /\ Len(route') - 1 + 1 = Len(route')
    BY <1>8, PairCountFacts
  <2>2. CountOfPass' = (PairCount(Len(route')) - PairCount(Len(route') - 1 + 1)) + (2 - 1 - 1) + 0
    BY <1>1, <1>14 DEF CountOfPass
  <2> QED
    BY <2>1, <2>2
<1>17. Phases' /\ GraphBuilt'
  BY <1>1, <1>9 DEF Phases, GraphBuilt
<1>18. Travelling'
  <2>1. outer' <= Len(route') => inner' <= Len(route') + 1
    BY <1>1, <1>8
  <2>2. outer' > Len(route') => inner' = outer' + 1
    BY <1>1
  <2> QED
    BY <1>1, <1>7, <1>10, <2>1, <2>2 DEF Travelling
<1>19. HopsSoFar'
  <2>1. HopsKnown(1, IF outer = 1 THEN inner - 1 ELSE Len(route))'
    BY <1>1 DEF HopsKnown
  <2> QED
    BY <1>1, <1>9, <1>10, <1>11, <2>1 DEF HopsSoFar
<1>20. EdgesSoFar'
  BY <1>1, <1>9, <1>10, <1>11, <1>12, <1>15 DEF EdgesSoFar
<1>21. CountSoFar'
  BY <1>1, <1>9, <1>10, <1>11, <1>12, <1>16 DEF CountSoFar
<1> QED
  BY <1>17, <1>18, <1>19, <1>20, <1>21 DEF Construction

(* The outer loop moves on when the pairs of its position are done.        *)
LEMMA NextOuterConstruction == CInv /\ NextOuter => Construction'
<1> SUFFICES ASSUME CInv, NextOuter PROVE Construction'
  OBVIOUS
<1>1. /\ pc = "rides" /\ pc' = "rides" /\ inner > Len(route) /\ outer <= Len(route)
      /\ outer' = outer + 1 /\ inner' = outer + 2
      /\ UNCHANGED <<base, catalogue, stop_data, edge_data, stops_left, buses_left, bus,
                     route, turn, edges, query>>
  BY DEF NextOuter, RouteEnd, graph_vars, ask_vars
<1>2. Phases /\ Travelling /\ HopsSoFar /\ EdgesSoFar /\ CountSoFar /\ GraphBuilt
  BY DEF CInv, Construction
<1>3. /\ catalogue = Source /\ route \in Seq(StopNames(Source)) /\ Len(route) \in Nat
      /\ outer \in 1 .. Len(route) + 1 /\ inner \in 2 .. Len(route) + 2
      /\ outer <= Len(route) => inner <= Len(route) + 1
  BY <1>1, RidesFacts
<1>4. outer \in 1 .. Len(route) /\ inner = Len(route) + 1
  BY <1>1, <1>3
<1>5. /\ WaitsBuilt' = WaitsBuilt /\ RidesBuilt' = RidesBuilt /\ Source' = Source
      /\ DeclaredOnce' = DeclaredOnce
  BY <1>1, SameEdges
<1>6. Finished' = Finished /\ (SecondPass' <=> SecondPass)
  BY <1>1, <1>5 DEF Finished, SecondPass
<1>7. PairsTo(route', outer', inner') = PairsTo(route, outer, inner)
  BY <1>1, <1>3, <1>4, PairsFacts
<1>8. RidesOfPass' = RidesOfPass
  BY <1>1, <1>5, <1>6, <1>7 DEF RidesOfPass
<1>9. CountOfPass' = CountOfPass
  <2> DEFINE n == Len(route)
             second == IF SecondPass THEN PairCount(n) ELSE 0
  <2>1. n - outer \in Nat /\ (n - outer) + 1 = n - outer + 1 /\ n - (outer + 1) + 1 = n - outer
    BY <1>3, <1>4
  <2>2. /\ PairCount(n - outer + 1) = PairCount(n - outer) + (n - outer)
        /\ PairCount(n - outer) \in Nat /\ PairCount(n) \in Nat
    BY <1>3, <2>1, PairCountFacts
  <2>3. CountOfPass = (PairCount(n) - PairCount(n - outer + 1)) + (n + 1 - outer - 1) + second
    BY <1>1, <1>4 DEF CountOfPass
  <2>4. CountOfPass' = (PairCount(n) - PairCount(n - outer)) + (outer + 2 - (outer + 1) - 1) + second
    <3>1. CountOfPass' = (PairCount(n') - PairCount(n' - outer' + 1)) + (inner' - outer' - 1)
                            + (IF SecondPass' THEN PairCount(n') ELSE 0)
      BY <1>1 DEF CountOfPass
    <3>2. n' = n /\ n' - outer' + 1 = n - outer
      BY <1>1, <2>1
    <3> HIDE DEF n
    <3>3. PairCount(n' - outer' + 1) = PairCount(n - outer)
      BY <3>2
    <3>4. PairCount(n') = PairCount(n)
      BY <3>2
    <3>5. inner' - outer' - 1 = outer + 2 - (outer + 1) - 1
      BY <1>1, <1>3
    <3>6. (IF SecondPass' THEN PairCount(n') ELSE 0) = second
      BY <1>6, <3>4
    <3> HIDE DEF second
    <3> QED
      BY <3>1, <3>3, <3>4, <3>5, <3>6
  <2>5. second \in Int
    BY <2>2
  <2> HIDE DEF n, second
  <2> QED
    BY <1>3, <2>1, <2>2, <2>3, <2>4, <2>5 DEF n
<1>10. Phases' /\ GraphBuilt'
  BY <1>1, <1>2 DEF Phases, GraphBuilt
<1>11. Travelling'
  <2>1. outer' <= Len(route') => inner' <= Len(route') + 1
    BY <1>1, <1>3, <1>4
  <2>2. outer' > Len(route') => inner' = outer' + 1
    BY <1>1, <1>3, <1>4
  <2> QED
    BY <1>1, <1>2, <1>5, <2>1, <2>2 DEF Travelling
<1>12. HopsSoFar'
  <2>1. HopsKnown(1, Len(route))
    <3>1. outer = 1 => inner - 1 = Len(route)
      BY <1>3, <1>4
    <3> QED
      BY <1>1, <1>2, <3>1 DEF HopsSoFar
  <2>2. HopsKnown(1, IF outer = 1 THEN inner - 1 ELSE Len(route))'
    <3>1. outer' # 1
      BY <1>1, <1>3
    <3> QED
      BY <1>1, <2>1, <3>1 DEF HopsKnown
  <2> QED
    BY <1>1, <1>2, <1>5, <1>6, <2>2 DEF HopsSoFar
<1>13. EdgesSoFar'
  BY <1>1, <1>2, <1>5, <1>6, <1>8 DEF EdgesSoFar
<1>14. CountSoFar'
  BY <1>1, <1>2, <1>5, <1>6, <1>9 DEF CountSoFar
<1> QED
  BY <1>10, <1>11, <1>12, <1>13, <1>14 DEF Construction

(* A chain turns round with all rides of its first pass.                   *)
LEMMA TurnRoundConstruction == CInv /\ TurnRound => Construction'
<1> SUFFICES ASSUME CInv, TurnRound PROVE Construction'
  OBVIOUS
<1>1. /\ pc = "rides" /\ pc' = "rides" /\ outer > Len(route) /\ turn
      /\ route' = Reverse(route) /\ turn' = FALSE /\ outer' = 1 /\ inner' = 2
      /\ UNCHANGED <<base, catalogue, stop_data, edge_data, stops_left, buses_left, bus,
                     edges, query>>
  BY DEF TurnRound, RouteEnd, TurnsLeft, graph_vars, ask_vars
<1>2. Phases /\ HopsSoFar /\ EdgesSoFar /\ CountSoFar /\ GraphBuilt
  BY DEF CInv, Construction
<1> DEFINE stored == Stored(Source, bus)
           n == Len(stored)
<1>3. /\ route = stored /\ stored \in Seq(StopNames(Source)) /\ Chain(Source, bus)
      /\ n \in Nat /\ outer = n + 1 /\ inner = n + 2 /\ bus \notin buses_left
  BY <1>1, RidesFacts
<1>4. /\ WaitsBuilt' = WaitsBuilt /\ RidesBuilt' = RidesBuilt /\ Source' = Source
      /\ DeclaredOnce' = DeclaredOnce
  BY <1>1, SameEdges
<1>5. Reverse(stored) \in Seq(StopNames(Source)) /\ Len(Reverse(stored)) = n
  BY <1>3, ReverseFacts
<1>6. Finished' = Finished /\ ~ SecondPass /\ SecondPass'
  BY <1>1, <1>3, <1>4 DEF Finished, SecondPass
<1>7. PairsTo(route, outer, inner) = Pairs(stored) /\ PairsTo(route', outer', inner') = {}
  BY <1>1, <1>3, <1>5, PairsFacts
<1>8. stored' = stored
  BY <1>1, <1>4
<1> HIDE DEF stored
<1>9. RidesOfPass' = RidesOfPass
  <2>1. RidesOfPass = RidesOn(Source, bus, stored, Pairs(stored)) \cup {}
    BY <1>1, <1>3, <1>6, <1>7 DEF RidesOfPass
  <2>2. RidesOfPass' = {} \cup RidesOn(Source, bus, stored, Pairs(stored))
    <3>1. RidesOn(Source', bus', route', {}) = {}
      BY DEF RidesOn
    <3>2. RidesOfPass' = RidesOn(Source', bus', route', PairsTo(route', outer', inner'))
                           \cup RidesOn(Source', bus', stored', Pairs(stored'))
      BY <1>1, <1>6 DEF RidesOfPass, stored
    <3> QED
      BY <1>1, <1>4, <1>7, <1>8, <3>1, <3>2
  <2> QED
    BY <2>1, <2>2
<1>10. CountOfPass' = CountOfPass
  <2>1. /\ PairCount(n) \in Nat /\ PairCount(0) = 0
        /\ n - (n + 1) + 1 = 0 /\ n - 1 + 1 = n
    BY <1>3, PairCountFacts
  <2>2. CountOfPass = (PairCount(n) - PairCount(n - (n + 1) + 1)) + (n + 2 - (n + 1) - 1) + 0
    BY <1>1, <1>3, <1>6 DEF CountOfPass
  <2>3. CountOfPass' = (PairCount(n) - PairCount(n - 1 + 1)) + (2 - 1 - 1) + PairCount(n)
    <3>1. Len(route') = n
      BY <1>1, <1>3, <1>5
    <3> QED
      BY <1>1, <1>6, <3>1 DEF CountOfPass
  <2> QED
    BY <1>3, <2>1, <2>2, <2>3
<1>11. Phases' /\ GraphBuilt'
  BY <1>1, <1>2 DEF Phases, GraphBuilt
<1>12. Travelling'
  <2>1. outer' <= Len(route') => inner' <= Len(route') + 1
    BY <1>1, <1>3, <1>5
  <2>2. outer' > Len(route') => inner' = outer' + 1
    BY <1>1
  <2>3. route' = Reverse(stored')
    BY <1>1, <1>3, <1>8
  <2> QED
    BY <1>1, <1>3, <1>4, <2>1, <2>2, <2>3 DEF Travelling, stored
<1>13. HopsSoFar'
  <2>1. HopsKnown(1, IF outer = 1 THEN inner - 1 ELSE Len(route))'
    BY <1>1 DEF HopsKnown
  <2> QED
    BY <1>1, <1>2, <1>4, <1>6, <2>1 DEF HopsSoFar
<1>14. EdgesSoFar'
  BY <1>1, <1>2, <1>4, <1>6, <1>9 DEF EdgesSoFar
<1>15. CountSoFar'
  BY <1>1, <1>2, <1>4, <1>6, <1>10 DEF CountSoFar
<1> QED
  BY <1>11, <1>12, <1>13, <1>14, <1>15 DEF Construction

(* The stop of a vertex.                                                   *)
LEMMA VertexStops ==
  ASSUME VerticesDistinct, NEW s \in DOMAIN stop_data
  PROVE  /\ StopLeaving(stop_data[s].vertex_out_id) = s
         /\ StopReached(stop_data[s].vertex_in_id) = s
<1>1. \A t \in DOMAIN stop_data :
        s # t => /\ stop_data[s].vertex_in_id # stop_data[t].vertex_in_id
                 /\ stop_data[s].vertex_out_id # stop_data[t].vertex_out_id
  BY DEF VerticesDistinct
<1>2. StopLeaving(stop_data[s].vertex_out_id) = s
  BY <1>1 DEF StopLeaving
<1>3. StopReached(stop_data[s].vertex_in_id) = s
  BY <1>1 DEF StopReached
<1> QED
  BY <1>2, <1>3

(* The edge of a ride is the ride from one stop of the route to the other. *)
LEMMA RideEdgeIsRide ==
  ASSUME CInv, pc = "rides", outer \in DOMAIN route, inner \in DOMAIN route
  PROVE  /\ RideEdgeOf(outer, inner).item.kind = "Ride"
         /\ RideOfEdge(RideEdgeOf(outer, inner)) = RideOn(Source, bus, route, outer, inner)
<1>1. /\ catalogue = Source /\ route \in Seq(StopNames(Source))
  BY RidesFacts
<1>2. VerticesDistinct /\ DOMAIN stop_data = StopNames(Source)
  BY DEF CInv, GInv, GraphConsistent, Progress
<1>3. route[outer] \in DOMAIN stop_data /\ route[inner] \in DOMAIN stop_data
  BY <1>1, <1>2
<1> DEFINE time == Length(outer, inner) * SpeedFactor
           e == RideEdgeOf(outer, inner)
<1>4. /\ e.origin_id = stop_data[route[outer]].vertex_out_id
      /\ e.destination_id = stop_data[route[inner]].vertex_in_id
      /\ e.weight = time /\ e.item.kind = "Ride" /\ e.item.bus = bus
      /\ e.item.span_count = inner - outer
  BY DEF RideEdgeOf, RideOrigin, SpanCount
<1>5. time = LengthOn(Source, route, outer, inner) * SpeedFactor
  BY <1>1, OnTheRoute
<1> HIDE DEF e, time
<1>6. StopLeaving(e.origin_id) = route[outer] /\ StopReached(e.destination_id) = route[inner]
  BY <1>2, <1>3, <1>4, VertexStops
<1>7. RideOfEdge(e) = RideOn(Source, bus, route, outer, inner)
  BY <1>4, <1>5, <1>6 DEF RideOfEdge, RideOn
<1> QED
  BY <1>4, <1>7 DEF e

(* One more pair of positions is one more ride.                            *)
LEMMA OneMoreRide ==
  ASSUME NEW cat, NEW b, NEW way, NEW pairs, NEW p
  PROVE  RidesOn(cat, b, way, pairs \cup {p})
           = RidesOn(cat, b, way, pairs) \cup {RideOn(cat, b, way, p[1], p[2])}
BY DEF RidesOn

(* The loops add the ride of the pair they are at, or throw because a hop  *)
(* of the bus is not known.                                                *)
LEMMA RideConstruction == CInv /\ RideEdge => Construction'
<1> SUFFICES ASSUME CInv, RideEdge PROVE Construction'
  OBVIOUS
<1>1. /\ pc = "rides" /\ inner <= Len(route)
      /\ UNCHANGED <<base, catalogue, stop_data, stops_left, buses_left, bus,
                     route, turn, outer, edges, query>>
  BY DEF RideEdge, RouteEnd, graph_vars, ask_vars
<1>2. Phases /\ Travelling /\ HopsSoFar /\ EdgesSoFar /\ CountSoFar /\ GraphBuilt
  BY DEF CInv, Construction
<1>3. /\ TypeOK /\ catalogue = Source /\ route \in Seq(StopNames(Source)) /\ Len(route) \in Nat
      /\ bus \in BusNames(Source) /\ Stored(Source, bus) \in Seq(StopNames(Source))
      /\ route = (IF turn THEN Stored(Source, bus) ELSE Reverse(Stored(Source, bus)))
  BY <1>1, RidesFacts
<1>4. /\ outer \in 1 .. Len(route) + 1 /\ inner \in 2 .. Len(route) + 2 /\ outer < inner
  BY <1>1, RidesFacts
<1>5. /\ outer \in 1 .. Len(route) /\ inner \in outer + 1 .. Len(route)
      /\ outer \in DOMAIN route /\ inner \in DOMAIN route
  BY <1>1, <1>3, <1>4
<1>6. Source' = Source /\ DeclaredOnce' = DeclaredOnce
  BY <1>1 DEF Source, DeclaredOnce, BusRequests, HasNull
<1>7. CASE HopsKnown(outer, inner)
  <2> DEFINE e == RideEdgeOf(outer, inner)
             ride == RideOn(Source, bus, route, outer, inner)
  <2>1. edge_data' = Append(edge_data, e) /\ inner' = inner + 1 /\ pc' = "rides"
    BY <1>1, <1>7 DEF RideEdge
  <2>2. e.item.kind = "Ride" /\ RideOfEdge(e) = ride
    BY <1>1, <1>5, RideEdgeIsRide
  <2> HIDE DEF e
  <2>3. /\ WaitsBuilt' = WaitsBuilt /\ RidesBuilt' = RidesBuilt \cup {ride}
        /\ Len(edge_data') = Len(edge_data) + 1 /\ Len(edge_data) \in Nat
    BY <1>1, <1>3, <2>1, <2>2, OneMoreEdgeBuilt
  <2>4. Finished' = Finished /\ (SecondPass' <=> SecondPass)
    BY <1>1, <1>6, <2>1 DEF Finished, SecondPass
  <2>5. RidesOfPass' = RidesOfPass \cup {ride}
    <3> DEFINE done == RidesOn(Source, bus, route, PairsTo(route, outer, inner))
               second == IF SecondPass
                           THEN RidesOn(Source, bus, Stored(Source, bus), Pairs(Stored(Source, bus)))
                         ELSE {}
    <3>1. PairsTo(route, outer, inner + 1) = PairsTo(route, outer, inner) \cup {<<outer, inner>>}
      BY <1>3, <1>5, PairsFacts, SMTT(30)
    <3>2. RidesOn(Source, bus, route, PairsTo(route, outer, inner + 1)) = done \cup {ride}
      <4> DEFINE before == PairsTo(route, outer, inner)
                 pair == <<outer, inner>>
      <4>1. pair[1] = outer /\ pair[2] = inner
        OBVIOUS
      <4> HIDE DEF before, pair
      <4>2. RidesOn(Source, bus, route, before \cup {pair})
              = RidesOn(Source, bus, route, before)
                  \cup {RideOn(Source, bus, route, pair[1], pair[2])}
        BY OneMoreRide
      <4> QED
        BY <3>1, <4>1, <4>2 DEF before, pair
    <3>3. RidesOfPass = done \cup second
      BY <1>1 DEF RidesOfPass
    <3>4. RidesOfPass' = RidesOn(Source, bus, route, PairsTo(route, outer, inner + 1)) \cup second
      BY <1>1, <1>6, <2>1, <2>4 DEF RidesOfPass
    <3> HIDE DEF done, second, ride
    <3> QED
      BY <3>2, <3>3, <3>4
  <2> HIDE DEF ride
  <2>6. CountOfPass' = CountOfPass + 1 /\ CountOfPass \in Int
    <3> DEFINE n == Len(route)
               done == PairCount(n) - PairCount(n - outer + 1)
               second == IF SecondPass THEN PairCount(n) ELSE 0
    <3>1. n - outer + 1 \in Nat /\ n \in Nat
      BY <1>3, <1>5
    <3>2. PairCount(n) \in Nat /\ PairCount(n - outer + 1) \in Nat
      BY <3>1, PairCountFacts
    <3>3. done \in Int /\ second \in Int
      BY <3>2
    <3>4. CountOfPass = done + (inner - outer - 1) + second
      BY <1>1 DEF CountOfPass
    <3>5. CountOfPass' = done + (inner + 1 - outer - 1) + second
      <4>1. CountOfPass' = done' + (inner' - outer' - 1)
                              + (IF SecondPass' THEN PairCount(n') ELSE 0)
        BY <2>1 DEF CountOfPass
      <4>2. done' = done /\ (IF SecondPass' THEN PairCount(n') ELSE 0) = second
        BY <1>1, <2>4
      <4>3. inner' - outer' - 1 = inner + 1 - outer - 1
        BY <1>1, <1>4, <2>1
      <4> HIDE DEF done, second
      <4> QED
        BY <4>1, <4>2, <4>3
    <3> HIDE DEF n, done, second
    <3> QED
      BY <1>4, <3>1, <3>3, <3>4, <3>5
  <2>7. Phases' /\ GraphBuilt'
    BY <1>1, <1>2, <1>6, <2>1 DEF Phases, GraphBuilt
  <2>8. Travelling'
    <3>1. outer' <= Len(route') => inner' <= Len(route') + 1
      BY <1>1, <1>3, <1>4, <2>1
    <3>2. ~ (outer' > Len(route'))
      BY <1>1, <1>3, <1>5
    <3> QED
      BY <1>1, <1>2, <1>6, <2>1, <3>1, <3>2 DEF Travelling
  <2>9. HopsSoFar'
    <3>1. \A from, to : HopsKnown(from, to)' <=> HopsKnown(from, to)
      BY <1>1 DEF HopsKnown
    <3>2. HopsKnown(1, IF outer = 1 THEN inner' - 1 ELSE Len(route))
      <4>1. CASE outer = 1
        <5>1. inner' - 1 = inner
          BY <1>4, <2>1
        <5> QED
          BY <1>7, <4>1, <5>1
      <4>2. CASE outer # 1
        BY <1>1, <1>2, <4>2 DEF HopsSoFar
      <4> QED
        BY <4>1, <4>2
    <3>3. HopsKnown(1, IF outer = 1 THEN inner - 1 ELSE Len(route))'
      BY <1>1, <3>2 DEF HopsKnown
    <3> QED
      BY <1>1, <1>2, <1>6, <2>1, <2>4, <3>3 DEF HopsSoFar
  <2>10. EdgesSoFar'
    <3> DEFINE rides == RidesOfAll(Source, Finished)
    <3>1. WaitsBuilt = StopNames(Source) \ stops_left
      BY <1>1, <1>2 DEF EdgesSoFar
    <3>2. RidesBuilt = rides \cup RidesOfPass
      BY <1>1, <1>2 DEF EdgesSoFar
    <3>3. RidesBuilt' = RidesOfAll(Source', Finished') \cup RidesOfPass'
      <4>1. RidesOfAll(Source', Finished') = rides
        BY <1>6, <2>4
      <4> HIDE DEF rides
      <4> QED
        BY <2>3, <2>5, <3>2, <4>1
    <3>4. WaitsBuilt' = StopNames(Source') \ stops_left'
      BY <1>1, <1>6, <2>3, <3>1
    <3> QED
      BY <3>3, <3>4 DEF EdgesSoFar
  <2>11. CountSoFar'
    <3> DEFINE waits == Cardinality(StopNames(Source) \ stops_left)
               rides == CountOf(base, Finished)
    <3> SUFFICES ASSUME DeclaredOnce
                 PROVE  Len(edge_data') = waits + rides + CountOfPass'
      BY <1>1, <1>6, <2>4 DEF CountSoFar
    <3>1. Len(edge_data) = waits + rides + CountOfPass
      BY <1>1, <1>2 DEF CountSoFar
    <3>2. waits \in Nat
      <4>1. IsFiniteSet(StopNames(Source))
        BY <1>3, SourceFacts DEF TypeOK
      <4> QED
        BY <4>1, FS_Subset, FS_CardinalityType
    <3>3. rides \in Int
      <4>1. base \in Seq(Request)
        BY <1>3, SourceFacts DEF TypeOK
      <4> QED
        BY <4>1, CountIsSum, CountedType
    <3> HIDE DEF waits, rides
    <3> QED
      BY <2>3, <2>6, <3>1, <3>2, <3>3
  <2> QED
    BY <2>7, <2>8, <2>9, <2>10, <2>11 DEF Construction
<1>8. CASE ~ HopsKnown(outer, inner)
  <2>1. pc' = "threw"
    BY <1>8 DEF RideEdge
  <2>2. ~ WayKnown(Source, route)
    <3>1. PICK k \in outer + 1 .. inner : ~ HasDistance(Source, route[k - 1], route[k])
      BY <1>3, <1>8 DEF HopsKnown
    <3>2. k \in 1 + 1 .. Len(route)
      BY <1>3, <1>5
    <3> QED
      BY <3>1, <3>2 DEF WayKnown, HopsOn
  <2>3. ~ WayKnown(Source, Stored(Source, bus))
    BY <1>3, <2>2, KnownBackwards
  <2>4. Phases' /\ Travelling' /\ GraphBuilt' /\ EdgesSoFar' /\ CountSoFar'
    BY <2>1 DEF Phases, Travelling, GraphBuilt, EdgesSoFar, CountSoFar
  <2>5. HopsSoFar'
    BY <1>3, <1>6, <2>1, <2>3 DEF HopsSoFar
  <2> QED
    BY <2>4, <2>5 DEF Construction
<1> QED
  BY <1>7, <1>8

(* The buses of the catalogue are those of the requests.                   *)
LEMMA SourceBuses ==
  ASSUME base \in Documents
  PROVE  /\ BusRequests \subseteq BusPlaces(base)
         /\ BusNames(Source) = {base[k].name : k \in BusRequests}
         /\ BusRequests # {} => ~ HasNull(base) /\ BusRequests = BusPlaces(base)
         /\ DeclaredOnce /\ BusRequests # {} => OnceEach(base)
         /\ DeclaredOnce => \A k \in BusRequests : Source.buses[base[k].name] = BusOf(base[k])
<1>1. base \in Seq(Request)
  BY SourceFacts
<1>2. CASE HasNull(base)
  <2>1. BusRequests = {} /\ Source = EmptyCatalogue
    BY <1>2 DEF BusRequests, Source, DBBuilder
  <2>2. BusNames(Source) = {}
    BY <2>1, EmptyCatalogueFacts
  <2> QED
    BY <2>1, <2>2
<1>3. CASE ~ HasNull(base)
  <2>1. BusRequests = BusPlaces(base)
    BY <1>3 DEF BusRequests, BusPlaces
  <2>2. BusesAsDeclared(Source, base)
    BY <1>1, <1>3, DBBuilderKeepsTheBuses DEF Source
  <2>3. DeclaredOnce <=> OnceEach(base)
    BY <2>1 DEF DeclaredOnce, OnceEach
  <2> QED
    BY <1>3, <2>1, <2>2, <2>3 DEF BusesAsDeclared, Alone, OnceEach
<1> QED
  BY <1>2, <1>3

(* A bus whose request is the only one of its name.                        *)
LEMMA BusOfRequest ==
  ASSUME base \in Documents, DeclaredOnce, NEW k \in BusRequests
  PROVE  /\ base[k].stops \in Seq(Names) /\ base[k].is_roundtrip \in BOOLEAN
         /\ base[k].name \in BusNames(Source)
         /\ Stored(Source, base[k].name) = Reverse(base[k].stops)
         /\ Chain(Source, base[k].name) = ~ base[k].is_roundtrip
         /\ Len(Stored(Source, base[k].name)) = Len(base[k].stops)
<1>1. base \in Seq(Request) /\ k \in BusPlaces(base)
  BY SourceFacts, SourceBuses
<1>2. base[k].stops \in Seq(Names) /\ base[k].is_roundtrip \in BOOLEAN
  BY <1>1, RidesOfferedType, RequestFields
<1>3. base[k].name \in BusNames(Source) /\ Source.buses[base[k].name] = BusOf(base[k])
  BY SourceBuses
<1>4. /\ Stored(Source, base[k].name) = Reverse(base[k].stops)
      /\ Chain(Source, base[k].name) = ~ base[k].is_roundtrip
  BY <1>3 DEF Stored, Chain, BusOf
<1>5. Len(Reverse(base[k].stops)) = Len(base[k].stops)
  BY <1>2, ReverseFacts
<1> QED
  BY <1>2, <1>3, <1>4, <1>5

(* A bus is done when all its rides are built: as many as its request      *)
(* offers.                                                                 *)
LEMMA BusDoneConstruction == CInv /\ BusDone => Construction'
<1> SUFFICES ASSUME CInv, BusDone PROVE Construction'
  OBVIOUS
<1>1. /\ pc = "rides" /\ pc' = "buses" /\ outer > Len(route) /\ ~ turn
      /\ UNCHANGED <<base, catalogue, stop_data, edge_data, stops_left, buses_left, bus,
                     edges, query>>
  BY DEF BusDone, RouteEnd, loop_vars, graph_vars, ask_vars
<1>2. Phases /\ HopsSoFar /\ EdgesSoFar /\ CountSoFar /\ GraphBuilt
  BY DEF CInv, Construction
<1> DEFINE stored == Stored(Source, bus)
           chain == Chain(Source, bus)
           n == Len(stored)
<1>3. /\ base \in Documents /\ catalogue = Source
      /\ route = Reverse(stored) /\ stored \in Seq(StopNames(Source)) /\ chain \in BOOLEAN
      /\ n \in Nat /\ Len(route) = n /\ outer = n + 1 /\ inner = n + 2
      /\ bus \notin buses_left /\ bus \in BusNames(Source)
      /\ route \in Seq(StopNames(Source))
  BY <1>1, RidesFacts
<1>4. /\ WaitsBuilt' = WaitsBuilt /\ RidesBuilt' = RidesBuilt /\ Source' = Source
      /\ DeclaredOnce' = DeclaredOnce
  BY <1>1, SameEdges
<1>5. Finished' = Finished \cup {bus} /\ bus \notin Finished /\ (SecondPass <=> chain)
  BY <1>1, <1>3, <1>4 DEF Finished, SecondPass
<1>6. RidesOfPass = RidesOf(Source, bus)
  <2> DEFINE back == RidesOn(Source, bus, Reverse(stored), Pairs(Reverse(stored)))
             there == RidesOn(Source, bus, stored, Pairs(stored))
  <2>1. PairsTo(route, outer, inner) = Pairs(route)
    BY <1>3, PairsFacts
  <2>2. RidesOfPass = back \cup (IF chain THEN there ELSE {})
    BY <1>1, <1>3, <1>5, <2>1 DEF RidesOfPass
  <2>3. Travels(Source, bus) = {Reverse(stored)} \cup (IF chain THEN {stored} ELSE {})
    BY DEF Travels
  <2>4. RidesOf(Source, bus)
          = UNION {RidesOn(Source, bus, way, Pairs(way)) : way \in Travels(Source, bus)}
    BY DEF RidesOf
  <2>5. CASE chain
    BY <2>2, <2>3, <2>4, <2>5
  <2>6. CASE ~ chain
    BY <2>2, <2>3, <2>4, <2>6
  <2> QED
    BY <2>5, <2>6
<1>7. RidesOfPass' = {} /\ CountOfPass' = 0
  BY <1>1 DEF RidesOfPass, CountOfPass
<1>8. RidesOfAll(Source, Finished') = RidesOfAll(Source, Finished) \cup RidesOf(Source, bus)
  BY <1>5 DEF RidesOfAll
<1>9. CountOfPass = PairCount(n) + (IF chain THEN PairCount(n) ELSE 0)
  <2>1. PairCount(0) = 0 /\ PairCount(n) \in Nat /\ n - (n + 1) + 1 = 0
    BY <1>3, PairCountFacts
  <2>2. CountOfPass = (PairCount(n) - PairCount(n - (n + 1) + 1)) + (n + 2 - (n + 1) - 1)
                         + (IF chain THEN PairCount(n) ELSE 0)
    BY <1>1, <1>3, <1>5 DEF CountOfPass
  <2> DEFINE second == IF chain THEN PairCount(n) ELSE 0
  <2>3. second \in Nat
    BY <2>1
  <2> HIDE DEF second, n
  <2>4. CountOfPass = (PairCount(n) - 0) + (n + 2 - (n + 1) - 1) + second
    BY <2>1, <2>2 DEF second
  <2>5. CountOfPass = PairCount(n) + second
    BY <1>3, <2>1, <2>3, <2>4
  <2> QED
    BY <2>5 DEF second
<1>10. DeclaredOnce => /\ CountOf(base, Finished) \in Int
                       /\ CountOf(base, Finished') = CountOf(base, Finished) + CountOfPass
  <2> SUFFICES ASSUME DeclaredOnce
               PROVE  /\ CountOf(base, Finished) \in Int
                      /\ CountOf(base, Finished') = CountOf(base, Finished) + CountOfPass
    OBVIOUS
  <2>1. PICK k \in BusRequests : base[k].name = bus
    BY <1>3, SourceBuses
  <2>2. base \in Seq(Request) /\ k \in BusPlaces(base) /\ OnceEach(base)
    BY <1>3, SourceBuses, SourceFacts
  <2>3. chain = ~ base[k].is_roundtrip /\ base[k].is_roundtrip \in BOOLEAN
        /\ n = Len(base[k].stops)
    BY <1>3, <2>1, BusOfRequest
  <2>4. PairCount(n) \in Nat
    BY <1>3, PairCountFacts
  <2>5. RidesOffered(base[k]) = IF base[k].is_roundtrip THEN PairCount(n)
                                ELSE PairCount(n) + PairCount(n)
    BY <2>2, <2>3, RidesOfferedType
  <2>6. RidesOffered(base[k]) = CountOfPass
    <3> DEFINE count == PairCount(n)
    <3> HIDE DEF count
    <3>1. CountOfPass = count + (IF chain THEN count ELSE 0)
      BY <1>9 DEF count
    <3>2. RidesOffered(base[k]) = IF base[k].is_roundtrip THEN count ELSE count + count
      BY <2>5 DEF count
    <3>3. count \in Nat
      BY <2>4 DEF count
    <3>4. CASE base[k].is_roundtrip
      <4>1. ~ chain
        BY <2>3, <3>4
      <4>2. CountOfPass = count + 0
        BY <3>1, <4>1
      <4> QED
        BY <3>2, <3>3, <3>4, <4>2
    <3>5. CASE ~ base[k].is_roundtrip
      BY <2>3, <3>1, <3>2, <3>3, <3>5
    <3> QED
      BY <3>4, <3>5
  <2>7. base[k].name \notin Finished
    BY <1>5, <2>1
  <2>8. /\ CountOf(base, Finished) \in Int
        /\ CountOf(base, Finished \cup {base[k].name})
             = CountOf(base, Finished) + RidesOffered(base[k])
    BY <2>2, <2>7, CountOneMore
  <2> QED
    BY <1>5, <2>1, <2>6, <2>8
<1>11. WayKnown(Source, stored)
  <2>1. HopsOn(Source, route, 1, n)
    <3>1. CASE n = 0
      BY <3>1 DEF HopsOn
    <3>2. CASE n # 0
      <4>1. outer # 1
        BY <1>3, <3>2
      <4> QED
        BY <1>1, <1>2, <1>3, <4>1, OnTheRoute DEF HopsSoFar
    <3> QED
      BY <3>1, <3>2
  <2>2. WayKnown(Source, route)
    BY <1>3, <2>1 DEF WayKnown
  <2>3. WayKnown(Source, Reverse(route)) /\ Reverse(route) = stored
    BY <1>3, <2>2, KnownBackwards, ReverseTwice
  <2> QED
    BY <2>3
<1>12. Phases' /\ GraphBuilt' /\ Travelling'
  BY <1>1, <1>2 DEF Phases, GraphBuilt, Travelling
<1>13. HopsSoFar'
  BY <1>1, <1>2, <1>4, <1>5, <1>11 DEF HopsSoFar
<1>14. EdgesSoFar'
  <2>1. WaitsBuilt = StopNames(Source) \ stops_left
    BY <1>1, <1>2 DEF EdgesSoFar
  <2>2. RidesBuilt = RidesOfAll(Source, Finished) \cup RidesOfPass
    BY <1>1, <1>2 DEF EdgesSoFar
  <2>3. RidesBuilt' = RidesOfAll(Source', Finished') \cup RidesOfPass'
    BY <1>4, <1>6, <1>7, <1>8, <2>2
  <2> QED
    BY <1>1, <1>4, <2>1, <2>3 DEF EdgesSoFar
<1>15. CountSoFar'
  <2> DEFINE waits == Cardinality(StopNames(Source) \ stops_left)
  <2> SUFFICES ASSUME DeclaredOnce
               PROVE  Len(edge_data) = waits + CountOf(base, Finished') + 0
    BY <1>1, <1>4, <1>7 DEF CountSoFar
  <2>1. Len(edge_data) = waits + CountOf(base, Finished) + CountOfPass
    BY <1>1, <1>2 DEF CountSoFar
  <2>2. waits \in Nat
    BY <1>3, SourceFacts, FS_Subset, FS_CardinalityType
  <2>3. CountOfPass \in Int
    <3>1. PairCount(n) \in Nat
      BY <1>3, PairCountFacts
    <3> QED
      BY <1>9, <3>1
  <2> HIDE DEF waits
  <2> QED
    BY <1>10, <2>1, <2>2, <2>3
<1> QED
  BY <1>12, <1>13, <1>14, <1>15 DEF Construction

(* BuildRouter never throws: an edge leaves a vertex of a stop.            *)
LEMMA AddEdgeConstruction == CInv /\ AddEdge => Construction'
<1> SUFFICES ASSUME CInv, AddEdge PROVE Construction'
  OBVIOUS
<1> DEFINE k == Len(edges) + 1
           n == Cardinality(DOMAIN stop_data)
<1>1. /\ pc = "graph" /\ Len(edges) < Len(edge_data)
      /\ UNCHANGED <<base, catalogue, stop_data, edge_data, stops_left, buses_left, query>>
  BY DEF AddEdge, loop_vars, ask_vars
<1>2. TypeOK /\ VerticesDistinct /\ EdgesFit /\ Progress /\ Phases
  BY DEF CInv, GInv, GraphConsistent, Construction
<1>3. n \in Nat
  <2>1. IsFiniteSet(DOMAIN stop_data)
    BY <1>1, <1>2, SourceFacts DEF Progress, TypeOK
  <2> QED
    BY <2>1, FS_CardinalityType
<1>4. k \in DOMAIN edge_data
  BY <1>1, <1>2 DEF TypeOK
<1>5. edge_data[k].origin_id \in 1 .. 2 * n
  <2> HIDE DEF k
  <2>1. PICK s \in DOMAIN stop_data : \/ edge_data[k].origin_id = stop_data[s].vertex_in_id
                                      \/ edge_data[k].origin_id = stop_data[s].vertex_out_id
    BY <1>2, <1>4 DEF EdgesFit
  <2> QED
    BY <1>2, <2>1 DEF VerticesDistinct, VertexIds
<1>6. edge_data[k].origin_id < VertexCount
  <2> HIDE DEF n, k
  <2>1. VertexCount = 2 * n + 1
    BY DEF VertexCount, n
  <2> QED
    BY <1>3, <1>5, <2>1
<1>7. pc' = "graph"
  BY <1>1, <1>6 DEF AddEdge
<1>8. Source' = Source
  BY <1>1 DEF Source
<1>9. Phases' /\ GraphBuilt'
  BY <1>1, <1>2, <1>7, <1>8 DEF Phases, GraphBuilt
<1>10. Finished' = Finished
  BY <1>1, <1>7, <1>8 DEF Finished
<1> QED
  BY <1>1, <1>7, <1>9, <1>10, SameConstruction

(* A search builds nothing.                                                *)
LEMMA SearchConstruction ==
  ASSUME CInv, NEW from \in Names, NEW to \in Names, RouteSearch(from, to)
  PROVE  Construction'
<1>1. /\ pc = "ready" /\ pc' \in {"ready", "threw"} /\ query' = [from |-> from, to |-> to]
      /\ UNCHANGED <<base, stop_data, edge_data, stops_left, buses_left, edges>>
  BY DEF RouteSearch, loop_vars, graph_vars
<1>2. Phases /\ GraphBuilt
  BY DEF CInv, Construction
<1>3. Source' = Source /\ Search!HasNegative' = Search!HasNegative
  BY <1>1 DEF Source, Search!HasNegative
<1>4. query' # NoAnswer
  BY <1>1, RouterAssumption
<1>5. CASE pc' = "ready"
  <2>1. Phases' /\ GraphBuilt'
    BY <1>1, <1>2, <1>3, <1>5 DEF Phases, GraphBuilt
  <2>2. Finished' = Finished
    BY <1>1, <1>3, <1>5 DEF Finished
  <2> QED
    BY <1>1, <1>5, <2>1, <2>2, SameConstruction
<1>6. CASE pc' = "threw"
  BY <1>4, <1>6
  DEF Construction, Phases, Travelling, HopsSoFar, EdgesSoFar, CountSoFar, GraphBuilt
<1> QED
  BY <1>1, <1>5, <1>6

LEMMA StutterConstruction == CInv /\ UNCHANGED vars => Construction'
<1> SUFFICES ASSUME CInv, UNCHANGED vars PROVE Construction'
  OBVIOUS
<1>1. UNCHANGED <<base, catalogue, pc, stop_data, edge_data, stops_left, buses_left, bus,
                  route, turn, outer, inner, edges, query>>
  BY DEF vars
<1>2. Phases /\ Travelling /\ HopsSoFar /\ EdgesSoFar /\ CountSoFar /\ GraphBuilt
  BY DEF CInv, Construction
<1>3. /\ WaitsBuilt' = WaitsBuilt /\ RidesBuilt' = RidesBuilt /\ Source' = Source
      /\ DeclaredOnce' = DeclaredOnce
  BY <1>1, SameEdges
<1>4. Finished' = Finished
  BY <1>1, <1>3 DEF Finished
<1>5. RidesOfPass' = RidesOfPass /\ CountOfPass' = CountOfPass
  BY <1>1, <1>3 DEF RidesOfPass, CountOfPass, SecondPass
<1>6. Phases' /\ Travelling'
  BY <1>1, <1>2, <1>3 DEF Phases, Travelling
<1>7. HopsSoFar'
  BY <1>1, <1>2, <1>3, <1>4 DEF HopsSoFar, HopsKnown
<1>8. EdgesSoFar'
  BY <1>1, <1>2, <1>3, <1>4, <1>5 DEF EdgesSoFar
<1>9. CountSoFar'
  BY <1>1, <1>2, <1>3, <1>4, <1>5 DEF CountSoFar
<1>10. GraphBuilt'
  BY <1>1, <1>2 DEF GraphBuilt, Search!HasNegative
<1> QED
  BY <1>6, <1>7, <1>8, <1>9, <1>10 DEF Construction

LEMMA NextCInv == CInv /\ [Next]_vars => CInv'
<1> SUFFICES ASSUME CInv, [Next]_vars PROVE CInv'
  OBVIOUS
<1>1. GInv'
  BY NextGInv DEF CInv
<1>2. CASE Construct
  <2>1. CASE \E stop \in stops_left : WaitEdge(stop)
    <3>1. PICK stop \in stops_left : WaitEdge(stop)
      BY <2>1
    <3>2. Construction'
      BY <3>1, WaitConstruction
    <3> QED
      BY <1>1, <3>2 DEF CInv
  <2>2. CASE GetVertex \/ VertexesDone
    BY <1>1, <2>2, VertexConstruction DEF CInv
  <2>3. CASE WaitEdgesDone \/ BusesDone \/ RouterBuilt
    BY <1>1, <2>3, StageConstruction DEF CInv
  <2>4. CASE TakeBus
    BY <1>1, <2>4, TakeBusConstruction DEF CInv
  <2>5. CASE RideEdge
    BY <1>1, <2>5, RideConstruction DEF CInv
  <2>6. CASE NextOuter
    BY <1>1, <2>6, NextOuterConstruction DEF CInv
  <2>7. CASE TurnRound
    BY <1>1, <2>7, TurnRoundConstruction DEF CInv
  <2>8. CASE BusDone
    BY <1>1, <2>8, BusDoneConstruction DEF CInv
  <2>9. CASE AddEdge
    BY <1>1, <2>9, AddEdgeConstruction DEF CInv
  <2> QED
    BY <1>2, <2>1, <2>2, <2>3, <2>4, <2>5, <2>6, <2>7, <2>8, <2>9 DEF Construct
<1>3. CASE \E from, to \in Names : RouteSearch(from, to)
  BY <1>1, <1>3, SearchConstruction DEF CInv
<1>4. CASE TakeAnswer
  BY <1>1, <1>4, StageConstruction DEF CInv
<1>5. CASE UNCHANGED vars
  BY <1>1, <1>5, StutterConstruction DEF CInv
<1> QED
  BY <1>2, <1>3, <1>4, <1>5 DEF Next

LEMMA AlwaysCInv == Spec => []CInv
<1>1. Init => CInv
  BY InitGInv, InitConstruction DEF CInv
<1>2. CInv /\ [Next]_vars => CInv'
  BY NextCInv
<1> QED
  BY <1>1, <1>2, PTL DEF Spec

(* What an edge weighs is the time of its section.                         *)
Timed ==
  \A k \in DOMAIN edge_data :
    /\ edge_data[k].weight = edge_data[k].item.time
    /\ edge_data[k].item.kind = "Wait" => edge_data[k].weight = WaitTime

(* Only waits and rides are added, each with its own time.                 *)
LEMMA TimedStep == GInv /\ Timed /\ [Next]_vars => Timed'
<1> SUFFICES ASSUME GInv, Timed, [Next]_vars PROVE Timed'
  OBVIOUS
<1> USE DEF graph_vars, ask_vars, loop_vars
<1>1. edge_data \in Seq(EdgeData)
  BY DEF GInv, GraphConsistent, TypeOK, EdgeData
<1>2. CASE edge_data' = edge_data
  BY <1>2 DEF Timed
<1>3. ASSUME NEW e, edge_data' = Append(edge_data, e), e.weight = e.item.time,
             e.item.kind = "Wait" => e.weight = WaitTime
      PROVE  Timed'
  <2>1. /\ DOMAIN edge_data' = DOMAIN edge_data \cup {Len(edge_data) + 1}
        /\ \A k \in DOMAIN edge_data : edge_data'[k] = edge_data[k]
        /\ edge_data'[Len(edge_data) + 1] = e
    BY <1>1, <1>3
  <2> QED
    BY <1>3, <2>1 DEF Timed
<1>4. CASE \E stop \in stops_left : WaitEdge(stop)
  <2>1. PICK stop \in stops_left : edge_data' = Append(edge_data, WaitEdgeOf(stop))
    BY <1>4 DEF WaitEdge
  <2>2. WaitEdgeOf(stop).weight = WaitTime /\ WaitEdgeOf(stop).item.time = WaitTime
    BY DEF WaitEdgeOf
  <2> QED
    BY <1>3, <2>1, <2>2
<1>5. CASE RideEdge
  <2>1. CASE HopsKnown(outer, inner)
    <3> DEFINE e == RideEdgeOf(outer, inner)
    <3>1. edge_data' = Append(edge_data, e)
      BY <1>5, <2>1 DEF RideEdge
    <3>2. e.weight = e.item.time /\ e.item.kind = "Ride"
      BY DEF RideEdgeOf
    <3> HIDE DEF e
    <3> QED
      BY <1>3, <3>1, <3>2
  <2>2. CASE ~ HopsKnown(outer, inner)
    BY <1>2, <1>5, <2>2 DEF RideEdge
  <2> QED
    BY <2>1, <2>2
<1>6. CASE \E from, to \in Names : RouteSearch(from, to)
  BY <1>2, <1>6 DEF RouteSearch
<1>7. CASE \/ GetVertex \/ VertexesDone \/ WaitEdgesDone \/ TakeBus \/ NextOuter
           \/ TurnRound \/ BusDone \/ BusesDone \/ AddEdge \/ RouterBuilt \/ TakeAnswer
           \/ UNCHANGED vars
  <2>1. edge_data' = edge_data
    BY <1>7 DEF GetVertex, VertexesDone, WaitEdgesDone, TakeBus, NextOuter, TurnRound, BusDone,
       BusesDone, AddEdge, RouterBuilt, TakeAnswer, vars
  <2> QED
    BY <1>2, <2>1
<1> QED
  BY <1>4, <1>5, <1>6, <1>7 DEF Next, Construct

LEMMA AlwaysTimed == Spec => []Timed
<1>1. Init => Timed
  BY DEF Init, Timed
<1>2. GInv /\ Timed /\ [Next]_vars => Timed'
  BY TimedStep
<1> QED
  BY <1>1, <1>2, AlwaysGInv, PTL DEF Spec

-----------------------------------------------------------------------------
(* What is built is what the document asks for.                            *)

(* The length of a way in the document is that of the catalogue.           *)
LEMMA WayLengthIs ==
  ASSUME base \in Documents, ~ HasNull(base), NEW way \in Seq(Names),
         NEW from \in Nat, NEW to \in Nat, 1 <= from, from <= to, to <= Len(way),
         HopsOn(Source, way, from, to)
  PROVE  /\ WayLength(way, from, to) = LengthOn(Source, way, from, to)
         /\ LengthOn(Source, way, from, to) \in Int
<1> DEFINE w == [k \in from + 1 .. to |-> GetDistance(Source, way[k - 1], way[k])]
           Obeys(g) == g = [k \in from .. to |->
                             IF k = from THEN 0
                             ELSE g[k - 1] + RoadLength(base, way[k - 1], way[k])]
           sum == CHOOSE g : Obeys(g)
<1>1. base \in Seq(Request) /\ CatalogueType(Source) /\ RoadsAreMaps(base)
  BY SourceFacts, RouterAssumption
<1>2. \A k \in from + 1 .. to :
        GetDistance(Source, way[k - 1], way[k]) = RoadLength(base, way[k - 1], way[k])
  <2> TAKE k \in from + 1 .. to
  <2>1. k \in 1 .. Len(way) /\ k - 1 \in 1 .. Len(way)
    OBVIOUS
  <2>2. way[k] \in Names /\ way[k - 1] \in Names
    BY <2>1
  <2>3. HasDistance(Source, way[k - 1], way[k])
    BY DEF HopsOn
  <2> QED
    BY <1>1, <2>2, <2>3, DBBuilderKeepsTheRoads DEF Source
<1>3. PICK g \in [from .. to -> Int] :
        Sums(g, from, to, w) /\ LengthOn(Source, way, from, to) = g[to]
  BY <1>1, LengthIsSum
<1>4. \A k \in from + 1 .. to : w[k] = RoadLength(base, way[k - 1], way[k])
  BY <1>2
<1> HIDE DEF w
<1>5. Obeys(g)
  <2>1. \A k \in from .. to : k # from => k \in from + 1 .. to
    OBVIOUS
  <2> QED
    BY <1>3, <1>4, <2>1 DEF Sums
<1>6. Obeys(sum)
  <2> HIDE DEF Obeys
  <2> QED
    BY <1>5
<1>7. WayLength(way, from, to) = sum[to]
  BY DEF WayLength
<1>8. Sums(sum, from, to, w)
  <2> HIDE DEF sum
  <2>1. from \in from .. to /\ \A k \in from + 1 .. to : k \in from .. to /\ k # from
    OBVIOUS
  <2> QED
    BY <1>4, <1>6, <2>1 DEF Sums
<1> HIDE DEF sum
<1>9. to \in from .. to /\ from \in Int /\ to \in Int
  OBVIOUS
<1>10. sum[to] = g[to]
  BY <1>3, <1>8, <1>9, SumsAgree
<1> QED
  BY <1>3, <1>7, <1>9, <1>10

(* A part of a known way is known.                                         *)
LEMMA KnownPart ==
  ASSUME NEW way, Len(way) \in Nat, WayKnown(Source, way), NEW from \in Nat, NEW to \in Nat,
         1 <= from, to <= Len(way)
  PROVE  HopsOn(Source, way, from, to)
<1>1. \A k \in from + 1 .. to : k \in 1 + 1 .. Len(way)
  OBVIOUS
<1> QED
  BY <1>1 DEF WayKnown, HopsOn

(* The ways of a request are those its bus travels.                        *)
LEMMA WaysAreTravels ==
  ASSUME base \in Documents, DeclaredOnce, NEW k \in BusRequests
  PROVE  /\ Ways(base[k]) = Travels(Source, base[k].name)
         /\ Ways(base[k]) \subseteq Seq(Names)
         /\ WayKnown(Source, Stored(Source, base[k].name)) =>
              \A way \in Ways(base[k]) : WayKnown(Source, way)
         /\ WayKnown(Source, base[k].stops) =>
              WayKnown(Source, Stored(Source, base[k].name))
<1> DEFINE stops == base[k].stops
           b == base[k].name
           round == base[k].is_roundtrip
<1>1. /\ stops \in Seq(Names) /\ round \in BOOLEAN /\ Stored(Source, b) = Reverse(stops)
      /\ Chain(Source, b) = ~ round
  BY BusOfRequest
<1>2. Reverse(stops) \in Seq(Names) /\ Reverse(Reverse(stops)) = stops
  BY <1>1, ReverseFacts, ReverseTwice
<1>3. Travels(Source, b) = {Reverse(Stored(Source, b))}
                             \cup (IF Chain(Source, b) THEN {Stored(Source, b)} ELSE {})
  BY DEF Travels
<1>4. Ways(base[k]) = IF round THEN {stops} ELSE {stops, Reverse(stops)}
  BY DEF Ways
<1>5. WayKnown(Source, stops) => WayKnown(Source, Reverse(stops))
  BY <1>1, KnownBackwards
<1>6. WayKnown(Source, Reverse(stops)) => WayKnown(Source, stops)
  BY <1>2, KnownBackwards
<1> HIDE DEF stops, b, round
<1>7. CASE round
  <2>1. Ways(base[k]) = {stops} /\ Travels(Source, b) = {stops}
    BY <1>1, <1>2, <1>3, <1>4, <1>7
  <2> QED
    BY <1>1, <1>5, <1>6, <2>1 DEF stops, b
<1>8. CASE ~ round
  <2>1. Ways(base[k]) = {stops, Reverse(stops)} /\ Travels(Source, b) = {stops, Reverse(stops)}
    BY <1>1, <1>2, <1>3, <1>4, <1>8
  <2> QED
    BY <1>1, <1>2, <1>5, <1>6, <2>1 DEF stops, b
<1> QED
  BY <1>7, <1>8

(* The rides of a request are those of its bus ...                         *)
LEMMA RidesOfRequest ==
  ASSUME base \in Documents, DeclaredOnce, NEW k \in BusRequests,
         WayKnown(Source, Stored(Source, base[k].name))
  PROVE  Rides(base[k]) = RidesOf(Source, base[k].name)
<1> DEFINE b == base[k].name
           Declared(way, p) ==
             [bus |-> b, from |-> way[p[1]], to |-> way[p[2]],
              time |-> SpeedFactor * WayLength(way, p[1], p[2]), span_count |-> p[2] - p[1]]
           DeclaredOn(way) == {Declared(way, p) : p \in Pairs(way)}
<1>1. ~ HasNull(base)
  BY SourceBuses
<1>2. /\ Ways(base[k]) = Travels(Source, b)
      /\ \A way \in Ways(base[k]) : way \in Seq(Names) /\ WayKnown(Source, way)
  BY WaysAreTravels
<1>3. Rides(base[k]) = UNION {DeclaredOn(way) : way \in Ways(base[k])}
  BY DEF Rides, Pairs
<1>4. ASSUME NEW way \in Ways(base[k]), NEW p \in Pairs(way)
      PROVE  Declared(way, p) = RideOn(Source, b, way, p[1], p[2])
  <2>1. way \in Seq(Names) /\ WayKnown(Source, way) /\ Len(way) \in Nat
    BY <1>2
  <2>2. /\ p[1] \in Nat /\ p[2] \in Nat /\ 1 <= p[1] /\ p[1] <= p[2] /\ p[2] <= Len(way)
    BY <2>1 DEF Pairs
  <2>3. HopsOn(Source, way, p[1], p[2])
    BY <2>1, <2>2, KnownPart
  <2> DEFINE length == LengthOn(Source, way, p[1], p[2])
  <2>4. WayLength(way, p[1], p[2]) = length /\ length \in Int
    BY <1>1, <2>1, <2>2, <2>3, WayLengthIs
  <2> HIDE DEF length
  <2>5. SpeedFactor * WayLength(way, p[1], p[2]) = length * SpeedFactor
    BY <2>4, RouterAssumption
  <2> QED
    BY <2>5 DEF RideOn, length
<1>5. \A way \in Ways(base[k]) : DeclaredOn(way) = RidesOn(Source, b, way, Pairs(way))
  <2> TAKE way \in Ways(base[k])
  <2> HIDE DEF Declared
  <2> QED
    BY <1>4 DEF RidesOn
<1> HIDE DEF DeclaredOn
<1>6. Rides(base[k]) = UNION {RidesOn(Source, b, way, Pairs(way)) : way \in Ways(base[k])}
  BY <1>3, <1>5
<1> QED
  BY <1>2, <1>6 DEF RidesOf

(* ... of all requests those of all buses ...                              *)
AllKnown == \A b \in BusNames(Source) : WayKnown(Source, Stored(Source, b))

LEMMA AllRidesAre ==
  ASSUME base \in Documents, DeclaredOnce, AllKnown
  PROVE  AllRides = RidesOfAll(Source, BusNames(Source))
<1>1. BusNames(Source) = {base[k].name : k \in BusRequests}
  BY SourceBuses
<1>2. \A k \in BusRequests : Rides(base[k]) = RidesOf(Source, base[k].name)
  BY <1>1, RidesOfRequest DEF AllKnown
<1>3. AllRides = UNION {RidesOf(Source, base[k].name) : k \in BusRequests}
  BY <1>2 DEF AllRides
<1> QED
  BY <1>1, <1>3 DEF RidesOfAll

(* ... and there are as many.                                              *)
LEMMA RideCountIs ==
  ASSUME base \in Documents
  PROVE  RideCount = CountOf(base, BusNames(Source)) /\ RideCount \in Int
<1> DEFINE N == Len(base)
           names == BusNames(Source)
           v == Counted(base, names)
           Obeys(g) == g = [k \in 0 .. N |->
                             IF k = 0 THEN 0
                             ELSE g[k - 1] + IF k \in BusRequests THEN RidesOffered(base[k]) ELSE 0]
           count == CHOOSE g : Obeys(g)
<1>1. base \in Seq(Request)
  BY SourceFacts
<1>2. N \in Nat /\ N \in Int /\ 0 \in Int /\ N \in 0 .. N /\ 0 + 1 = 1 /\ DOMAIN base = 1 .. N
  BY <1>1, CountedType
<1>3. \A k \in 1 .. N : v[k] = IF k \in BusRequests THEN RidesOffered(base[k]) ELSE 0
  <2> TAKE k \in 1 .. N
  <2>1. k \in BusPlaces(base) /\ base[k].name \in names <=> k \in BusRequests
    <3>1. BusRequests \subseteq BusPlaces(base) /\ names = {base[j].name : j \in BusRequests}
      BY SourceBuses
    <3>2. BusRequests # {} => BusRequests = BusPlaces(base)
      BY SourceBuses
    <3> QED
      BY <3>1, <3>2
  <2> QED
    BY <2>1 DEF Counted
<1>4. PICK g \in [0 .. N -> Int] : Sums(g, 0, N, v) /\ CountOf(base, names) = g[N]
  BY <1>1, CountIsSum
<1>5. RideCount = count[N]
  BY DEF RideCount
<1> HIDE DEF N, v
<1>6. Obeys(g)
  <2>1. \A k \in 0 .. N : k # 0 => k \in 0 + 1 .. N /\ k \in 1 .. N
    BY <1>2
  <2> QED
    BY <1>3, <1>4, <2>1 DEF Sums
<1>7. Obeys(count)
  <2> HIDE DEF Obeys
  <2> QED
    BY <1>6
<1>8. Sums(count, 0, N, v)
  <2> HIDE DEF count
  <2>1. 0 \in 0 .. N /\ \A k \in 0 + 1 .. N : k \in 0 .. N /\ k # 0 /\ k \in 1 .. N
    BY <1>2
  <2> QED
    BY <1>3, <1>7, <2>1 DEF Sums
<1> HIDE DEF count
<1>9. count[N] = g[N]
  BY <1>2, <1>4, <1>8, SumsAgree
<1> QED
  BY <1>2, <1>4, <1>5, <1>9

(* When the graph is built all buses are done.                             *)
LEMMA BuiltFacts ==
  ASSUME CInv, pc \in {"graph", "ready", "domain_error"}
  PROVE  /\ base \in Documents /\ catalogue = Source /\ Finished = BusNames(Source) /\ AllKnown
         /\ WaitsBuilt = StopNames(Source) /\ RidesBuilt = RidesOfAll(Source, BusNames(Source))
         /\ DeclaredOnce => RidesBuilt = AllRides
         /\ DeclaredOnce => Len(edge_data) = Cardinality(StopNames(Source)) + RideCount
<1>1. TypeOK /\ Searched /\ Phases /\ HopsSoFar /\ EdgesSoFar /\ CountSoFar
  BY DEF CInv, GInv, GraphConsistent, Construction
<1>2. base \in Documents /\ catalogue = Source
  BY <1>1 DEF TypeOK, Searched
<1>3. Finished = BusNames(Source) /\ stops_left = {}
  BY <1>1 DEF Finished, Phases
<1>4. AllKnown
  BY <1>1, <1>3 DEF HopsSoFar, AllKnown
<1>5. RidesOfPass = {} /\ CountOfPass = 0
  BY DEF RidesOfPass, CountOfPass
<1>6. /\ WaitsBuilt = StopNames(Source) /\ RidesBuilt = RidesOfAll(Source, BusNames(Source))
  BY <1>1, <1>3, <1>5 DEF EdgesSoFar
<1>7. DeclaredOnce => RidesBuilt = AllRides
  BY <1>2, <1>4, <1>6, AllRidesAre
<1>8. DeclaredOnce => Len(edge_data) = Cardinality(StopNames(Source)) + RideCount
  <2> SUFFICES ASSUME DeclaredOnce
               PROVE  Len(edge_data) = Cardinality(StopNames(Source)) + RideCount
    OBVIOUS
  <2>1. StopNames(Source) \ stops_left = StopNames(Source)
    BY <1>3
  <2>2. Len(edge_data) = Cardinality(StopNames(Source)) + RideCount + 0
    BY <1>1, <1>2, <1>3, <1>5, <2>1, RideCountIs DEF CountSoFar
  <2>3. Cardinality(StopNames(Source)) \in Nat /\ RideCount \in Int
    BY <1>2, SourceFacts, FS_CardinalityType, RideCountIs
  <2> QED
    BY <2>2, <2>3
<1> QED
  BY <1>2, <1>3, <1>4, <1>6, <1>7, <1>8

(* The two kinds of edges.                                                 *)
LEMMA EdgeKinds ==
  ASSUME TypeOK
  PROVE  (DOMAIN edge_data) \ EdgesOfKind("Ride") = EdgesOfKind("Wait")
<1>1. edge_data \in Seq(EdgeData)
  BY DEF TypeOK, EdgeData
<1>2. \A k \in DOMAIN edge_data : edge_data[k] \in EdgeData
  <2> HIDE DEF EdgeData
  <2> QED
    BY <1>1
<1>3. \A k \in DOMAIN edge_data : edge_data[k].item \in Item
  BY <1>2 DEF EdgeData
<1>4. \A k \in DOMAIN edge_data : edge_data[k].item.kind \in {"Wait", "Ride"}
  BY <1>3 DEF Item
<1> QED
  BY <1>4 DEF EdgesOfKind

(* Whatever the base document: the graph has a wait at every stop and, if  *)
(* no bus is declared twice, the rides of the document, no other and none  *)
(* twice over.                                                             *)
THEOREM RidesAreTheDocumentsHolds == Spec => []RidesAreTheDocuments
<1>1. CInv => RidesAreTheDocuments
  <2> SUFFICES ASSUME CInv, pc \in {"graph", "ready", "domain_error"}
               PROVE  RidesAreTheDocuments
    BY DEF RidesAreTheDocuments
  <2> DEFINE rides == {k \in DOMAIN edge_data : edge_data[k].item.kind = "Ride"}
             found == {[bus |-> edge_data[k].item.bus,
                        from |-> StopLeaving(edge_data[k].origin_id),
                        to |-> StopReached(edge_data[k].destination_id),
                        time |-> edge_data[k].weight,
                        span_count |-> edge_data[k].item.span_count] : k \in rides}
             waits == {edge_data[k].item.stop : k \in (DOMAIN edge_data) \ rides}
  <2>1. rides = EdgesOfKind("Ride")
    BY DEF EdgesOfKind
  <2>2. waits = WaitsBuilt
    <3>1. (DOMAIN edge_data) \ rides = EdgesOfKind("Wait")
      BY <2>1, EdgeKinds DEF CInv, GInv, GraphConsistent
    <3> QED
      BY <3>1 DEF WaitsBuilt
  <2>3. found = RidesBuilt
    BY <2>1 DEF RidesBuilt, RideOfEdge
  <2>4. /\ catalogue = Source /\ WaitsBuilt = StopNames(Source)
        /\ DeclaredOnce => RidesBuilt = AllRides
        /\ DeclaredOnce => Len(edge_data) = Cardinality(StopNames(Source)) + RideCount
    BY BuiltFacts
  <2>5. RidesAreTheDocuments <=>
          /\ waits = StopNames(catalogue)
          /\ DeclaredOnce => /\ Len(edge_data) = Cardinality(StopNames(catalogue)) + RideCount
                             /\ AllRides = found
    BY DEF RidesAreTheDocuments
  <2> HIDE DEF waits, found
  <2> QED
    BY <2>2, <2>3, <2>4, <2>5
<1> QED
  BY <1>1, AlwaysCInv, PTL

(* Whatever the base document: the constructor throws exactly for a hop of *)
(* some bus without a road in either direction, and is refused exactly for *)
(* a ride or a wait that takes less than no time.                          *)
THEOREM ConstructorOutcomeHolds == Spec => []ConstructorOutcome
<1>1. CInv /\ Timed => ConstructorOutcome
  <2> SUFFICES ASSUME CInv, Timed, DeclaredOnce PROVE ConstructorOutcome
    BY DEF ConstructorOutcome
  <2> DEFINE hops == UNION {{<<base[k].stops[n - 1], base[k].stops[n]>> :
                               n \in 2 .. Len(base[k].stops)} : k \in BusRequests}
             roads == \A hop \in hops : HasRoad(base, hop[1], hop[2])
             negative == \/ \E ride \in AllRides : ride.time < 0
                         \/ WaitTime < 0 /\ StopNames(catalogue) # {}
  <2>1. ConstructorOutcome <=>
          /\ pc \in {"graph", "ready", "domain_error"} => roads
          /\ pc = "threw" /\ query = NoAnswer => ~ roads
          /\ pc = "ready" => ~ negative
          /\ pc = "domain_error" => negative
    BY DEF ConstructorOutcome
  <2>2. TypeOK /\ EdgesFit /\ HopsSoFar /\ GraphBuilt /\ base \in Documents
    BY DEF CInv, GInv, GraphConsistent, Construction, TypeOK
  <2>3. roads <=> AllKnown
    <3>1. roads <=> \A k \in BusRequests : WayKnown(Source, base[k].stops)
      <4>1. roads <=> \A k \in BusRequests : \A n \in 2 .. Len(base[k].stops) :
                        HasRoad(base, base[k].stops[n - 1], base[k].stops[n])
        <5> DEFINE Hop(k, n) == <<base[k].stops[n - 1], base[k].stops[n]>>
        <5>1. hops = UNION {{Hop(k, n) : n \in 2 .. Len(base[k].stops)} : k \in BusRequests}
          OBVIOUS
        <5>2. \A k, n : Hop(k, n)[1] = base[k].stops[n - 1] /\ Hop(k, n)[2] = base[k].stops[n]
          OBVIOUS
        <5> HIDE DEF Hop, hops
        <5>3. roads <=> \A k \in BusRequests : \A n \in 2 .. Len(base[k].stops) :
                          HasRoad(base, Hop(k, n)[1], Hop(k, n)[2])
          BY <5>1
        <5>4. ASSUME NEW k \in BusRequests, NEW n \in 2 .. Len(base[k].stops)
              PROVE  HasRoad(base, Hop(k, n)[1], Hop(k, n)[2])
                       <=> HasRoad(base, base[k].stops[n - 1], base[k].stops[n])
          BY <5>2
        <5> HIDE DEF roads
        <5> QED
          BY <5>3, <5>4, Zenon
      <4>2. ASSUME NEW k \in BusRequests, NEW n \in 2 .. Len(base[k].stops)
            PROVE  HasRoad(base, base[k].stops[n - 1], base[k].stops[n])
                     <=> HasDistance(Source, base[k].stops[n - 1], base[k].stops[n])
        <5>1. base \in Seq(Request) /\ RoadsAreMaps(base) /\ ~ HasNull(base)
          BY <2>2, SourceBuses, SourceFacts, RouterAssumption
        <5>2. base[k].stops \in Seq(Names)
          BY <2>2, BusOfRequest
        <5>3. n \in 1 .. Len(base[k].stops) /\ n - 1 \in 1 .. Len(base[k].stops)
          BY <5>2
        <5>4. base[k].stops[n] \in Names /\ base[k].stops[n - 1] \in Names
          BY <5>2, <5>3
        <5> QED
          BY <5>1, <5>4, DBBuilderKeepsTheRoads DEF Source
      <4>3. 1 + 1 = 2
        OBVIOUS
      <4> QED
        BY <4>1, <4>2, <4>3 DEF WayKnown, HopsOn
    <3>2. BusNames(Source) = {base[k].name : k \in BusRequests}
      BY <2>2, SourceBuses
    <3>3. ASSUME NEW k \in BusRequests
          PROVE  WayKnown(Source, base[k].stops)
                   <=> WayKnown(Source, Stored(Source, base[k].name))
      <4>1. base[k].stops \in Ways(base[k])
        BY DEF Ways
      <4> QED
        BY <2>2, <4>1, WaysAreTravels
    <3> HIDE DEF roads
    <3> QED
      BY <3>1, <3>2, <3>3 DEF AllKnown
  <2>4. pc \in {"graph", "ready", "domain_error"} => AllKnown
    BY BuiltFacts
  <2>5. pc = "threw" /\ query = NoAnswer => ~ AllKnown
    BY <2>2 DEF HopsSoFar, AllKnown
  <2>6. pc \in {"ready", "domain_error"} => (Search!HasNegative <=> negative)
    <3> SUFFICES ASSUME pc \in {"ready", "domain_error"}
                 PROVE  Search!HasNegative <=> negative
      OBVIOUS
    <3>1. /\ catalogue = Source /\ WaitsBuilt = StopNames(Source) /\ RidesBuilt = AllRides
      BY BuiltFacts
    <3>2. /\ DOMAIN edges = DOMAIN edge_data
          /\ \A k \in DOMAIN edges : edges[k].weight = edge_data[k].weight
      <4>1. Len(edges) = Len(edge_data)
        BY <2>2 DEF GraphBuilt
      <4>2. DOMAIN edges = 1 .. Len(edges) /\ DOMAIN edge_data = 1 .. Len(edge_data)
        BY <2>2 DEF TypeOK
      <4> QED
        BY <2>2, <4>1, <4>2 DEF EdgesFit
    <3>3. Search!HasNegative <=> \E k \in DOMAIN edge_data : edge_data[k].weight < 0
      BY <3>2 DEF Search!HasNegative
    <3>4. DOMAIN edge_data = EdgesOfKind("Wait") \cup EdgesOfKind("Ride")
      BY <2>2, EdgeKinds DEF EdgesOfKind
    <3>5. (\E k \in EdgesOfKind("Wait") : edge_data[k].weight < 0)
            <=> WaitTime < 0 /\ StopNames(catalogue) # {}
      <4>1. \A k \in EdgesOfKind("Wait") : edge_data[k].weight = WaitTime
        BY DEF Timed, EdgesOfKind
      <4>2. EdgesOfKind("Wait") # {} <=> StopNames(catalogue) # {}
        BY <3>1 DEF WaitsBuilt
      <4> QED
        BY <4>1, <4>2
    <3>6. (\E k \in EdgesOfKind("Ride") : edge_data[k].weight < 0)
            <=> \E ride \in AllRides : ride.time < 0
      <4>1. \A k : RideOfEdge(edge_data[k]).time = edge_data[k].weight
        BY DEF RideOfEdge
      <4> QED
        BY <3>1, <4>1 DEF RidesBuilt
    <3> QED
      BY <3>3, <3>4, <3>5, <3>6
  <2>7. /\ pc = "ready" => ~ Search!HasNegative
        /\ pc = "domain_error" => Search!HasNegative
    BY <2>2 DEF GraphBuilt
  <2> HIDE DEF roads, negative
  <2> QED
    BY <2>1, <2>3, <2>4, <2>5, <2>6, <2>7
<1> QED
  BY <1>1, AlwaysCInv, AlwaysTimed, PTL

-----------------------------------------------------------------------------
(* What is found can be travelled.                                         *)

(* The answer to a question about two stops is what the search returned.   *)
Replied(found) ==
  IF found = NoRoute THEN NotFound
  ELSE [time |-> found.weight, items |-> Sections(found.edges)]

Found ==
  answer # NoAnswer =>
    /\ pc = "ready" /\ query # NoAnswer
    /\ IF query.from = query.to THEN answer = NoSections
       ELSE /\ {query.from, query.to} \subseteq DOMAIN stop_data
            /\ \E found \in BuildRoute(OriginVertex(query.from), stop_data[query.to].vertex_in_id) :
                 answer = Replied(found)

(* Walks, their ends, weights and sections depend on the graph alone.      *)
LEMMA SameSearch ==
  ASSUME UNCHANGED <<edges, items, stop_data>>
  PROVE  /\ \A u, v : BuildRoute(u, v)' = BuildRoute(u, v)
         /\ \A found : Replied(found)' = Replied(found)
         /\ \A s : OriginVertex(s)' = OriginVertex(s)
<1>1. \A u : SimpleWalks(u)' = SimpleWalks(u)
  BY DEF SimpleWalks, EdgeEnd, VertexCount
<1>2. \A u, w : EdgeEnd(u, w)' = EdgeEnd(u, w)
  BY DEF EdgeEnd
<1>3. \A w : Search!WalkWeight(w)' = Search!WalkWeight(w)
  BY DEF Search!WalkWeight, Search!EdgeOf
<1>4. \A u, v : BuildRoute(u, v)' = BuildRoute(u, v)
  BY <1>1, <1>2, <1>3 DEF BuildRoute
<1>5. \A found : Replied(found)' = Replied(found)
  BY DEF Replied, Sections, NotFound
<1>6. \A s : OriginVertex(s)' = OriginVertex(s)
  BY DEF OriginVertex
<1> QED
  BY <1>4, <1>5, <1>6

(* What RouteSearch answers with, in each of its cases.                    *)
LEMMA SearchFinds ==
  ASSUME Found, NEW from \in Names, NEW to \in Names, RouteSearch(from, to)
  PROVE  Found'
<1> USE DEF graph_vars, ask_vars, loop_vars
<1>1. /\ pc = "ready" /\ query = NoAnswer /\ query' = [from |-> from, to |-> to]
      /\ UNCHANGED <<stop_data, edges, items>>
  BY DEF RouteSearch
<1>2. query' # NoAnswer /\ query'.from = from /\ query'.to = to
  BY <1>1, RouterAssumption
<1>3. CASE from = to
  <2>1. answer' = NoSections /\ pc' = pc
    BY <1>3 DEF RouteSearch, SameName
  <2>2. NoSections' = NoSections
    BY DEF NoSections
  <2> QED
    BY <1>1, <1>2, <1>3, <2>1, <2>2 DEF Found
<1>4. CASE from # to /\ {from, to} \subseteq DOMAIN stop_data
  <2>1. /\ pc' = pc
        /\ \E found \in BuildRoute(OriginVertex(from), stop_data[to].vertex_in_id) :
             answer' = Replied(found)
    BY <1>4 DEF RouteSearch, SameName, Replied
  <2>2. PICK found \in BuildRoute(OriginVertex(from), stop_data[to].vertex_in_id) :
             answer' = Replied(found)
    BY <2>1
  <2>3. PICK u, v : u = OriginVertex(from) /\ v = stop_data[to].vertex_in_id
    OBVIOUS
  <2>4. u = OriginVertex(query.from)' /\ v = stop_data'[query'.to].vertex_in_id
    BY <1>1, <1>2, <2>3 DEF OriginVertex
  <2>5. found \in BuildRoute(u, v)' /\ answer' = Replied(found)'
    BY <1>1, <2>2, <2>3, SameSearch
  <2>6. BuildRoute(u, v)'
          = BuildRoute(OriginVertex(query.from), stop_data[query.to].vertex_in_id)'
    <3>1. SimpleWalks(u)' = SimpleWalks(OriginVertex(query.from))'
      BY <2>4 DEF SimpleWalks, EdgeEnd
    <3>2. \A w : EdgeEnd(u, w)' = EdgeEnd(OriginVertex(query.from), w)'
      BY <2>4 DEF EdgeEnd
    <3> QED
      BY <2>4, <3>1, <3>2 DEF BuildRoute
  <2> QED
    BY <1>1, <1>2, <1>4, <2>1, <2>5, <2>6 DEF Found
<1>5. CASE from # to /\ ~ {from, to} \subseteq DOMAIN stop_data
  <2>1. answer' = answer
    BY <1>5 DEF RouteSearch, SameName
  <2> QED
    BY <1>1, <2>1 DEF Found
<1> QED
  BY <1>3, <1>4, <1>5

LEMMA FoundStep == Found /\ [Next]_vars => Found'
<1> SUFFICES ASSUME Found, [Next]_vars PROVE Found'
  OBVIOUS
<1> USE DEF graph_vars, ask_vars, loop_vars
<1>1. CASE Construct
  <2>1. pc # "ready" /\ answer' = answer
    BY <1>1 DEF Construct, GetVertex, VertexesDone, WaitEdge, WaitEdgesDone, TakeBus, RideEdge,
       NextOuter, TurnRound, BusDone, BusesDone, AddEdge, RouterBuilt
  <2> QED
    BY <2>1 DEF Found
<1>2. CASE \E from, to \in Names : RouteSearch(from, to)
  BY <1>2, SearchFinds
<1>3. CASE TakeAnswer
  BY <1>3 DEF TakeAnswer, Found
<1>4. CASE UNCHANGED vars
  <2>1. UNCHANGED <<pc, stop_data, edges, items, query, answer>>
    BY <1>4 DEF vars
  <2>2. /\ \A u, v : BuildRoute(u, v)' = BuildRoute(u, v)
        /\ \A found : Replied(found)' = Replied(found)
        /\ OriginVertex(query.from)' = OriginVertex(query.from)
    BY <2>1, SameSearch DEF OriginVertex
  <2>3. BuildRoute(OriginVertex(query.from), stop_data[query.to].vertex_in_id)'
          = BuildRoute(OriginVertex(query.from), stop_data[query.to].vertex_in_id)
    BY <2>1 DEF BuildRoute, SimpleWalks, EdgeEnd, VertexCount, OriginVertex, Search!WalkWeight,
       Search!EdgeOf
  <2> QED
    BY <2>1, <2>2, <2>3 DEF Found, NoSections
<1> QED
  BY <1>1, <1>2, <1>3, <1>4 DEF Next

LEMMA AlwaysFound == Spec => []Found
<1>1. Init => Found
  BY DEF Init, Found
<1>2. Found /\ [Next]_vars => Found'
  BY FoundStep
<1> QED
  BY <1>1, <1>2, PTL DEF Spec

(* Waits lead from where one arrives at a stop to where one leaves it,     *)
(* rides from there to where one arrives.                                  *)
IsWait(e) ==
  /\ e.item.kind = "Wait" /\ e.item.stop \in DOMAIN stop_data
  /\ e.origin_id = stop_data[e.item.stop].vertex_in_id
  /\ e.destination_id = stop_data[e.item.stop].vertex_out_id

IsRide(e) ==
  /\ e.item.kind = "Ride"
  /\ \E s, t \in DOMAIN stop_data : /\ e.origin_id = stop_data[s].vertex_out_id
                                    /\ e.destination_id = stop_data[t].vertex_in_id

(* An edge is one or the other ...                                         *)
LEMMA WaitOrRide ==
  ASSUME TypeOK, EdgesFit, NEW k \in DOMAIN edge_data
  PROVE  IsWait(edge_data[k]) \/ IsRide(edge_data[k])
<1>1. edge_data[k].item.kind \in {"Wait", "Ride"}
  BY EdgeKinds DEF EdgesOfKind
<1> QED
  BY <1>1 DEF EdgesFit, IsWait, IsRide

(* ... and the vertex it leaves tells which.                               *)
LEMMA TakeTurns ==
  ASSUME VerticesDistinct, NEW e, IsWait(e) \/ IsRide(e), NEW s \in DOMAIN stop_data
  PROVE  /\ e.origin_id = stop_data[s].vertex_in_id => IsWait(e) /\ e.item.stop = s
         /\ e.origin_id = stop_data[s].vertex_out_id => IsRide(e)
BY DEF VerticesDistinct, IsWait, IsRide

LEMMA Parity ==
  ASSUME NEW k \in Nat
  PROVE  /\ (k + 1) % 2 = 1 <=> k % 2 # 1
         /\ k % 2 \in {0, 1}
OBVIOUS

EdgeAt(w, k) == edge_data[w[k] + 1]

(* The edges of a walk, as edge_data has them, join on to each other.      *)
LEMMA WalkEdges ==
  ASSUME TypeOK, EdgesFit, NEW u, NEW w \in WalksFrom(u)
  PROVE  /\ w \in Seq(EdgeIds) /\ Len(w) \in Nat /\ DOMAIN w = 1 .. Len(w)
         /\ \A k \in DOMAIN w :
              /\ w[k] + 1 \in DOMAIN edge_data
              /\ Sections(w)[k] = EdgeAt(w, k).item
              /\ edges[w[k] + 1].weight = EdgeAt(w, k).weight
              /\ EdgeAt(w, k).origin_id = IF k = 1 THEN u ELSE EdgeAt(w, k - 1).destination_id
         /\ EdgeEnd(u, w) = IF Len(w) = 0 THEN u ELSE EdgeAt(w, Len(w)).destination_id
<1>1. w \in Seq(EdgeIds) /\ Len(w) \in Nat /\ DOMAIN w = 1 .. Len(w)
  BY DEF WalksFrom
<1>2. /\ DOMAIN edges = 1 .. Len(edges) /\ Len(edges) \in Nat
      /\ DOMAIN edge_data = 1 .. Len(edge_data) /\ Len(edges) <= Len(edge_data)
      /\ \A k \in DOMAIN edges :
           /\ edges[k] = [from |-> edge_data[k].origin_id, to |-> edge_data[k].destination_id,
                          weight |-> edge_data[k].weight]
           /\ items[k] = edge_data[k].item
  BY DEF TypeOK, EdgesFit
<1>3. ASSUME NEW k \in DOMAIN w
      PROVE  w[k] + 1 \in DOMAIN edges /\ w[k] + 1 \in DOMAIN edge_data
  <2>1. w[k] \in 0 .. Len(edges) - 1
    BY <1>1 DEF EdgeIds
  <2>2. Len(edge_data) \in Nat
    BY DEF TypeOK
  <2> QED
    BY <1>2, <2>1, <2>2
<1>4. ASSUME NEW k \in DOMAIN w
      PROVE  /\ edges[w[k] + 1].from = EdgeAt(w, k).origin_id
             /\ edges[w[k] + 1].to = EdgeAt(w, k).destination_id
             /\ edges[w[k] + 1].weight = EdgeAt(w, k).weight
             /\ items[w[k] + 1] = EdgeAt(w, k).item
  BY <1>2, <1>3 DEF EdgeAt
<1>5. ASSUME NEW k \in DOMAIN w
      PROVE  EdgeAt(w, k).origin_id = IF k = 1 THEN u ELSE EdgeAt(w, k - 1).destination_id
  <2>1. edges[w[k] + 1].from = IF k = 1 THEN u ELSE edges[w[k - 1] + 1].to
    BY DEF WalksFrom
  <2>2. k # 1 => k - 1 \in DOMAIN w
    BY <1>1
  <2> QED
    BY <1>4, <2>1, <2>2
<1>6. \A k \in DOMAIN w : Sections(w)[k] = EdgeAt(w, k).item
  BY <1>4 DEF Sections
<1>7. EdgeEnd(u, w) = IF Len(w) = 0 THEN u ELSE EdgeAt(w, Len(w)).destination_id
  <2>1. CASE Len(w) = 0
    <3>1. w = <<>>
      BY <1>1, <2>1
    <3> QED
      BY <2>1, <3>1 DEF EdgeEnd
  <2>2. CASE Len(w) # 0
    <3>1. w # <<>> /\ Len(w) \in DOMAIN w
      BY <1>1, <2>2
    <3> QED
      BY <1>4, <2>2, <3>1 DEF EdgeEnd, Last
  <2> QED
    BY <2>1, <2>2
<1> QED
  BY <1>1, <1>3, <1>4, <1>5, <1>6, <1>7

(* From where one arrives at a stop on, waits and rides take turns.        *)
LEMMA WalkTakesTurns ==
  ASSUME TypeOK, VerticesDistinct, EdgesFit, NEW from \in DOMAIN stop_data,
         NEW w \in WalksFrom(OriginVertex(from))
  PROVE  \A k \in DOMAIN w :
           IF k % 2 = 1 THEN IsWait(EdgeAt(w, k)) ELSE IsRide(EdgeAt(w, k))
<1> DEFINE Turn(k) == IF k % 2 = 1 THEN IsWait(EdgeAt(w, k)) ELSE IsRide(EdgeAt(w, k))
           S == {n \in Nat : n + 1 \in DOMAIN w => Turn(n + 1)}
<1>1. /\ DOMAIN w = 1 .. Len(w) /\ Len(w) \in Nat
      /\ \A k \in DOMAIN w :
           /\ EdgeAt(w, k).origin_id
                = IF k = 1 THEN OriginVertex(from) ELSE EdgeAt(w, k - 1).destination_id
           /\ IsWait(EdgeAt(w, k)) \/ IsRide(EdgeAt(w, k))
  <2>1. \A k \in DOMAIN w : IsWait(EdgeAt(w, k)) \/ IsRide(EdgeAt(w, k))
    BY WalkEdges, WaitOrRide DEF EdgeAt
  <2> QED
    BY <2>1, WalkEdges
<1>2. 0 \in S
  <2>1. ASSUME 1 \in DOMAIN w PROVE Turn(1)
    <3>1. EdgeAt(w, 1).origin_id = stop_data[from].vertex_in_id
      BY <1>1, <2>1 DEF OriginVertex
    <3>2. IsWait(EdgeAt(w, 1))
      BY <1>1, <2>1, <3>1, TakeTurns
    <3>3. 1 % 2 = 1
      OBVIOUS
    <3> QED
      BY <3>2, <3>3
  <2>2. 0 + 1 = 1 /\ 0 \in Nat
    OBVIOUS
  <2> HIDE DEF Turn
  <2> QED
    BY <2>1, <2>2
<1>3. ASSUME NEW n \in S PROVE n + 1 \in S
  <2> DEFINE k == n + 1
             e == EdgeAt(w, k)
             next == EdgeAt(w, k + 1)
  <2> SUFFICES ASSUME k + 1 \in DOMAIN w PROVE Turn(k + 1)
    OBVIOUS
  <2>1. n \in Nat /\ k \in Nat /\ k \in DOMAIN w /\ k + 1 # 1 /\ (k + 1) - 1 = k
    BY <1>1
  <2>2. Turn(k)
    BY <2>1
  <2>3. next.origin_id = e.destination_id /\ (IsWait(next) \/ IsRide(next))
    <3>1. next.origin_id = EdgeAt(w, (k + 1) - 1).destination_id
      BY <1>1, <2>1
    <3> QED
      BY <1>1, <2>1, <3>1
  <2>4. (k + 1) % 2 = 1 <=> k % 2 # 1
    BY <2>1, Parity
  <2>5. CASE k % 2 = 1
    <3>1. IsWait(e)
      BY <2>2, <2>5
    <3> HIDE DEF e, next
    <3>2. IsRide(next)
      BY <2>3, <3>1, TakeTurns DEF IsWait
    <3> QED
      BY <2>4, <2>5, <3>2 DEF next
  <2>6. CASE k % 2 # 1
    <3>1. IsRide(e)
      BY <2>2, <2>6
    <3> HIDE DEF e, next
    <3>2. IsWait(next)
      BY <2>3, <3>1, TakeTurns DEF IsRide
    <3> QED
      BY <2>4, <2>6, <3>2 DEF next
  <2> QED
    BY <2>5, <2>6
<1>4. S = Nat
  <2>1. S \in SUBSET Nat
    OBVIOUS
  <2> HIDE DEF S
  <2> QED
    BY <1>2, <1>3, <2>1, SetInduction
<1> SUFFICES ASSUME NEW k \in DOMAIN w PROVE Turn(k)
  OBVIOUS
<1>5. k - 1 \in Nat /\ (k - 1) + 1 = k
  BY <1>1
<1>6. k - 1 \in S
  BY <1>4, <1>5
<1> HIDE DEF Turn
<1> QED
  BY <1>5, <1>6

(* The time of an answer is the sum of those of its sections.              *)
LEMMA TotalTimeIs ==
  ASSUME TypeOK, EdgesFit, Timed, NEW u, NEW w \in WalksFrom(u)
  PROVE  Search!WalkWeight(w) = TotalTime(Sections(w))
<1> DEFINE N == Len(w)
           s == Sections(w)
           v == [k \in 1 .. N |-> edges[w[k] + 1].weight]
           Obeys(g) == g = [k \in 0 .. Len(s) |-> IF k = 0 THEN 0 ELSE g[k - 1] + s[k].time]
           sum == CHOOSE g : Obeys(g)
<1>1. /\ w \in Seq(EdgeIds) /\ N \in Nat /\ DOMAIN w = 1 .. N
      /\ \A k \in 1 .. N : v[k] = s[k].time
  <2>1. \A k \in DOMAIN w : edges[w[k] + 1].weight = s[k].time
    BY WalkEdges DEF Timed, EdgeAt
  <2>2. w \in Seq(EdgeIds) /\ N \in Nat /\ DOMAIN w = 1 .. N
    BY WalkEdges
  <2> QED
    BY <2>1, <2>2
<1>2. Len(s) = N
  <2>1. s = [k \in 1 .. N |-> items[w[k] + 1]]
    BY <1>1 DEF Sections
  <2> QED
    BY <1>1, <2>1
<1>3. PICK g \in [0 .. N -> Int] : Sums(g, 0, N, v) /\ Search!WalkWeight(w) = g[N]
  BY <1>1, WalkWeightIsSum
<1>4. TotalTime(s) = sum[Len(s)]
  BY DEF TotalTime
<1> HIDE DEF v, s, N
<1>5. N \in Int /\ 0 \in Int /\ N \in 0 .. N
  BY <1>1
<1>6. Obeys(g)
  <2>1. \A k \in 0 .. N : k # 0 => k \in 0 + 1 .. N /\ k \in 1 .. N
    BY <1>1
  <2> QED
    BY <1>1, <1>2, <1>3, <2>1 DEF Sums
<1>7. Obeys(sum)
  <2> HIDE DEF Obeys
  <2> QED
    BY <1>6
<1>8. Sums(sum, 0, N, v)
  <2> HIDE DEF sum
  <2>1. 0 \in 0 .. N /\ \A k \in 0 + 1 .. N : k \in 0 .. N /\ k # 0 /\ k \in 1 .. N
    BY <1>1
  <2> QED
    BY <1>1, <1>2, <1>7, <2>1 DEF Sums
<1> HIDE DEF sum
<1>9. sum[N] = g[N]
  BY <1>3, <1>5, <1>8, SumsAgree
<1> QED
  BY <1>2, <1>3, <1>4, <1>9 DEF s

(* Whatever the base document, if no bus is declared twice: a way that is  *)
(* found is a journey, waits and rides of the document by turns from the   *)
(* one stop to the other, and its time is that of all of them together.    *)
THEOREM AnswerIsJourneyHolds == Spec => []AnswerIsJourney
<1>1. CInv /\ Timed /\ Found => AnswerIsJourney
  <2> SUFFICES ASSUME CInv, Timed, Found, DeclaredOnce,
                      answer \notin {NoAnswer, NotFound, NoSections}
               PROVE  AnswerIsJourney
    BY DEF AnswerIsJourney
  <2>1. TypeOK /\ VerticesDistinct /\ EdgesFit
    BY DEF CInv, GInv, GraphConsistent
  <2>2. pc = "ready" /\ query.from # query.to /\ {query.from, query.to} \subseteq DOMAIN stop_data
    BY DEF Found
  <2>3. PICK from, to, u : /\ from = query.from /\ to = query.to /\ u = OriginVertex(from)
    OBVIOUS
  <2>4. PICK w \in WalksFrom(u) :
          /\ EdgeEnd(u, w) = stop_data[to].vertex_in_id
          /\ answer = [time |-> Search!WalkWeight(w), items |-> Sections(w)]
    <3>1. PICK found \in BuildRoute(u, stop_data[to].vertex_in_id) : answer = Replied(found)
      BY <2>2, <2>3 DEF Found
    <3>2. found # NoRoute /\ answer = [time |-> found.weight, items |-> Sections(found.edges)]
      BY <3>1 DEF Replied
    <3> QED
      BY <2>1, <3>1, <3>2, BuildRouteFacts
  <2>5. from \in DOMAIN stop_data /\ to \in DOMAIN stop_data /\ from # to
    BY <2>2, <2>3
  <2> DEFINE s == Sections(w)
             N == Len(w)
             Stop(k) == IF k > Len(s) THEN query.to ELSE s[k].stop
             E(k) == EdgeAt(w, k)
  <2>6. /\ N \in Nat /\ DOMAIN w = 1 .. N
        /\ \A k \in 1 .. N :
             /\ w[k] + 1 \in DOMAIN edge_data /\ s[k] = E(k).item
             /\ E(k).origin_id = IF k = 1 THEN u ELSE E(k - 1).destination_id
        /\ EdgeEnd(u, w) = IF N = 0 THEN u ELSE E(N).destination_id
    BY <2>1, WalkEdges
  <2>7. \A k \in 1 .. N : IF k % 2 = 1 THEN IsWait(E(k)) ELSE IsRide(E(k))
    BY <2>1, <2>3, <2>5, <2>6, WalkTakesTurns
  <2>8. Len(s) = N /\ DOMAIN s = 1 .. N
    <3>1. s = [k \in 1 .. N |-> items[w[k] + 1]]
      BY <2>6 DEF Sections
    <3> QED
      BY <2>6, <3>1
  <2>9. answer.items = s /\ answer.time = TotalTime(s)
    BY <2>1, <2>4, TotalTimeIs
  <2>10. u = stop_data[from].vertex_in_id
    BY <2>3 DEF OriginVertex
  <2> HIDE DEF s, E, N
  <2>11. N # 0
    <3>1. stop_data[from].vertex_in_id # stop_data[to].vertex_in_id
      BY <2>1, <2>5 DEF VerticesDistinct
    <3> QED
      BY <2>4, <2>6, <2>10, <3>1
  <2>12. N % 2 = 0
    <3>1. N \in 1 .. N
      BY <2>6, <2>11
    <3>2. E(N).destination_id = stop_data[to].vertex_in_id
      BY <2>4, <2>6, <2>11
    <3>3. ~ IsWait(E(N))
      BY <2>1, <2>5, <3>2 DEF VerticesDistinct, IsWait
    <3> QED
      BY <2>6, <2>7, <3>1, <3>3, Parity
  <2>13. \A k \in 1 .. N : s[k].kind = IF k % 2 = 1 THEN "Wait" ELSE "Ride"
    BY <2>6, <2>7 DEF IsWait, IsRide
  <2>14. Stop(1) = from
    <3>1. 1 \in 1 .. N /\ ~ (1 > N)
      BY <2>6, <2>11
    <3>2. 1 % 2 = 1
      OBVIOUS
    <3>3. IsWait(E(1)) /\ E(1).origin_id = stop_data[from].vertex_in_id
      BY <2>6, <2>7, <2>10, <3>1, <3>2
    <3>4. E(1).item.stop = from
      BY <2>1, <2>5, <3>3, TakeTurns
    <3> QED
      BY <2>6, <2>8, <3>1, <3>4
  <2>15. ASSUME NEW k \in 1 .. N, k % 2 = 0
         PROVE  [bus |-> s[k].bus, from |-> Stop(k - 1), to |-> Stop(k + 1),
                 time |-> s[k].time, span_count |-> s[k].span_count] \in AllRides
    <3>1. /\ k # 1 /\ k - 1 \in 1 .. N /\ k - 1 \in Nat /\ (k - 1) + 1 = k /\ k \in Nat
          /\ ~ (k - 1 > N)
      <4>1. k # 1
        BY <2>15
      <4> QED
        BY <2>6, <4>1
    <3>2. IsRide(E(k)) /\ IsWait(E(k - 1))
      BY <2>7, <2>15, <3>1, Parity
    <3>3. E(k).origin_id = stop_data[s[k - 1].stop].vertex_out_id
          /\ s[k - 1].stop \in DOMAIN stop_data
      BY <2>6, <3>1, <3>2 DEF IsWait
    <3>4. StopLeaving(E(k).origin_id) = Stop(k - 1)
      BY <2>1, <2>8, <3>1, <3>3, VertexStops
    <3>5. StopReached(E(k).destination_id) = Stop(k + 1)
      <4>1. CASE k = N
        <5>1. E(k).destination_id = stop_data[to].vertex_in_id
          BY <2>4, <2>6, <2>11, <4>1
        <5>2. k + 1 > N
          BY <2>6, <4>1
        <5> QED
          BY <2>1, <2>3, <2>5, <2>8, <5>1, <5>2, VertexStops
      <4>2. CASE k # N
        <5>1. /\ k + 1 \in 1 .. N /\ k + 1 # 1 /\ (k + 1) - 1 = k /\ ~ (k + 1 > N)
          BY <2>6, <3>1, <4>2
        <5>2. IsWait(E(k + 1))
          BY <2>7, <2>15, <3>1, <5>1, Parity
        <5>3. E(k + 1).origin_id = E(k).destination_id /\ s[k + 1] = E(k + 1).item
          BY <2>6, <5>1
        <5>4. /\ s[k + 1].stop \in DOMAIN stop_data
              /\ E(k).destination_id = stop_data[s[k + 1].stop].vertex_in_id
          BY <5>2, <5>3 DEF IsWait
        <5> QED
          BY <2>1, <2>8, <5>1, <5>4, VertexStops
      <4> QED
        BY <4>1, <4>2
    <3>6. E(k).weight = s[k].time /\ s[k] = E(k).item
      BY <2>6 DEF Timed, E, EdgeAt
    <3>7. RideOfEdge(E(k)) \in AllRides
      <4>1. RidesBuilt = AllRides
        BY <2>2, BuiltFacts
      <4>2. w[k] + 1 \in EdgesOfKind("Ride")
        BY <2>6, <3>2 DEF EdgesOfKind, IsRide, E, EdgeAt
      <4> QED
        BY <4>1, <4>2 DEF RidesBuilt, E, EdgeAt
    <3>8. RideOfEdge(E(k)) = [bus |-> s[k].bus, from |-> Stop(k - 1), to |-> Stop(k + 1),
                              time |-> s[k].time, span_count |-> s[k].span_count]
      BY <3>4, <3>5, <3>6 DEF RideOfEdge
    <3> QED
      BY <3>7, <3>8
  <2>16. AnswerIsJourney <=>
           /\ Len(s) % 2 = 0 /\ Len(s) > 0
           /\ \A k \in DOMAIN s : s[k].kind = IF k % 2 = 1 THEN "Wait" ELSE "Ride"
           /\ Stop(1) = query.from
           /\ \A k \in {n \in DOMAIN s : n % 2 = 0} :
                [bus |-> s[k].bus, from |-> Stop(k - 1), to |-> Stop(k + 1),
                 time |-> s[k].time, span_count |-> s[k].span_count] \in AllRides
           /\ answer.time = TotalTime(s)
    BY <2>9 DEF AnswerIsJourney
  <2>17. Len(s) % 2 = 0 /\ Len(s) > 0
    BY <2>6, <2>8, <2>11, <2>12
  <2> HIDE DEF Stop
  <2> QED
    BY <2>3, <2>8, <2>9, <2>13, <2>14, <2>15, <2>16, <2>17
<1> QED
  BY <1>1, AlwaysCInv, AlwaysTimed, AlwaysFound, PTL

-----------------------------------------------------------------------------
(* No other way is faster.  The search knows the graph and looks at simple *)
(* walks; the times to compare it with come from the document ride by      *)
(* ride, and any ride may follow.  Both have the same least times: a walk  *)
(* that comes back to a vertex can leave the circle out.                   *)

(* One more edge makes a walk longer by its weight.                        *)
LEMMA OneMoreEdgeFacts ==
  ASSUME TypeOK, NEW u, NEW w \in Seq(EdgeIds), NEW id \in EdgeIds
  PROVE  /\ EdgeEnd(u, Append(w, id)) = edges[id + 1].to
         /\ Visited(u, Append(w, id)) = Visited(u, w) \cup {edges[id + 1].to}
         /\ Search!WalkWeight(Append(w, id)) = Search!WalkWeight(w) + edges[id + 1].weight
<1> DEFINE x == Append(w, id)
           N == Len(w)
<1>1. /\ x \in Seq(EdgeIds) /\ N \in Nat /\ Len(x) = N + 1 /\ x # <<>>
      /\ DOMAIN w = 1 .. N /\ DOMAIN x = 1 .. N \cup {N + 1}
      /\ \A k \in 1 .. N : x[k] = w[k]
      /\ x[N + 1] = id
  OBVIOUS
<1> HIDE DEF x, N
<1>2. EdgeEnd(u, x) = edges[id + 1].to
  BY <1>1 DEF EdgeEnd, Last
<1>3. Visited(u, x) = Visited(u, w) \cup {edges[id + 1].to}
  BY <1>1 DEF Visited
<1> DEFINE a == [k \in 1 .. Len(w) |-> edges[w[k] + 1].weight]
           b == [k \in 1 .. Len(x) |-> edges[x[k] + 1].weight]
<1>4. /\ \A k \in 0 + 1 .. N : b[k] = a[k] /\ k \in 0 + 1 .. N + 1
      /\ b[N + 1] = edges[id + 1].weight
      /\ N + 1 \in 0 + 1 .. N + 1 /\ (N + 1) - 1 = N /\ N \in 0 .. N /\ 0 \in Int /\ N \in Int
  BY <1>1 DEF N
<1>5. PICK g \in [0 .. Len(w) -> Int] : Sums(g, 0, Len(w), a) /\ Search!WalkWeight(w) = g[Len(w)]
  BY WalkWeightIsSum
<1>6. PICK h \in [0 .. Len(x) -> Int] : Sums(h, 0, Len(x), b) /\ Search!WalkWeight(x) = h[Len(x)]
  BY <1>1, WalkWeightIsSum
<1> HIDE DEF a, b
<1>7. Sums(h, 0, N, b) /\ h[N + 1] = h[N] + b[N + 1]
  BY <1>1, <1>4, <1>6 DEF Sums
<1>8. Sums(g, 0, N, a)
  BY <1>5 DEF N
<1>9. h[N] = g[N]
  <2>1. \A k \in 0 + 1 .. N : b[k] = a[k]
    BY <1>4
  <2>2. 0 \in Int /\ N \in Int /\ Sums(h, 0, N, b)
    BY <1>4, <1>7
  <2>3. \A k \in 0 .. N : h[k] = g[k]
    BY <1>8, <2>1, <2>2, SumsAgree
  <2> QED
    BY <1>4, <2>3
<1>10. Search!WalkWeight(x) = Search!WalkWeight(w) + edges[id + 1].weight
  BY <1>1, <1>4, <1>5, <1>6, <1>7, <1>9 DEF N
<1> QED
  BY <1>2, <1>3, <1>10 DEF x

LEMMA NoEdges ==
  ASSUME TypeOK, NEW u
  PROVE  EdgeEnd(u, <<>>) = u /\ Visited(u, <<>>) = {u} /\ Search!WalkWeight(<<>>) = 0
<1>1. EdgeEnd(u, <<>>) = u /\ Visited(u, <<>>) = {u}
  BY DEF EdgeEnd, Visited
<1>2. <<>> \in Seq(EdgeIds) /\ Len(<<>>) = 0
  OBVIOUS
<1>3. PICK g \in [0 .. Len(<<>>) -> Int] :
        /\ Sums(g, 0, Len(<<>>), [k \in 1 .. Len(<<>>) |-> edges[<<>>[k] + 1].weight])
        /\ Search!WalkWeight(<<>>) = g[Len(<<>>)]
  BY <1>2, WalkWeightIsSum
<1>4. Search!WalkWeight(<<>>) = 0
  BY <1>2, <1>3 DEF Sums
<1> QED
  BY <1>1, <1>4

(* A walk as it grows.                                                     *)
LEMMA LongerFacts ==
  ASSUME TypeOK, NEW u, NEW g, ByLength(u, g), NEW n \in Nat, NEW s \in g[n + 1]
  PROVE  \E w \in g[n], id \in EdgeIds :
           /\ edges[id + 1].from = EdgeEnd(u, w) /\ edges[id + 1].to \notin Visited(u, w)
           /\ EdgeEnd(u, s) = edges[id + 1].to
           /\ Visited(u, s) = Visited(u, w) \cup {edges[id + 1].to}
           /\ Search!WalkWeight(s) = Search!WalkWeight(w) + edges[id + 1].weight
           /\ Search!WalkWeight(w) \in Int /\ edges[id + 1].weight \in Int
<1>1. PICK w \in g[n] : s \in Longer(u, w)
  BY DEF ByLength
<1>2. w \in Seq(EdgeIds)
  BY DEF ByLength, WalksFrom
<1>3. PICK id \in EdgeIds : /\ s = Append(w, id)
                            /\ edges[id + 1].from = EdgeEnd(u, w)
                            /\ edges[id + 1].to \notin Visited(u, w)
  BY <1>1 DEF Longer
<1>4. edges[id + 1].weight \in Int
  <2> DEFINE Edge == [from : Nat, to : Nat, weight : Int]
  <2>1. edges \in Seq(Edge)
    BY DEF TypeOK
  <2> HIDE DEF Edge
  <2>2. id + 1 \in 1 .. Len(edges)
    BY <2>1 DEF EdgeIds
  <2>3. edges[id + 1] \in Edge
    BY <2>1, <2>2
  <2> QED
    BY <2>3 DEF Edge
<1>5. Search!WalkWeight(w) \in Int
  BY <1>2, WalkWeightType
<1> QED
  BY <1>2, <1>3, <1>4, <1>5, OneMoreEdgeFacts

(* No edge weighs less than nothing: a vertex that a simple walk visits is *)
(* the end of a simple walk that is no longer and weighs no more.          *)
LEMMA WalkToVisited ==
  ASSUME TypeOK, ~ Search!HasNegative, NEW u, NEW g, ByLength(u, g)
  PROVE  \A n \in Nat : \A s \in g[n] : \A x \in Visited(u, s) :
           \E m \in 0 .. n : \E r \in g[m] :
             EdgeEnd(u, r) = x /\ Search!WalkWeight(r) <= Search!WalkWeight(s)
<1> DEFINE Reached(n, s, x) ==
             \E m \in 0 .. n : \E r \in g[m] :
               EdgeEnd(u, r) = x /\ Search!WalkWeight(r) <= Search!WalkWeight(s)
           S == {n \in Nat : \A s \in g[n] : \A x \in Visited(u, s) : Reached(n, s, x)}
<1>1. \A n \in Nat : \A s \in g[n] : Search!WalkWeight(s) \in Int
  BY WalkWeightType DEF ByLength, WalksFrom
<1>2. 0 \in S
  <2>1. \A s \in g[0] : s = <<>>
    BY DEF ByLength
  <2>2. ASSUME NEW s \in g[0], NEW x \in Visited(u, s) PROVE Reached(0, s, x)
    <3>1. EdgeEnd(u, s) = x /\ Search!WalkWeight(s) \in Int /\ 0 \in 0 .. 0
      BY <1>1, <2>1, <2>2, NoEdges
    <3> QED
      BY <3>1
  <2> HIDE DEF Reached
  <2> QED
    BY <2>2
<1>3. ASSUME NEW n \in S PROVE n + 1 \in S
  <2>1. ASSUME NEW s \in g[n + 1], NEW x \in Visited(u, s) PROVE Reached(n + 1, s, x)
    <3>1. PICK w \in g[n], id \in EdgeIds :
            /\ EdgeEnd(u, s) = edges[id + 1].to
            /\ Visited(u, s) = Visited(u, w) \cup {edges[id + 1].to}
            /\ Search!WalkWeight(s) = Search!WalkWeight(w) + edges[id + 1].weight
            /\ Search!WalkWeight(w) \in Int /\ edges[id + 1].weight \in Int
      BY LongerFacts
    <3>2. edges[id + 1].weight >= 0
      <4>1. id + 1 \in DOMAIN edges
        BY DEF EdgeIds, TypeOK
      <4> QED
        BY <3>1, <4>1 DEF Search!HasNegative
    <3>3. CASE x = edges[id + 1].to
      <4>1. EdgeEnd(u, s) = x /\ Search!WalkWeight(s) <= Search!WalkWeight(s) /\ n + 1 \in 0 .. n + 1
        BY <3>1, <3>3
      <4> QED
        BY <4>1
    <3>4. CASE x \in Visited(u, w)
      <4>1. PICK m \in 0 .. n : \E r \in g[m] :
              EdgeEnd(u, r) = x /\ Search!WalkWeight(r) <= Search!WalkWeight(w)
        BY <3>4
      <4>2. PICK r \in g[m] : EdgeEnd(u, r) = x /\ Search!WalkWeight(r) <= Search!WalkWeight(w)
        BY <4>1
      <4>3. Search!WalkWeight(r) \in Int /\ m \in 0 .. n + 1
        BY <1>1
      <4>4. Search!WalkWeight(r) <= Search!WalkWeight(s)
        BY <3>1, <3>2, <4>2, <4>3
      <4> QED
        BY <4>2, <4>3, <4>4
    <3> QED
      BY <2>1, <3>1, <3>3, <3>4
  <2> HIDE DEF Reached
  <2> QED
    BY <2>1
<1>4. S = Nat
  <2>1. S \in SUBSET Nat
    OBVIOUS
  <2> HIDE DEF S
  <2> QED
    BY <1>2, <1>3, <2>1, SetInduction
<1> QED
  BY <1>4

(* A simple walk of n edges visits n + 1 vertices.                         *)
LEMMA VisitedCount ==
  ASSUME TypeOK, NEW u, NEW g, ByLength(u, g), NEW V,
         u \in V, \A id \in EdgeIds : edges[id + 1].to \in V
  PROVE  \A n \in Nat : \A s \in g[n] :
           /\ IsFiniteSet(Visited(u, s)) /\ Cardinality(Visited(u, s)) = n + 1
           /\ Visited(u, s) \subseteq V
<1> DEFINE Counts(n, s) ==
             /\ IsFiniteSet(Visited(u, s)) /\ Cardinality(Visited(u, s)) = n + 1
             /\ Visited(u, s) \subseteq V
           S == {n \in Nat : \A s \in g[n] : Counts(n, s)}
<1>1. 0 \in S
  <2>1. \A s \in g[0] : Visited(u, s) = {u}
    BY NoEdges DEF ByLength
  <2>2. IsFiniteSet({u}) /\ Cardinality({u}) = 0 + 1
    <3>1. \A x : IsFiniteSet({x}) /\ Cardinality({x}) = 1
      BY FS_Singleton
    <3>2. IsFiniteSet({u}) /\ Cardinality({u}) = 1
      BY <3>1
    <3> QED
      BY <3>2
  <2> QED
    BY <2>1, <2>2
<1>2. ASSUME NEW n \in S PROVE n + 1 \in S
  <2>1. ASSUME NEW s \in g[n + 1] PROVE Counts(n + 1, s)
    <3>1. PICK w \in g[n], id \in EdgeIds :
            /\ edges[id + 1].to \notin Visited(u, w)
            /\ Visited(u, s) = Visited(u, w) \cup {edges[id + 1].to}
      BY LongerFacts
    <3>2. Counts(n, w)
      OBVIOUS
    <3>3. /\ IsFiniteSet(Visited(u, s))
          /\ Cardinality(Visited(u, s)) = Cardinality(Visited(u, w)) + 1
      BY <3>1, <3>2, FS_AddElement
    <3>4. (n + 1) + 1 = Cardinality(Visited(u, w)) + 1
      BY <3>2
    <3> QED
      BY <3>1, <3>2, <3>3, <3>4
  <2> HIDE DEF Counts
  <2> QED
    BY <2>1
<1>3. S = Nat
  <2>1. S \in SUBSET Nat
    OBVIOUS
  <2> HIDE DEF S
  <2> QED
    BY <1>1, <1>2, <2>1, SetInduction
<1> QED
  BY <1>3

(* A simple walk and an edge that leads on from its end: a simple walk     *)
(* leads to the same vertex and weighs no more than both.                  *)
LEMMA SimpleWalkOn ==
  ASSUME TypeOK, ~ Search!HasNegative, IsFiniteSet(DOMAIN stop_data),
         NEW u \in VertexIds, \A id \in EdgeIds : edges[id + 1].to \in VertexIds,
         NEW s \in SimpleWalks(u), NEW id \in EdgeIds, edges[id + 1].from = EdgeEnd(u, s)
  PROVE  \E r \in SimpleWalks(u) :
           /\ EdgeEnd(u, r) = edges[id + 1].to
           /\ Search!WalkWeight(r) <= Search!WalkWeight(s) + edges[id + 1].weight
<1> DEFINE x == edges[id + 1].to
<1>1. PICK g : ByLength(u, g) /\ SimpleWalks(u) = UNION {g[n] : n \in 0 .. VertexCount - 1}
  BY SimpleWalksByLength
<1>2. PICK n \in 0 .. VertexCount - 1 : s \in g[n]
  BY <1>1
<1>3. s \in Seq(EdgeIds) /\ n \in Nat
  BY <1>1, <1>2 DEF ByLength, WalksFrom
<1>4. edges[id + 1].weight \in Int /\ edges[id + 1].weight >= 0
  <2> DEFINE Edge == [from : Nat, to : Nat, weight : Int]
  <2>1. edges \in Seq(Edge)
    BY DEF TypeOK
  <2> HIDE DEF Edge
  <2>2. id + 1 \in 1 .. Len(edges)
    BY <2>1 DEF EdgeIds
  <2>3. edges[id + 1] \in Edge /\ id + 1 \in DOMAIN edges
    BY <2>1, <2>2
  <2> QED
    BY <2>3 DEF Edge, Search!HasNegative
<1>5. Search!WalkWeight(s) \in Int
  BY <1>3, WalkWeightType
<1>6. CASE x \in Visited(u, s)
  <2>1. PICK m \in 0 .. n : \E r \in g[m] :
          EdgeEnd(u, r) = x /\ Search!WalkWeight(r) <= Search!WalkWeight(s)
    BY <1>1, <1>2, <1>3, <1>6, WalkToVisited
  <2>2. PICK r \in g[m] : EdgeEnd(u, r) = x /\ Search!WalkWeight(r) <= Search!WalkWeight(s)
    BY <2>1
  <2>3. m \in 0 .. VertexCount - 1 /\ m \in Nat
    <3>1. VertexCount - 1 \in Int
      BY FS_CardinalityType DEF VertexCount
    <3> QED
      BY <1>2, <1>3, <3>1
  <2>4. Search!WalkWeight(r) \in Int
    BY <1>1, <2>2, <2>3, WalkWeightType DEF ByLength, WalksFrom
  <2>5. r \in SimpleWalks(u)
    BY <1>1, <2>2, <2>3
  <2> QED
    BY <1>4, <1>5, <2>2, <2>4, <2>5
<1>7. CASE x \notin Visited(u, s)
  <2> DEFINE N == Cardinality(DOMAIN stop_data)
             r == Append(s, id)
  <2>1. N \in Nat
    BY FS_CardinalityType
  <2>2. VertexCount - 1 = 2 * N /\ VertexIds = 1 .. 2 * N
    BY <2>1 DEF VertexCount, VertexIds
  <2>3. /\ IsFiniteSet(Visited(u, s)) /\ Cardinality(Visited(u, s)) = n + 1
        /\ Visited(u, s) \subseteq VertexIds
    BY <1>1, <1>2, <1>3, VisitedCount
  <2>4. IsFiniteSet(Visited(u, s) \cup {x}) /\ Cardinality(Visited(u, s) \cup {x}) = n + 1 + 1
    BY <1>7, <2>3, FS_AddElement
  <2>5. IsFiniteSet(VertexIds) /\ Cardinality(VertexIds) = 2 * N
    <3>1. 1 \in Int /\ 2 * N \in Int
      BY <2>1
    <3>2. IsFiniteSet(1 .. 2 * N) /\ Cardinality(1 .. 2 * N) = IF 1 > 2 * N THEN 0 ELSE 2 * N - 1 + 1
      BY <3>1, FS_Interval
    <3> QED
      BY <2>1, <2>2, <3>2
  <2>6. Cardinality(Visited(u, s) \cup {x}) <= 2 * N
    <3>1. Visited(u, s) \cup {x} \in SUBSET VertexIds
      BY <2>3
    <3> QED
      BY <2>5, <3>1, FS_Subset
  <2>7. n + 1 \in 0 .. VertexCount - 1
    BY <1>3, <2>1, <2>2, <2>4, <2>6
  <2>8. r \in g[n + 1]
    <3>1. r \in Longer(u, s)
      BY <1>7 DEF Longer
    <3>2. g[n + 1] = UNION {Longer(u, w) : w \in g[n]}
      BY <1>1, <1>3 DEF ByLength
    <3> QED
      BY <1>2, <3>1, <3>2
  <2>9. r \in SimpleWalks(u)
    BY <1>1, <2>7, <2>8
  <2>10. EdgeEnd(u, r) = x /\ Search!WalkWeight(r) = Search!WalkWeight(s) + edges[id + 1].weight
    BY <1>3, OneMoreEdgeFacts
  <2> HIDE DEF r
  <2>11. Search!WalkWeight(r) <= Search!WalkWeight(s) + edges[id + 1].weight
    BY <1>4, <1>5, <2>10
  <2> QED
    BY <2>9, <2>10, <2>11
<1> QED
  BY <1>6, <1>7

(* What is there once questions are answered.                              *)
Served == CInv /\ Timed /\ pc = "ready" /\ DeclaredOnce

Stops == DOMAIN stop_data

Leads(id, u, v, c) ==
  edges[id + 1].from = u /\ edges[id + 1].to = v /\ edges[id + 1].weight = c

(* The edges: a wait at every stop and the rides of the document.          *)
LEMMA ServedFacts ==
  ASSUME Served
  PROVE  /\ TypeOK /\ VerticesDistinct /\ EdgesFit /\ ~ Search!HasNegative
         /\ IsFiniteSet(Stops) /\ Stops = StopNames(catalogue)
         /\ \A id \in EdgeIds :
              /\ id + 1 \in DOMAIN edges /\ id + 1 \in DOMAIN edge_data
              /\ Leads(id, edge_data[id + 1].origin_id, edge_data[id + 1].destination_id,
                       edge_data[id + 1].weight)
              /\ edges[id + 1].weight \in Nat
         /\ \A k \in DOMAIN edge_data : k - 1 \in EdgeIds /\ (k - 1) + 1 = k
<1>1. TypeOK /\ VerticesDistinct /\ EdgesFit /\ GraphBuilt
  BY DEF Served, CInv, GInv, GraphConsistent, Construction
<1>2. ~ Search!HasNegative /\ Len(edges) = Len(edge_data)
  BY <1>1 DEF GraphBuilt, Served
<1>3. IsFiniteSet(Stops) /\ Stops = StopNames(catalogue)
  <2>1. catalogue = Source /\ base \in Documents
    BY BuiltFacts DEF Served
  <2>2. Stops = StopNames(Source)
    BY DEF Served, CInv, GInv, Progress, Stops
  <2> QED
    BY <2>1, <2>2, SourceFacts
<1>4. /\ DOMAIN edges = 1 .. Len(edges) /\ DOMAIN edge_data = 1 .. Len(edges) /\ Len(edges) \in Nat
  BY <1>1, <1>2 DEF TypeOK
<1>5. \A k \in DOMAIN edge_data : k - 1 \in EdgeIds /\ (k - 1) + 1 = k
  BY <1>4 DEF EdgeIds
<1>6. ASSUME NEW id \in EdgeIds
      PROVE  /\ id + 1 \in DOMAIN edges /\ id + 1 \in DOMAIN edge_data
             /\ Leads(id, edge_data[id + 1].origin_id, edge_data[id + 1].destination_id,
                      edge_data[id + 1].weight)
             /\ edges[id + 1].weight \in Nat
  <2>1. id + 1 \in DOMAIN edges /\ id + 1 \in DOMAIN edge_data
    BY <1>4 DEF EdgeIds
  <2>2. Leads(id, edge_data[id + 1].origin_id, edge_data[id + 1].destination_id,
              edge_data[id + 1].weight)
    BY <1>1, <2>1 DEF EdgesFit, Leads
  <2>3. edges[id + 1].weight \in Int
    <3> DEFINE Edge == [from : Nat, to : Nat, weight : Int]
    <3>1. edges \in Seq(Edge)
      BY <1>1 DEF TypeOK
    <3> HIDE DEF Edge
    <3>2. edges[id + 1] \in Edge
      BY <2>1, <3>1
    <3> QED
      BY <3>2 DEF Edge
  <2>4. ~ (edges[id + 1].weight < 0)
    BY <1>2, <2>1 DEF Search!HasNegative
  <2> QED
    BY <2>1, <2>2, <2>3, <2>4
<1> QED
  BY <1>1, <1>2, <1>3, <1>5, <1>6

(* A ride of the document is one between stops of the graph.               *)
LEMMA RideFacts ==
  ASSUME Served, NEW r \in AllRides
  PROVE  /\ r.from \in Stops /\ r.to \in Stops /\ r.time \in Nat
         /\ \E id \in EdgeIds : Leads(id, stop_data[r.from].vertex_out_id,
                                      stop_data[r.to].vertex_in_id, r.time)
<1>1. TypeOK /\ VerticesDistinct /\ EdgesFit
  BY ServedFacts
<1>2. RidesBuilt = AllRides
  BY BuiltFacts DEF Served
<1>3. PICK k \in EdgesOfKind("Ride") : r = RideOfEdge(edge_data[k])
  BY <1>2 DEF RidesBuilt
<1>4. k \in DOMAIN edge_data /\ edge_data[k].item.kind = "Ride"
  BY DEF EdgesOfKind
<1>5. IsRide(edge_data[k])
  BY <1>1, <1>4, WaitOrRide DEF IsWait
<1>6. PICK s \in Stops, t \in Stops :
        /\ edge_data[k].origin_id = stop_data[s].vertex_out_id
        /\ edge_data[k].destination_id = stop_data[t].vertex_in_id
  BY <1>5 DEF IsRide, Stops
<1>7. StopLeaving(stop_data[s].vertex_out_id) = s /\ StopReached(stop_data[t].vertex_in_id) = t
  BY <1>1, VertexStops DEF Stops
<1>8. r.from = s /\ r.to = t /\ r.time = edge_data[k].weight
  BY <1>3, <1>6, <1>7 DEF RideOfEdge
<1>9. k - 1 \in EdgeIds /\ (k - 1) + 1 = k
  BY <1>4, ServedFacts
<1>10. /\ Leads(k - 1, edge_data[k].origin_id, edge_data[k].destination_id, edge_data[k].weight)
       /\ edge_data[k].weight \in Nat
  <2>1. PICK id \in EdgeIds : id = k - 1
    BY <1>9
  <2>2. /\ Leads(id, edge_data[id + 1].origin_id, edge_data[id + 1].destination_id,
                 edge_data[id + 1].weight)
        /\ edges[id + 1].weight \in Nat
    BY ServedFacts
  <2> QED
    BY <1>9, <2>1, <2>2 DEF Leads
<1> QED
  BY <1>6, <1>8, <1>9, <1>10

(* There is a wait at every stop, and it is not negative.                  *)
LEMMA WaitFacts ==
  ASSUME Served, NEW s \in Stops
  PROVE  /\ WaitTime \in Nat
         /\ \E id \in EdgeIds : Leads(id, stop_data[s].vertex_in_id,
                                      stop_data[s].vertex_out_id, WaitTime)
<1>1. TypeOK /\ VerticesDistinct /\ EdgesFit /\ Stops = StopNames(catalogue)
  BY ServedFacts
<1>2. WaitsBuilt = StopNames(Source) /\ catalogue = Source
  BY BuiltFacts DEF Served
<1>3. PICK k \in EdgesOfKind("Wait") : s = edge_data[k].item.stop
  BY <1>1, <1>2 DEF WaitsBuilt
<1>4. k \in DOMAIN edge_data /\ edge_data[k].item.kind = "Wait"
  BY DEF EdgesOfKind
<1>5. IsWait(edge_data[k])
  BY <1>1, <1>4, WaitOrRide DEF IsRide
<1>6. edge_data[k].weight = WaitTime
  BY <1>4 DEF Served, Timed
<1>7. k - 1 \in EdgeIds /\ (k - 1) + 1 = k
  BY <1>4, ServedFacts
<1>8. /\ Leads(k - 1, edge_data[k].origin_id, edge_data[k].destination_id, edge_data[k].weight)
      /\ edge_data[k].weight \in Nat
  <2>1. PICK id \in EdgeIds : id = k - 1
    BY <1>7
  <2>2. /\ Leads(id, edge_data[id + 1].origin_id, edge_data[id + 1].destination_id,
                 edge_data[id + 1].weight)
        /\ edges[id + 1].weight \in Nat
    BY ServedFacts
  <2> QED
    BY <1>7, <2>1, <2>2 DEF Leads
<1> QED
  BY <1>3, <1>5, <1>6, <1>7, <1>8 DEF IsWait

(* An edge is a wait or a ride of the document.                            *)
LEMMA EdgeFacts ==
  ASSUME Served, NEW id \in EdgeIds
  PROVE  /\ edges[id + 1].to \in VertexIds
         /\ \/ \E s \in Stops : Leads(id, stop_data[s].vertex_in_id, stop_data[s].vertex_out_id,
                                      WaitTime)
            \/ \E r \in AllRides : Leads(id, stop_data[r.from].vertex_out_id,
                                         stop_data[r.to].vertex_in_id, r.time)
<1>1. TypeOK /\ VerticesDistinct /\ EdgesFit
  BY ServedFacts
<1>2. id + 1 \in DOMAIN edge_data
  BY ServedFacts
<1> DEFINE e == edge_data[id + 1]
<1>3. Leads(id, e.origin_id, e.destination_id, e.weight)
  BY ServedFacts
<1>4. CASE IsWait(e)
  <2>1. e.weight = WaitTime
    BY <1>2, <1>4 DEF Served, Timed, IsWait
  <2>2. PICK s \in Stops : /\ e.origin_id = stop_data[s].vertex_in_id
                           /\ e.destination_id = stop_data[s].vertex_out_id
    BY <1>4 DEF IsWait, Stops
  <2> HIDE DEF e
  <2>3. edges[id + 1].to \in VertexIds
    BY <1>1, <1>3, <2>2 DEF VerticesDistinct, Leads, Stops
  <2> QED
    BY <1>3, <2>1, <2>2, <2>3
<1>5. CASE IsRide(e)
  <2>1. PICK s \in Stops, t \in Stops : /\ e.origin_id = stop_data[s].vertex_out_id
                                        /\ e.destination_id = stop_data[t].vertex_in_id
    BY <1>5 DEF IsRide, Stops
  <2>2. StopLeaving(e.origin_id) = s /\ StopReached(e.destination_id) = t
    BY <1>1, <2>1, VertexStops DEF Stops
  <2>3. RideOfEdge(e) \in AllRides
    <3>1. RidesBuilt = AllRides
      BY BuiltFacts DEF Served
    <3>2. id + 1 \in EdgesOfKind("Ride")
      BY <1>2, <1>5 DEF IsRide, EdgesOfKind
    <3> QED
      BY <3>1, <3>2 DEF RidesBuilt
  <2>4. RideOfEdge(e).from = s /\ RideOfEdge(e).to = t /\ RideOfEdge(e).time = e.weight
    BY <2>2 DEF RideOfEdge
  <2> HIDE DEF e
  <2>5. edges[id + 1].to \in VertexIds
    BY <1>1, <1>3, <2>1 DEF VerticesDistinct, Leads, Stops
  <2> QED
    BY <1>3, <2>1, <2>3, <2>4, <2>5
<1> QED
  BY <1>1, <1>2, <1>4, <1>5, WaitOrRide

-----------------------------------------------------------------------------
(* The arrivals, ride by ride.                                             *)

OnwardFrom(A) ==
  A \cup {<<p[2].to, p[1][2] + WaitTime + p[2].time>> :
            p \in {q \in A \X AllRides : q[1][1] = q[2].from}}

Earliest(A) == {a \in A : \A b \in A : a[1] = b[1] => a[2] <= b[2]}

ByRides(from, g) ==
  /\ g[0] = {<<from, 0>>}
  /\ \A n \in Nat : g[n + 1] = Earliest(OnwardFrom(g[n])) /\ g[n] \subseteq Stops \X Nat

LEMMA OnwardType ==
  ASSUME Served, NEW A \in SUBSET (Stops \X Nat)
  PROVE  OnwardFrom(A) \subseteq Stops \X Nat
<1>1. ASSUME NEW a \in A, NEW r \in AllRides
      PROVE  <<r.to, a[2] + WaitTime + r.time>> \in Stops \X Nat
  <2>1. r.to \in Stops /\ r.time \in Nat
    BY RideFacts
  <2>2. WaitTime \in Nat
    BY <2>1, WaitFacts
  <2>3. a[2] \in Nat
    OBVIOUS
  <2>4. a[2] + WaitTime + r.time \in Nat
    BY <2>1, <2>2, <2>3
  <2> QED
    BY <2>1, <2>4
<1> QED
  BY <1>1 DEF OnwardFrom

LEMMA ArrivalsByRides ==
  ASSUME Served, NEW from \in Stops
  PROVE  \E g : ByRides(from, g) /\ Arrivals(from) = g[Cardinality(Stops)]
<1> DEFINE Obeys(g) == g = [n \in Nat |-> IF n = 0 THEN {<<from, 0>>}
                                          ELSE Earliest(OnwardFrom(g[n - 1]))]
           arrivals == CHOOSE g : Obeys(g)
           T == SUBSET (Stops \X Nat)
           step == [n \in Nat |-> [A \in T |-> Earliest(OnwardFrom(A))]]
<1>1. Arrivals(from) = arrivals[Cardinality(Stops)]
  <2>1. Stops = StopNames(catalogue)
    BY ServedFacts
  <2> QED
    BY <2>1 DEF Arrivals, Earliest, OnwardFrom
<1>2. \A A \in T : Earliest(OnwardFrom(A)) \in T
  BY OnwardType DEF Earliest
<1>3. {<<from, 0>>} \in T
  OBVIOUS
<1>4. step \in StepsOn(T) /\ \A n \in Nat : \A A \in T : step[n][A] = Earliest(OnwardFrom(A))
  BY <1>2 DEF StepsOn
<1> HIDE DEF step, T
<1>5. PICK g \in [Nat -> T] : Iterates(g, {<<from, 0>>}, step)
  BY <1>3, <1>4, PrimitiveRecursion, Zenon
<1>6. Obeys(g)
  <2>1. ASSUME NEW n \in Nat, n # 0 PROVE g[n] = Earliest(OnwardFrom(g[n - 1]))
    <3>1. n - 1 \in Nat /\ (n - 1) + 1 = n
      BY <2>1
    <3>2. g[(n - 1) + 1] = step[n - 1][g[n - 1]] /\ g[n - 1] \in T
      BY <1>5, <3>1 DEF Iterates
    <3> QED
      BY <1>4, <3>1, <3>2
  <2>2. g[0] = {<<from, 0>>}
    BY <1>5 DEF Iterates
  <2> QED
    BY <2>1, <2>2
<1>7. Obeys(arrivals)
  <2> HIDE DEF Obeys
  <2> QED
    BY <1>6
<1> HIDE DEF arrivals
<1>8. /\ arrivals[0] = {<<from, 0>>}
      /\ \A n \in Nat : arrivals[n + 1] = Earliest(OnwardFrom(arrivals[n]))
  <2>1. \A n \in Nat : n + 1 \in Nat /\ n + 1 # 0 /\ (n + 1) - 1 = n
    OBVIOUS
  <2> QED
    BY <1>7, <2>1
<1> DEFINE S == {n \in Nat : arrivals[n] \in T}
<1>9. 0 \in S
  BY <1>3, <1>8
<1>10. ASSUME NEW n \in S PROVE n + 1 \in S
  BY <1>2, <1>8
<1>11. S = Nat
  <2>1. S \in SUBSET Nat
    OBVIOUS
  <2> HIDE DEF S
  <2> QED
    BY <1>9, <1>10, <2>1, SetInduction
<1>12. \A n \in Nat : arrivals[n] \subseteq Stops \X Nat
  BY <1>11 DEF T
<1>13. ByRides(from, arrivals)
  BY <1>8, <1>12 DEF ByRides
<1> QED
  BY <1>1, <1>13

(* Of all times for a stop there is a least one.                           *)
LEMMA EarliestExists ==
  ASSUME NEW A \in SUBSET (Stops \X Nat), NEW a \in A
  PROVE  \E b \in Earliest(A) : b[1] = a[1] /\ b[2] <= a[2]
<1> DEFINE times == {c[2] : c \in {b \in A : b[1] = a[1]}}
<1>1. times \subseteq Nat /\ a[2] \in times
  OBVIOUS
<1>2. PICK t \in times : \A y \in times : ~ (<<y, t>> \in LessThan)
  BY <1>1, LessThanWF, WFMin
<1>3. t \in Nat /\ \A y \in times : y \in Nat /\ t <= y
  <2> HIDE DEF times
  <2>1. t \in Nat
    BY <1>1
  <2>2. ASSUME NEW y \in times PROVE y \in Nat /\ t <= y
    <3>1. y \in Nat /\ ~ (<<y, t>> \in LessThan)
      BY <1>1, <1>2
    <3>2. ~ (y < t)
      BY <2>1, <3>1 DEF LessThan
    <3> QED
      BY <2>1, <3>1, <3>2
  <2> QED
    BY <2>1, <2>2
<1>4. PICK b \in A : b[1] = a[1] /\ b[2] = t
  OBVIOUS
<1>5. ASSUME NEW c \in A, b[1] = c[1] PROVE b[2] <= c[2]
  <2>1. c[2] \in times
    BY <1>4, <1>5
  <2> QED
    BY <1>3, <1>4, <2>1
<1>6. b \in Earliest(A)
  BY <1>4, <1>5 DEF Earliest
<1> QED
  BY <1>1, <1>3, <1>4, <1>6

(* Another ride makes no arrival later ...                                 *)
LEMMA ArrivalsStay ==
  ASSUME Served, NEW from \in Stops, NEW g, ByRides(from, g), NEW n \in Nat,
         NEW a \in OnwardFrom(g[n])
  PROVE  \E b \in g[n + 1] : b[1] = a[1] /\ b[2] <= a[2]
<1>1. g[n] \in SUBSET (Stops \X Nat) /\ g[n + 1] = Earliest(OnwardFrom(g[n]))
  BY DEF ByRides
<1>2. OnwardFrom(g[n]) \in SUBSET (Stops \X Nat)
  BY <1>1, OnwardType
<1> QED
  BY <1>1, <1>2, EarliestExists

(* ... and so do any number of them.                                       *)
LEMMA ArrivalsStayOn ==
  ASSUME Served, NEW from \in Stops, NEW g, ByRides(from, g), NEW n \in Nat, NEW a \in g[n]
  PROVE  \A d \in Nat : \E b \in g[n + d] : b[1] = a[1] /\ b[2] <= a[2]
<1> DEFINE S == {d \in Nat : \E b \in g[n + d] : b[1] = a[1] /\ b[2] <= a[2]}
<1>1. \A m \in Nat : g[m] \subseteq Stops \X Nat
  BY DEF ByRides
<1>2. 0 \in S
  <2>1. n + 0 = n /\ a[2] \in Nat
    BY <1>1
  <2>2. a[2] <= a[2]
    BY <2>1
  <2> QED
    BY <2>1, <2>2
<1>3. ASSUME NEW d \in S PROVE d + 1 \in S
  <2>1. PICK b \in g[n + d] : b[1] = a[1] /\ b[2] <= a[2]
    OBVIOUS
  <2>2. n + d \in Nat /\ n + (d + 1) = (n + d) + 1
    OBVIOUS
  <2>3. b \in OnwardFrom(g[n + d])
    BY DEF OnwardFrom
  <2>4. PICK c \in g[(n + d) + 1] : c[1] = b[1] /\ c[2] <= b[2]
    BY <2>2, <2>3, ArrivalsStay
  <2>5. c[2] \in Nat /\ b[2] \in Nat /\ a[2] \in Nat
    <3>1. (n + d) + 1 \in Nat
      OBVIOUS
    <3> QED
      BY <1>1, <2>1, <2>2, <2>4, <3>1
  <2>6. c[1] = a[1] /\ c[2] <= a[2]
    BY <2>1, <2>4, <2>5
  <2> QED
    BY <2>2, <2>4, <2>6
<1>4. S = Nat
  <2>1. S \in SUBSET Nat
    OBVIOUS
  <2> HIDE DEF S
  <2> QED
    BY <1>2, <1>3, <2>1, SetInduction
<1> QED
  BY <1>4

(* Each arrival is that of a simple walk which takes no longer.            *)
LEMMA ArrivalsAreWalked ==
  ASSUME Served, NEW from \in Stops, NEW g, ByRides(from, g)
  PROVE  \A n \in Nat : \A a \in g[n] :
           \E w \in SimpleWalks(OriginVertex(from)) :
             /\ EdgeEnd(OriginVertex(from), w) = stop_data[a[1]].vertex_in_id
             /\ Search!WalkWeight(w) <= a[2]
<1> DEFINE u == OriginVertex(from)
           Walked(t, c) == \E w \in SimpleWalks(u) : /\ EdgeEnd(u, w) = stop_data[t].vertex_in_id
                                                     /\ Search!WalkWeight(w) <= c
           S == {n \in Nat : \A a \in g[n] : Walked(a[1], a[2])}
<1>1. /\ TypeOK /\ VerticesDistinct /\ ~ Search!HasNegative /\ IsFiniteSet(DOMAIN stop_data)
      /\ \A id \in EdgeIds : edges[id + 1].to \in VertexIds
  BY ServedFacts, EdgeFacts DEF Stops
<1>2. u = stop_data[from].vertex_in_id /\ u \in VertexIds
  BY <1>1 DEF OriginVertex, VerticesDistinct, Stops
<1>3. \A w \in SimpleWalks(u) : Search!WalkWeight(w) \in Int
  <2> HIDE DEF u
  <2> QED
    BY <1>1, SimpleWalksAreWalks, WalkWeightType DEF WalksFrom
<1>4. \A n \in Nat : g[n] \subseteq Stops \X Nat
  BY DEF ByRides
<1>5. 0 \in S
  <2>1. PICK h : ByLength(u, h) /\ SimpleWalks(u) = UNION {h[n] : n \in 0 .. VertexCount - 1}
    <3> HIDE DEF u
    <3> QED
      BY SimpleWalksByLength
  <2>2. 0 \in 0 .. VertexCount - 1
    BY <1>1, FS_CardinalityType DEF VertexCount
  <2>3. <<>> \in SimpleWalks(u)
    BY <2>1, <2>2 DEF ByLength
  <2>4. EdgeEnd(u, <<>>) = u /\ Search!WalkWeight(<<>>) <= 0
    <3> HIDE DEF u
    <3> QED
      BY <1>1, NoEdges
  <2>5. Walked(from, 0)
    BY <1>2, <2>3, <2>4
  <2>6. \A a \in g[0] : a[1] = from /\ a[2] = 0
    BY DEF ByRides
  <2> HIDE DEF Walked
  <2> QED
    BY <2>5, <2>6
<1>6. ASSUME NEW n \in S PROVE n + 1 \in S
  <2>1. g[n + 1] \subseteq OnwardFrom(g[n])
    BY DEF ByRides, Earliest
  <2>2. ASSUME NEW a \in g[n], NEW r \in AllRides, a[1] = r.from
        PROVE  Walked(r.to, a[2] + WaitTime + r.time)
    <3>1. PICK w \in SimpleWalks(u) : /\ EdgeEnd(u, w) = stop_data[a[1]].vertex_in_id
                                      /\ Search!WalkWeight(w) <= a[2]
      OBVIOUS
    <3> HIDE DEF u
    <3>2. r.from \in Stops /\ r.time \in Nat /\ a[2] \in Nat
      BY <1>4, RideFacts
    <3>3. PICK id \in EdgeIds : Leads(id, stop_data[r.from].vertex_in_id,
                                      stop_data[r.from].vertex_out_id, WaitTime)
      BY <3>2, WaitFacts
    <3>4. PICK x \in SimpleWalks(u) :
            /\ EdgeEnd(u, x) = edges[id + 1].to
            /\ Search!WalkWeight(x) <= Search!WalkWeight(w) + edges[id + 1].weight
      <4>1. edges[id + 1].from = EdgeEnd(u, w)
        BY <2>2, <3>1, <3>3 DEF Leads
      <4> QED
        BY <1>1, <1>2, <4>1, SimpleWalkOn
    <3>5. PICK ride \in EdgeIds : Leads(ride, stop_data[r.from].vertex_out_id,
                                        stop_data[r.to].vertex_in_id, r.time)
      BY RideFacts
    <3>6. PICK y \in SimpleWalks(u) :
            /\ EdgeEnd(u, y) = edges[ride + 1].to
            /\ Search!WalkWeight(y) <= Search!WalkWeight(x) + edges[ride + 1].weight
      <4>1. edges[ride + 1].from = EdgeEnd(u, x)
        BY <3>3, <3>4, <3>5 DEF Leads
      <4> QED
        BY <1>1, <1>2, <4>1, SimpleWalkOn
    <3>7. WaitTime \in Nat
      BY <3>2, WaitFacts
    <3>8. EdgeEnd(u, y) = stop_data[r.to].vertex_in_id
      BY <3>5, <3>6 DEF Leads
    <3>9. Search!WalkWeight(y) <= a[2] + WaitTime + r.time
      <4>1. Search!WalkWeight(x) <= Search!WalkWeight(w) + WaitTime
        BY <3>3, <3>4 DEF Leads
      <4>2. Search!WalkWeight(y) <= Search!WalkWeight(x) + r.time
        BY <3>5, <3>6 DEF Leads
      <4>3. /\ Search!WalkWeight(w) \in Int /\ Search!WalkWeight(x) \in Int
            /\ Search!WalkWeight(y) \in Int
        BY <1>3
      <4> QED
        BY <3>1, <3>2, <3>7, <4>1, <4>2, <4>3
    <3> QED
      BY <3>8, <3>9
  <2>3. \A a \in OnwardFrom(g[n]) : Walked(a[1], a[2])
    <3> HIDE DEF Walked
    <3>1. ASSUME NEW a \in g[n], NEW r \in AllRides, a[1] = r.from,
                 NEW b, b = <<r.to, a[2] + WaitTime + r.time>>
          PROVE  Walked(b[1], b[2])
      BY <2>2, <3>1
    <3>2. \A a \in g[n] : Walked(a[1], a[2])
      OBVIOUS
    <3> QED
      BY <3>1, <3>2 DEF OnwardFrom
  <2> HIDE DEF Walked
  <2> QED
    BY <2>1, <2>3
<1>7. S = Nat
  <2>1. S \in SUBSET Nat
    OBVIOUS
  <2> HIDE DEF S
  <2> QED
    BY <1>5, <1>6, <2>1, SetInduction
<1> QED
  BY <1>7

(* Each simple walk to where one arrives at a stop is no faster than the   *)
(* arrivals of as many rides as it has.                                    *)
LEMMA WalksArrive ==
  ASSUME Served, NEW from \in Stops, NEW g, ByRides(from, g),
         NEW h, ByLength(OriginVertex(from), h)
  PROVE  \A n \in Nat : \A w \in h[n] : \A t \in Stops :
           EdgeEnd(OriginVertex(from), w) = stop_data[t].vertex_in_id =>
             \E j \in Nat : /\ 2 * j = n
                            /\ \E a \in g[j] : a[1] = t /\ a[2] <= Search!WalkWeight(w)
<1> DEFINE u == OriginVertex(from)
           Arrived(n, t, c) == \E j \in Nat : /\ 2 * j = n
                                              /\ \E a \in g[j] : a[1] = t /\ a[2] <= c
           Waited(n, t, c) == \E j \in Nat : /\ 2 * j + 1 = n
                                             /\ \E a \in g[j] : a[1] = t /\ a[2] + WaitTime <= c
           Behaves(n, w) ==
             \A t \in Stops :
               /\ EdgeEnd(u, w) = stop_data[t].vertex_in_id => Arrived(n, t, Search!WalkWeight(w))
               /\ EdgeEnd(u, w) = stop_data[t].vertex_out_id => Waited(n, t, Search!WalkWeight(w))
           S == {n \in Nat : \A w \in h[n] : Behaves(n, w)}
<1>1. TypeOK /\ VerticesDistinct
  BY ServedFacts
<1>2. /\ \A s, t \in Stops : stop_data[s].vertex_in_id # stop_data[t].vertex_out_id
      /\ \A s, t \in Stops : stop_data[s].vertex_in_id = stop_data[t].vertex_in_id => s = t
      /\ \A s, t \in Stops : stop_data[s].vertex_out_id = stop_data[t].vertex_out_id => s = t
  BY <1>1 DEF VerticesDistinct, Stops
<1>3. \A n \in Nat : g[n] \subseteq Stops \X Nat
  BY DEF ByRides
<1>4. u = stop_data[from].vertex_in_id
  BY DEF OriginVertex
<1>5. 0 \in S
  <2>1. h[0] = {<<>>} /\ g[0] = {<<from, 0>>}
    BY DEF ByLength, ByRides
  <2>2. EdgeEnd(u, <<>>) = u /\ Search!WalkWeight(<<>>) = 0
    <3> HIDE DEF u
    <3> QED
      BY <1>1, NoEdges
  <2>3. Arrived(0, from, 0)
    <3>1. 0 \in Nat /\ 2 * 0 = 0
      OBVIOUS
    <3>2. \E a \in g[0] : a[1] = from /\ a[2] <= 0
      BY <2>1
    <3> QED
      BY <3>1, <3>2
  <2> HIDE DEF Arrived, Waited
  <2>4. ASSUME NEW t \in Stops
        PROVE  /\ EdgeEnd(u, <<>>) = stop_data[t].vertex_in_id => Arrived(0, t, Search!WalkWeight(<<>>))
               /\ EdgeEnd(u, <<>>) # stop_data[t].vertex_out_id
    <3> HIDE DEF u
    <3>1. u = stop_data[t].vertex_in_id => t = from
      BY <1>2, <1>4
    <3>2. u # stop_data[t].vertex_out_id
      BY <1>2, <1>4
    <3> QED
      BY <2>2, <2>3, <3>1, <3>2
  <2>5. Behaves(0, <<>>)
    <3> HIDE DEF u
    <3> QED
      BY <2>4
  <2> HIDE DEF Behaves
  <2> QED
    BY <2>1, <2>5
<1>6. ASSUME NEW n \in S PROVE n + 1 \in S
  <2> HIDE DEF u
  <2>1. ASSUME NEW s \in h[n + 1] PROVE Behaves(n + 1, s)
    <3>1. PICK w \in h[n], id \in EdgeIds :
            /\ edges[id + 1].from = EdgeEnd(u, w)
            /\ EdgeEnd(u, s) = edges[id + 1].to
            /\ Search!WalkWeight(s) = Search!WalkWeight(w) + edges[id + 1].weight
            /\ Search!WalkWeight(w) \in Int
      BY <1>1, LongerFacts DEF u
    <3>2. Behaves(n, w)
      OBVIOUS
    <3>3. CASE \E p \in Stops : Leads(id, stop_data[p].vertex_in_id, stop_data[p].vertex_out_id,
                                      WaitTime)
      <4>1. PICK p \in Stops : Leads(id, stop_data[p].vertex_in_id, stop_data[p].vertex_out_id,
                                     WaitTime)
        BY <3>3
      <4>2. /\ EdgeEnd(u, w) = stop_data[p].vertex_in_id /\ EdgeEnd(u, s) = stop_data[p].vertex_out_id
            /\ Search!WalkWeight(s) = Search!WalkWeight(w) + WaitTime
        BY <3>1, <4>1 DEF Leads
      <4>3. Arrived(n, p, Search!WalkWeight(w))
        BY <3>2, <4>2
      <4>4. Waited(n + 1, p, Search!WalkWeight(s))
        <5>1. PICK j \in Nat : /\ 2 * j = n
                               /\ \E a \in g[j] : a[1] = p /\ a[2] <= Search!WalkWeight(w)
          BY <4>3
        <5>2. PICK a \in g[j] : a[1] = p /\ a[2] <= Search!WalkWeight(w)
          BY <5>1
        <5>3. a[2] \in Nat /\ WaitTime \in Nat
          BY <1>3, WaitFacts
        <5>4. a[2] + WaitTime <= Search!WalkWeight(s) /\ 2 * j + 1 = n + 1
          BY <3>1, <4>2, <5>1, <5>2, <5>3
        <5> QED
          BY <5>2, <5>4
      <4> HIDE DEF Arrived, Waited
      <4>5. ASSUME NEW t \in Stops
            PROVE  /\ EdgeEnd(u, s) # stop_data[t].vertex_in_id
                   /\ EdgeEnd(u, s) = stop_data[t].vertex_out_id => t = p
        BY <1>2, <4>2
      <4> QED
        BY <4>4, <4>5
    <3>4. CASE \E r \in AllRides : Leads(id, stop_data[r.from].vertex_out_id,
                                         stop_data[r.to].vertex_in_id, r.time)
      <4>1. PICK r \in AllRides : Leads(id, stop_data[r.from].vertex_out_id,
                                        stop_data[r.to].vertex_in_id, r.time)
        BY <3>4
      <4>2. r.from \in Stops /\ r.to \in Stops /\ r.time \in Nat
        BY RideFacts
      <4>3. /\ EdgeEnd(u, w) = stop_data[r.from].vertex_out_id
            /\ EdgeEnd(u, s) = stop_data[r.to].vertex_in_id
            /\ Search!WalkWeight(s) = Search!WalkWeight(w) + r.time
        BY <3>1, <4>1 DEF Leads
      <4>4. Waited(n, r.from, Search!WalkWeight(w))
        BY <3>2, <4>2, <4>3
      <4>5. Arrived(n + 1, r.to, Search!WalkWeight(s))
        <5>1. PICK j \in Nat : /\ 2 * j + 1 = n
                               /\ \E a \in g[j] : a[1] = r.from
                                                  /\ a[2] + WaitTime <= Search!WalkWeight(w)
          BY <4>4
        <5>2. PICK a \in g[j] : a[1] = r.from /\ a[2] + WaitTime <= Search!WalkWeight(w)
          BY <5>1
        <5>3. PICK b : b = <<r.to, a[2] + WaitTime + r.time>>
          OBVIOUS
        <5>4. b \in OnwardFrom(g[j])
          <6>1. PICK q : q = <<a, r>>
            OBVIOUS
          <6>2. q \in {p \in g[j] \X AllRides : p[1][1] = p[2].from}
            BY <5>2, <6>1
          <6>3. b = <<q[2].to, q[1][2] + WaitTime + q[2].time>>
            BY <5>3, <6>1
          <6> QED
            BY <6>2, <6>3 DEF OnwardFrom
        <5>5. PICK c \in g[j + 1] : c[1] = b[1] /\ c[2] <= b[2]
          BY <5>4, ArrivalsStay
        <5>6. a[2] \in Nat /\ c[2] \in Nat /\ WaitTime \in Nat /\ j + 1 \in Nat
          BY <1>3, <4>2, WaitFacts
        <5>7. c[1] = r.to /\ c[2] <= a[2] + WaitTime + r.time
          BY <5>3, <5>5
        <5>8. c[2] <= Search!WalkWeight(s) /\ 2 * (j + 1) = n + 1
          BY <3>1, <4>2, <4>3, <5>1, <5>2, <5>6, <5>7
        <5> QED
          BY <5>6, <5>7, <5>8
      <4> HIDE DEF Arrived, Waited
      <4>6. ASSUME NEW t \in Stops
            PROVE  /\ EdgeEnd(u, s) # stop_data[t].vertex_out_id
                   /\ EdgeEnd(u, s) = stop_data[t].vertex_in_id => t = r.to
        BY <1>2, <4>2, <4>3
      <4> QED
        BY <4>5, <4>6
    <3> QED
      BY <3>3, <3>4, EdgeFacts
  <2> HIDE DEF Behaves
  <2> QED
    BY <2>1
<1>7. S = Nat
  <2>1. S \in SUBSET Nat
    OBVIOUS
  <2> HIDE DEF S
  <2> QED
    BY <1>5, <1>6, <2>1, SetInduction
<1>8. \A n \in Nat : \A w \in h[n] : Behaves(n, w)
  BY <1>7
<1> QED
  BY <1>8

(* A walk between two stops: no arrival is earlier, and it is not earlier  *)
(* than the first one.                                                     *)
LEMMA FastestWalk ==
  ASSUME Served, NEW from \in Stops, NEW to \in Stops,
         NEW w \in SimpleWalks(OriginVertex(from)),
         EdgeEnd(OriginVertex(from), w) = stop_data[to].vertex_in_id
  PROVE  \E a \in Arrivals(from) : a[1] = to /\ a[2] <= Search!WalkWeight(w)
<1>1. PICK g : ByRides(from, g) /\ Arrivals(from) = g[Cardinality(Stops)]
  BY ArrivalsByRides
<1>2. PICK h : /\ ByLength(OriginVertex(from), h)
               /\ SimpleWalks(OriginVertex(from)) = UNION {h[n] : n \in 0 .. VertexCount - 1}
  BY SimpleWalksByLength
<1>3. PICK n \in 0 .. VertexCount - 1 : w \in h[n]
  BY <1>2
<1>4. Cardinality(Stops) \in Nat /\ VertexCount - 1 = 2 * Cardinality(Stops)
  BY ServedFacts, FS_CardinalityType DEF VertexCount, Stops
<1>5. PICK j \in Nat : /\ 2 * j = n
                       /\ \E a \in g[j] : a[1] = to /\ a[2] <= Search!WalkWeight(w)
  BY <1>1, <1>2, <1>3, WalksArrive
<1>6. PICK a \in g[j] : a[1] = to /\ a[2] <= Search!WalkWeight(w)
  BY <1>5
<1>7. PICK d \in Nat : j + d = Cardinality(Stops)
  <2>1. Cardinality(Stops) - j \in Nat /\ j + (Cardinality(Stops) - j) = Cardinality(Stops)
    BY <1>3, <1>4, <1>5
  <2> QED
    BY <2>1
<1>8. PICK b \in g[j + d] : b[1] = a[1] /\ b[2] <= a[2]
  BY <1>1, ArrivalsStayOn
<1>9. a[2] \in Nat /\ b[2] \in Nat /\ Search!WalkWeight(w) \in Int
  <2>1. \A m \in Nat : g[m] \subseteq Stops \X Nat
    BY <1>1 DEF ByRides
  <2>2. Search!WalkWeight(w) \in Int
    BY ServedFacts, SimpleWalksAreWalks, WalkWeightType DEF WalksFrom
  <2> QED
    BY <1>6, <1>7, <1>8, <2>1, <2>2
<1>10. b \in Arrivals(from) /\ b[1] = to /\ b[2] <= Search!WalkWeight(w)
  BY <1>1, <1>6, <1>7, <1>8, <1>9
<1> QED
  BY <1>10

(* Whatever the base document and the settings, if no bus is declared      *)
(* twice: the time answered is the least in which waits and rides of the   *)
(* document lead from the one stop to the other, and no way is found       *)
(* exactly if there is none.                                               *)
THEOREM AnswerIsFastestHolds == Spec => []AnswerIsFastest
<1>1. CInv /\ Timed /\ Found => AnswerIsFastest
  <2> SUFFICES ASSUME CInv, Timed, Found, pc = "ready", answer # NoAnswer,
                      query.from # query.to, DeclaredOnce
               PROVE  AnswerIsFastest
    BY DEF AnswerIsFastest
  <2>1. Served
    BY DEF Served
  <2>2. PICK from, to, u, v : /\ from = query.from /\ to = query.to /\ u = OriginVertex(from)
                              /\ v = stop_data[to].vertex_in_id
    OBVIOUS
  <2>3. from \in Stops /\ to \in Stops /\ from # to
    BY <2>2 DEF Found, Stops
  <2>4. PICK found \in BuildRoute(u, v) : answer = Replied(found)
    BY <2>2 DEF Found
  <2> DEFINE walks == {w \in SimpleWalks(u) : EdgeEnd(u, w) = v}
             times == {a[2] : a \in {b \in Arrivals(from) : b[1] = to}}
  <2>5. AnswerIsFastest <=> IF times = {} THEN answer = NotFound
                            ELSE answer # NotFound /\ answer.time = Min(times)
    BY <2>2, <2>3 DEF AnswerIsFastest
  <2>6. \A w \in walks : \E t \in times : t <= Search!WalkWeight(w)
    <3> TAKE w \in walks
    <3>1. PICK a \in Arrivals(from) : a[1] = to /\ a[2] <= Search!WalkWeight(w)
      BY <2>1, <2>2, <2>3, FastestWalk
    <3> QED
      BY <3>1
  <2>7. \A t \in times : t \in Nat /\ \E w \in walks : Search!WalkWeight(w) <= t
    <3> TAKE t \in times
    <3>1. PICK a \in Arrivals(from) : a[1] = to /\ a[2] = t
      OBVIOUS
    <3>2. PICK g : ByRides(from, g) /\ Arrivals(from) = g[Cardinality(Stops)]
      BY <2>1, <2>3, ArrivalsByRides
    <3>3. Cardinality(Stops) \in Nat
      BY <2>1, ServedFacts, FS_CardinalityType
    <3>4. a \in Stops \X Nat
      BY <3>1, <3>2, <3>3 DEF ByRides
    <3>5. PICK w \in SimpleWalks(u) : EdgeEnd(u, w) = v /\ Search!WalkWeight(w) <= t
      BY <2>1, <2>2, <2>3, <3>1, <3>2, <3>3, ArrivalsAreWalked
    <3> QED
      BY <3>1, <3>4, <3>5
  <2>8. \A w \in walks : Search!WalkWeight(w) \in Int
    BY <2>1, ServedFacts, SimpleWalksAreWalks, WalkWeightType DEF WalksFrom
  <2>9. CASE walks = {}
    <3>1. found = NoRoute
      BY <2>4, <2>9 DEF BuildRoute
    <3>2. times = {}
      BY <2>7, <2>9
    <3> QED
      BY <2>4, <2>5, <3>1, <3>2 DEF Replied
  <2>10. CASE walks # {}
    <3>1. PICK w \in walks : /\ found = [weight |-> Search!WalkWeight(w), edges |-> w]
                             /\ \A x \in walks : Search!WalkWeight(w) <= Search!WalkWeight(x)
      BY <2>4, <2>10 DEF BuildRoute
    <3> HIDE DEF walks, times
    <3>2. PICK c : c = Search!WalkWeight(w)
      OBVIOUS
    <3>3. c \in Int
      BY <2>8, <3>2
    <3>4. answer = [time |-> c, items |-> Sections(w)]
      <4>1. found # NoRoute
        <5>1. w \in Seq(EdgeIds)
          BY <3>1, SimpleWalksAreWalks DEF walks, WalksFrom
        <5>2. EdgeIds \subseteq Nat
          BY DEF EdgeIds
        <5>3. w \in Seq(Nat)
          <6>1. Len(w) \in Nat /\ w = [k \in 1 .. Len(w) |-> w[k]]
            BY <5>1
          <6>2. ASSUME NEW k \in 1 .. Len(w) PROVE w[k] \in Nat
            <7>1. w[k] \in EdgeIds
              BY <5>1
            <7> QED
              BY <5>2, <7>1
          <6> QED
            BY <6>1, <6>2
        <5> QED
          BY <3>1, <3>2, <3>3, <5>3, RouterAssumption
      <4> QED
        BY <2>4, <3>1, <3>2, <4>1 DEF Replied
    <3>5. \A t \in times : c <= t
      <4> TAKE t \in times
      <4>1. PICK x \in walks : Search!WalkWeight(x) <= t
        BY <2>7
      <4> QED
        BY <2>7, <2>8, <3>1, <3>2, <3>3, <4>1
    <3>6. c \in times
      <4>1. PICK t \in times : t <= c
        BY <2>6, <3>2
      <4>2. t = c
        BY <2>7, <3>3, <3>5, <4>1
      <4> QED
        BY <4>1, <4>2
    <3>7. Min(times) = c
      <4>1. \A t \in times : t \in Nat
        BY <2>7
      <4>2. PICK m : m = Min(times)
        OBVIOUS
      <4>3. m \in times /\ m <= c
        BY <3>5, <3>6, <4>2 DEF Min
      <4>4. m \in Nat /\ c <= m
        BY <3>5, <4>1, <4>3
      <4> QED
        BY <3>3, <4>2, <4>3, <4>4
    <3>8. answer # NotFound
      <4>1. c \in Nat
        BY <2>7, <3>6
      <4> QED
        BY <3>4, <4>1 DEF NotFound
    <3> QED
      BY <2>5, <3>4, <3>6, <3>7, <3>8
  <2> QED
    BY <2>9, <2>10
<1> QED
  BY <1>1, AlwaysCInv, AlwaysTimed, AlwaysFound, PTL
=============================================================================
