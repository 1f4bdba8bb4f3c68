------------------------------- MODULE Router -------------------------------
(***************************************************************************)
(* graph::DirectedWeightedGraph (graph.h) and graph::Router (router.h): a  *)
(* graph is filled with AddEdge, the Router constructor computes an        *)
(* all-pairs table in place (Floyd-Warshall), and BuildRoute reads a route *)
(* back from the table by following prev_edge.                             *)
(*                                                                         *)
(* The program is sequential: `pc` is the point of the code that runs      *)
(* next.  One action is one iteration of a loop of the code.  Vertex ids   *)
(* and edge ids start at 0 as in the code; edge id e is edges[e + 1].      *)
(* Weights are exact integers (the code adds doubles).                     *)
(***************************************************************************)
EXTENDS Integers, Sequences

CONSTANTS
  VertexCount,  (* number of vertices the graph is built with              *)
  Weights,      (* weights an added edge may carry; negative ones included *)
  MaxEdges,     (* bound on the number of AddEdge calls                    *)
  NoRoute,      (* the empty optional of a table entry                     *)
  NoEdge,       (* the empty optional of prev_edge                         *)
  NoAnswer      (* BuildRoute has not returned for the current query       *)

ASSUME RouterAssumption ==
  /\ VertexCount \in Nat \ {0}
  /\ Weights \subseteq Int
  /\ MaxEdges \in Nat
  /\ NoEdge \notin Nat

Vertex == 0 .. VertexCount - 1

Edge == [from : Vertex, to : Vertex, weight : Weights]

(* RouteInternalData: the weight of the best route known and its last edge *)
RouteInternalData == [weight : Nat, prev_edge : Nat \cup {NoEdge}]

(* RouteInfo: what BuildRoute returns *)
RouteInfo == [weight : Nat, edges : Seq(Nat)]

ASSUME NoRouteAssumption ==
  /\ NoRoute \notin RouteInternalData
  /\ NoRoute \notin RouteInfo
  /\ NoAnswer \notin RouteInfo
  /\ NoAnswer # NoRoute

VARIABLES
  edges,                 (* edges_ of the graph                             *)
  incidence_lists,       (* incidence_lists_: edge ids leaving a vertex     *)
  routes_internal_data,  (* the table, one row per origin                   *)
  pc,
  vertex_through,        (* loop variable of the constructor                *)
  vertex_from,           (* row: `vertex' while initialising, then
                            vertex_from of the relaxation                   *)
  vertex_to,             (* column of the relaxation                        *)
  slot,                  (* position in the incidence list of the row       *)
  query,                 (* arguments of the BuildRoute call                *)
  edge_id,               (* loop variable of BuildRoute                     *)
  route,                 (* `edges' of BuildRoute: collected backwards      *)
  answer                 (* what the last BuildRoute returned               *)

graph_vars == <<edges, incidence_lists>>
loop_vars  == <<vertex_through, vertex_from, vertex_to, slot>>
call_vars  == <<query, edge_id, route, answer>>
vars == <<graph_vars, routes_internal_data, pc, loop_vars, call_vars>>

EdgeIds == 0 .. Len(edges) - 1

GetEdge(e) == edges[e + 1]

GetIncidentEdges(v) == incidence_lists[v]

Entry(u, v) == routes_internal_data[u][v]

Known(u, v) == Entry(u, v) # NoRoute

Weight(u, v) == Entry(u, v).weight

(* The assignment routes_internal_data_[u][v] = data.                      *)
Store(u, v, data) ==
  routes_internal_data' = [routes_internal_data EXCEPT ![u][v] = data]

-----------------------------------------------------------------------------
Init ==
  /\ edges = <<>>
  /\ incidence_lists = [v \in Vertex |-> <<>>]
  /\ routes_internal_data = [u \in Vertex |-> [v \in Vertex |-> NoRoute]]
  /\ pc = "graph"
  /\ vertex_through = 0 /\ vertex_from = 0 /\ vertex_to = 0 /\ slot = 1
  /\ query = <<0, 0>> /\ edge_id = NoEdge /\ route = <<>>
  /\ answer = NoAnswer

(* DirectedWeightedGraph::AddEdge for an edge between existing vertices    *)
AddEdge(from, to, weight) ==
  /\ pc = "graph"
  /\ Len(edges) < MaxEdges
  /\ edges' = Append(edges, [from |-> from, to |-> to, weight |-> weight])
  /\ incidence_lists' =
       [incidence_lists EXCEPT ![from] = Append(@, Len(edges') - 1)]
  /\ UNCHANGED <<routes_internal_data, pc, loop_vars, call_vars>>

(* The graph is complete and handed to the constructor of Router.          *)
ConstructRouter ==
  /\ pc = "graph"
  /\ pc' = "init_vertex"
  /\ UNCHANGED <<graph_vars, routes_internal_data, loop_vars, call_vars>>

(* InitializeRoutesInternalData: a vertex reaches itself at no cost        *)
SelfRouteForgotten == NoRoute
SelfRoute == [weight |-> 0, prev_edge |-> NoEdge]

InitVertex ==
  /\ pc = "init_vertex"
  /\ vertex_from < VertexCount
  /\ Store(vertex_from, vertex_from, SelfRoute)
  /\ pc' = "init_edge"
  /\ slot' = 1
  /\ UNCHANGED <<graph_vars, vertex_through, vertex_from, vertex_to, call_vars>>

(* ... and its neighbours by the cheapest of the parallel edges.           *)
KeepsHeavier(entry, weight) == entry = NoRoute \/ entry.weight < weight
ImprovesInit(entry, weight) == entry = NoRoute \/ entry.weight > weight

IsNegative(edge) == edge.weight < 0

InitEdge ==
  /\ pc = "init_edge"
  /\ slot <= Len(GetIncidentEdges(vertex_from))
  /\ LET id   == GetIncidentEdges(vertex_from)[slot]
         edge == GetEdge(id)
     IN  IF IsNegative(edge)
           THEN /\ pc' = "domain_error"
                /\ UNCHANGED <<routes_internal_data, slot>>
           ELSE /\ IF ImprovesInit(Entry(vertex_from, edge.to), edge.weight)
                     THEN Store(vertex_from, edge.to,
                                [weight |-> edge.weight, prev_edge |-> id])
                     ELSE UNCHANGED routes_internal_data
                /\ slot' = slot + 1
                /\ pc' = pc
  /\ UNCHANGED <<graph_vars, vertex_through, vertex_from, vertex_to, call_vars>>

InitNextVertex ==
  /\ pc = "init_edge"
  /\ slot > Len(GetIncidentEdges(vertex_from))
  /\ vertex_from' = vertex_from + 1
  /\ pc' = "init_vertex"
  /\ UNCHANGED <<graph_vars, routes_internal_data, vertex_through, vertex_to,
                 slot, call_vars>>

InitDone ==
  /\ pc = "init_vertex"
  /\ vertex_from = VertexCount
  /\ vertex_from' = 0
  /\ pc' = "relax_from"
  /\ UNCHANGED <<graph_vars, routes_internal_data, vertex_through, vertex_to,
                 slot, call_vars>>

-----------------------------------------------------------------------------
(* RelaxRoutesInternalDataThroughVertex: rows without a route to           *)
(* vertex_through are skipped.                                             *)
RelaxFrom ==
  /\ pc = "relax_from"
  /\ vertex_through < VertexCount
  /\ vertex_from < VertexCount
  /\ IF Known(vertex_from, vertex_through)
       THEN /\ pc' = "relax_to"
            /\ vertex_to' = 0
            /\ UNCHANGED vertex_from
       ELSE /\ vertex_from' = vertex_from + 1
            /\ UNCHANGED <<pc, vertex_to>>
  /\ UNCHANGED <<graph_vars, routes_internal_data, vertex_through, slot,
                 call_vars>>

(* RelaxRoute.  Both arguments are references into the table, so they are  *)
(* read from the table as it is when the pair is reached.                  *)
FirstFoundStays(entry, candidate) == entry = NoRoute
LongerReplaces(entry, candidate) == entry = NoRoute \/ candidate > entry.weight
EqualReplaces(entry, candidate) == entry = NoRoute \/ candidate <= entry.weight
ImprovesRelax(entry, candidate) == entry = NoRoute \/ candidate < entry.weight

FirstLegRelaxed(route_from, route_to) ==
  [weight    |-> route_from.weight + route_to.weight,
   prev_edge |-> IF route_from.prev_edge # NoEdge
                   THEN route_from.prev_edge
                   ELSE route_to.prev_edge]
Relaxed(route_from, route_to) ==
  [weight    |-> route_from.weight + route_to.weight,
   prev_edge |-> IF route_to.prev_edge # NoEdge
                   THEN route_to.prev_edge
                   ELSE route_from.prev_edge]

RelaxTo ==
  /\ pc = "relax_to"
  /\ vertex_to < VertexCount
  /\ LET data == Relaxed(Entry(vertex_from, vertex_through),
                         Entry(vertex_through, vertex_to))
     IN  IF /\ Known(vertex_through, vertex_to)
            /\ ImprovesRelax(Entry(vertex_from, vertex_to), data.weight)
           THEN Store(vertex_from, vertex_to, data)
           ELSE UNCHANGED routes_internal_data
  /\ vertex_to' = vertex_to + 1
  /\ UNCHANGED <<graph_vars, pc, vertex_through, vertex_from, slot, call_vars>>

RelaxNextFrom ==
  /\ pc = "relax_to"
  /\ vertex_to = VertexCount
  /\ vertex_from' = vertex_from + 1
  /\ pc' = "relax_from"
  /\ UNCHANGED <<graph_vars, routes_internal_data, vertex_through, vertex_to,
                 slot, call_vars>>

RelaxNextThrough ==
  /\ pc = "relax_from"
  /\ vertex_through < VertexCount
  /\ vertex_from = VertexCount
  /\ vertex_through' = vertex_through + 1
  /\ vertex_from' = 0
  /\ UNCHANGED <<graph_vars, routes_internal_data, pc, vertex_to, slot,
                 call_vars>>

RelaxDone ==
  /\ pc = "relax_from"
  /\ vertex_through = VertexCount
  /\ pc' = "ready"
  /\ UNCHANGED <<graph_vars, routes_internal_data, loop_vars, call_vars>>

-----------------------------------------------------------------------------
(* A caller asks for a route.                                              *)
CallBuildRoute(from, to) ==
  /\ pc = "ready"
  /\ query' = <<from, to>>
  /\ answer' = NoAnswer
  /\ pc' = "lookup"
  /\ UNCHANGED <<graph_vars, routes_internal_data, loop_vars, edge_id, route>>

(* BuildRoute: std::nullopt when the entry is empty ...                    *)
RouteMissing ==
  /\ pc = "lookup"
  /\ ~ Known(query[1], query[2])
  /\ answer' = NoRoute
  /\ pc' = "ready"
  /\ UNCHANGED <<graph_vars, routes_internal_data, loop_vars, query, edge_id,
                 route>>

(* ... else the chain of prev_edge is followed from the last edge          *)
RouteFound ==
  /\ pc = "lookup"
  /\ Known(query[1], query[2])
  /\ edge_id' = Entry(query[1], query[2]).prev_edge
  /\ route' = <<>>
  /\ pc' = "walk"
  /\ UNCHANGED <<graph_vars, routes_internal_data, loop_vars, query, answer>>

(* One iteration; the loop step dereferences the optional entry of the     *)
(* origin of the edge without a test.                                      *)
WalkBack ==
  /\ pc = "walk"
  /\ edge_id # NoEdge
  /\ route' = Append(route, edge_id)
  /\ LET origin == GetEdge(edge_id).from
     IN  IF Known(query[1], origin)
           THEN /\ edge_id' = Entry(query[1], origin).prev_edge
                /\ pc' = pc
           ELSE /\ pc' = "undefined"
                /\ UNCHANGED edge_id
  /\ UNCHANGED <<graph_vars, routes_internal_data, loop_vars, query, answer>>

(* std::reverse of the collected edges                                     *)
Unreversed(s) == s
Reversed(s) == [i \in 1 .. Len(s) |-> s[Len(s) + 1 - i]]

ReturnRoute ==
  /\ pc = "walk"
  /\ edge_id = NoEdge
  /\ answer' = [weight |-> Weight(query[1], query[2]), edges |-> Reversed(route)]
  /\ route' = <<>>
  /\ pc' = "ready"
  /\ UNCHANGED <<graph_vars, routes_internal_data, loop_vars, query, edge_id>>

Construct ==
  \/ InitVertex \/ InitEdge \/ InitNextVertex \/ InitDone
  \/ RelaxFrom \/ RelaxTo \/ RelaxNextFrom \/ RelaxNextThrough \/ RelaxDone

BuildRoute == RouteMissing \/ RouteFound \/ WalkBack \/ ReturnRoute

Next ==
  \/ \E from, to \in Vertex, weight \in Weights : AddEdge(from, to, weight)
  \/ ConstructRouter
  \/ Construct
  \/ \E from, to \in Vertex : CallBuildRoute(from, to)
  \/ BuildRoute

Spec == Init /\ [][Next]_vars

(* A thread that is in the constructor or in BuildRoute keeps running; the *)
(* callers owe nothing.                                                    *)
FairSpec == Spec /\ WF_vars(Construct) /\ WF_vars(BuildRoute)

-----------------------------------------------------------------------------
(* Properties.                                                             *)

PcValues ==
  {"graph", "init_vertex", "init_edge", "relax_from", "relax_to", "ready",
   "lookup", "walk", "domain_error", "undefined"}

(* Every variable holds a value of its type in the code: loop variables    *)
(* stay inside the table or one past it, and answers are optional routes.  *)
TypeOK ==
  /\ edges \in Seq(Edge)
  /\ incidence_lists \in [Vertex -> Seq(Nat)]
  /\ routes_internal_data \in
       [Vertex -> [Vertex -> RouteInternalData \cup {NoRoute}]]
  /\ pc \in PcValues
  /\ vertex_through \in 0 .. VertexCount
  /\ vertex_from \in 0 .. VertexCount
  /\ vertex_to \in 0 .. VertexCount
  /\ slot \in Nat \ {0}
  /\ query \in Vertex \X Vertex
  /\ edge_id \in Nat \cup {NoEdge}
  /\ route \in Seq(Nat)
  /\ answer \in {NoAnswer, NoRoute} \cup RouteInfo

InInit  == pc \in {"init_vertex", "init_edge"}
InRelax == pc \in {"relax_from", "relax_to"}
Serving == pc \in {"ready", "lookup", "walk", "undefined"}
InTable == InRelax \/ Serving       (* the initialisation is over *)

(* The incidence lists and the edge list tell the same graph: edge id e is *)
(* listed at its origin and nowhere else, as InitializeRoutesInternalData  *)
(* (which sees only incidence lists) and BuildRoute (which sees only       *)
(* edges_) both rely on.                                                   *)
GraphConsistent ==
  /\ \A v \in Vertex : \A i \in 1 .. Len(incidence_lists[v]) :
       /\ incidence_lists[v][i] \in EdgeIds
       /\ GetEdge(incidence_lists[v][i]).from = v
  /\ \A e \in EdgeIds : \E i \in 1 .. Len(incidence_lists[GetEdge(e).from]) :
       incidence_lists[GetEdge(e).from][i] = e

(* A route from u to x of weight c or less is in the table ...             *)
Within(u, x, c) == Known(u, x) /\ Weight(u, x) <= c

(* ... or the pending relaxation through k will put one there.             *)
Covered(u, x, c, k) ==
  \/ Within(u, x, c)
  \/ /\ k < VertexCount
     /\ Known(u, k) /\ Known(k, x)
     /\ Weight(u, k) + Weight(k, x) <= c

(* The vertex whose pass is under way, if any.                             *)
Pass == IF InRelax THEN vertex_through ELSE VertexCount

(* Rows whose diagonal entry is stored; rows all of whose edges are read.  *)
Started(v) ==
  \/ InTable
  \/ InInit /\ v < vertex_from
  \/ pc \in {"init_edge", "domain_error"} /\ v <= vertex_from

SlotRead(v, i) ==
  \/ InTable
  \/ InInit /\ v < vertex_from
  \/ pc = "init_edge" /\ v = vertex_from /\ i < slot

(* An entry lies on the diagonal exactly if it has no last edge, and the   *)
(* diagonal costs nothing: no later step may replace the empty route.      *)
Diagonal ==
  \A u \in Vertex :
    /\ Started(u) => Entry(u, u) = [weight |-> 0, prev_edge |-> NoEdge]
    /\ \A v \in Vertex : Known(u, v) =>
         Started(u) /\ (Entry(u, v).prev_edge = NoEdge <=> u = v)

(* Every edge read so far is no longer than the entry of its end points,   *)
(* whichever of its parallel edges came first.                             *)
EdgeBound ==
  \A v \in Vertex : \A i \in 1 .. Len(incidence_lists[v]) :
    SlotRead(v, i) =>
      LET edge == GetEdge(incidence_lists[v][i])
      IN  edge.weight >= 0 /\ Within(v, edge.to, edge.weight)

(* The last edge of an entry ends where the entry does, and the table has, *)
(* or is about to have, an entry for its origin light enough to explain    *)
(* the weight: what BuildRoute needs of the entry it follows.              *)
PrevSound ==
  \A u, v \in Vertex :
    Known(u, v) /\ u # v =>
      LET id   == Entry(u, v).prev_edge
          edge == GetEdge(id)
      IN  /\ id \in EdgeIds
          /\ edge.to = v
          /\ edge.weight >= 0
          /\ Covered(u, edge.from, Weight(u, v) - edge.weight, Pass)

(* Floyd-Warshall's own invariant, in place: a detour through a vertex     *)
(* already relaxed is never shorter than the entry, or than what the pass  *)
(* under way will store.                                                   *)
ClosedBelow ==
  InTable =>
    \A u, v, m \in Vertex :
      m < vertex_through /\ Known(u, m) /\ Known(m, v) =>
        Covered(u, v, Weight(u, m) + Weight(m, v), vertex_through)

(* Pairs the current pass is done with.                                    *)
Processed(u, v) ==
  InRelax /\ (u < vertex_from \/ (pc = "relax_to" /\ u = vertex_from /\ v < vertex_to))

PassClosed ==
  \A u, v \in Vertex :
    /\ vertex_through < VertexCount
    /\ Processed(u, v)
    /\ Known(u, vertex_through) /\ Known(vertex_through, v)
    => Within(u, v, Weight(u, vertex_through) + Weight(vertex_through, v))

(* The loops are where their guards say, and an inner loop runs only for a *)
(* row that reaches vertex_through.                                        *)
LoopsInRange ==
  /\ pc = "graph" => vertex_from = 0
  /\ pc = "graph" \/ InInit => vertex_through = 0
  /\ pc \in {"init_edge", "relax_to"} => vertex_from < VertexCount
  /\ pc = "relax_to" => /\ vertex_through < VertexCount
                        /\ Known(vertex_from, vertex_through)
  /\ Serving => vertex_through = VertexCount

(* The edges collected so far run without a gap from where the loop stands *)
(* to the destination, and each accounts for the difference of the table's *)
(* weights at its ends.                                                    *)
OnTable(u, e) ==
  /\ e \in EdgeIds
  /\ LET edge == GetEdge(e)
     IN  /\ Known(u, edge.from) /\ Known(u, edge.to)
         /\ Weight(u, edge.to) = Weight(u, edge.from) + edge.weight

WalkPosition ==
  IF route = <<>> THEN query[2] ELSE GetEdge(route[Len(route)]).from

WalkConnected ==
  pc = "walk" =>
    /\ \A i \in 1 .. Len(route) : OnTable(query[1], route[i])
    /\ \A i \in 1 .. Len(route) :
         GetEdge(route[i]).to =
           IF i = 1 THEN query[2] ELSE GetEdge(route[i - 1]).from
    /\ Known(query[1], WalkPosition)
    /\ edge_id = Entry(query[1], WalkPosition).prev_edge

(* The inductive invariant behind the properties that follow.              *)
IInv ==
  /\ TypeOK
  /\ GraphConsistent
  /\ LoopsInRange
  /\ Diagonal
  /\ EdgeBound
  /\ PrevSound
  /\ ClosedBelow
  /\ PassClosed
  /\ WalkConnected

(* What the constructor promises.  Row u starts at 0, no edge leads from   *)
(* one of its entries to a vertex more cheaply than the table does (so no  *)
(* walk does), and every other entry is attained exactly by its last edge. *)
Feasible(u) ==
  \A e \in EdgeIds :
    LET edge == GetEdge(e)
    IN  Known(u, edge.from) =>
          Within(u, edge.to, Weight(u, edge.from) + edge.weight)

Attained(u) ==
  \A v \in Vertex :
    Known(u, v) /\ u # v =>
      LET edge == GetEdge(Entry(u, v).prev_edge)
      IN  /\ edge.to = v
          /\ Known(u, edge.from)
          /\ Weight(u, v) = Weight(u, edge.from) + edge.weight

(* When the constructor is done its table is a table of shortest routes.   *)
TableOptimal ==
  Serving => \A u \in Vertex :
    /\ Entry(u, u) = [weight |-> 0, prev_edge |-> NoEdge]
    /\ Feasible(u)
    /\ Attained(u)

(* BuildRoute never dereferences the empty optional of router.h:108: if    *)
(* the table has a route then it has one to each vertex on the way.        *)
NeverUndefined == pc # "undefined"

(* A route that BuildRoute returns is a walk of the graph from the origin  *)
(* asked for to the destination asked for; its edges account one by one    *)
(* for the weight returned with it, which is the table's.  std::nullopt is *)
(* returned only if the table has no route.                                *)
AnswerIsWalk ==
  LET u == query[1]
      v == query[2]
      s == answer.edges
  IN  /\ answer = NoRoute => ~ Known(u, v)
      /\ answer \notin {NoAnswer, NoRoute} =>
           /\ Known(u, v) /\ answer.weight = Weight(u, v)
           /\ \A i \in 1 .. Len(s) : OnTable(u, s[i])
           /\ \A i \in 1 .. Len(s) :
                GetEdge(s[i]).from = IF i = 1 THEN u ELSE GetEdge(s[i - 1]).to
           /\ v = IF s = <<>> THEN u ELSE GetEdge(s[Len(s)]).to

(* The loop of BuildRoute ends although edges may weigh nothing: it never  *)
(* comes back to a vertex, so it runs less than once per vertex.           *)
WalkIsSimple == pc = "walk" => Len(route) < VertexCount

(* RelaxRoute is handed references into the table it writes.  The entries  *)
(* they refer to, the row and the column of vertex_through, do not change  *)
(* while the loops of this vertex_through run.                             *)
PivotFrozen ==
  [][pc = "relax_to" =>
       \A v \in Vertex :
         /\ routes_internal_data'[v][vertex_through] = Entry(v, vertex_through)
         /\ routes_internal_data'[vertex_through][v] = Entry(vertex_through, v)]_vars

(* Liveness: a search that has begun returns its answer.                   *)
BuildRouteReturns == pc = "lookup" ~> pc = "ready"
=============================================================================
