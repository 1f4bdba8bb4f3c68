---------------------------- MODULE RouterProofs ----------------------------
(***************************************************************************)
(* Proofs about Router.  IInv is inductive; the properties of the table    *)
(* and of the answers of BuildRoute follow from it.  RankInv, inductive    *)
(* next to it, shows that the walk of BuildRoute ends.  Last comes the     *)
(* implementation of ShortestPath.                                         *)
(***************************************************************************)
EXTENDS RouterPromise, FiniteSetTheorems, WellFoundedInduction, TLAPS

-----------------------------------------------------------------------------
(* Induction on the natural numbers and functions defined by recursion on  *)
(* them.  Induction is stated of sets instead of predicates and recursion  *)
(* of functions instead of operators: no lemma has an operator parameter,  *)
(* so each is an instance away from a first-order fact.  (They stand in    *)
(* JSONReaderProofs as well, since neither module can extend the other.)   *)

LessThan == {p \in Nat \X Nat : p[1] < p[2]}

(* Every set of naturals that is not empty has a least element.            *)
LEMMA LessThanWF == IsWellFoundedOn(LessThan, Nat)
BY NatLessThanWellFounded DEF OpToRel, LessThan

(* A set of naturals with 0 and the successor of each of its members holds *)
(* them all.                                                               *)
LEMMA SetInduction ==
  ASSUME NEW S \in SUBSET Nat, 0 \in S, \A n \in S : n + 1 \in S
  PROVE  S = Nat
<1> SUFFICES ASSUME Nat \ S # {} PROVE FALSE
  OBVIOUS
<1>1. PICK x \in Nat \ S : \A y \in Nat \ S : ~ (<<y, x>> \in LessThan)
  BY LessThanWF, WFMin
<1>2. x - 1 \in Nat /\ <<x - 1, x>> \in LessThan
  BY DEF LessThan
<1> QED
  BY <1>1, <1>2

(* The functions that make a value out of a value, one for each step, and  *)
(* what iterating them from a first value yields.                          *)
StepsOn(T) == [Nat -> [T -> T]]

Iterates(g, start, step) ==
  g[0] = start /\ \A n \in Nat : g[n + 1] = step[n][g[n]]

(* A value and a step that makes a value of a value determine a sequence   *)
(* of values: recursive definitions over the naturals define a function.   *)
LEMMA PrimitiveRecursion ==
  ASSUME NEW T, NEW start \in T, NEW step \in StepsOn(T)
  PROVE  \E g \in [Nat -> T] : Iterates(g, start, step)
<1> USE DEF StepsOn
<1> DEFINE Begins(N, h) ==
             /\ h \in [0 .. N -> T] /\ h[0] = start
             /\ \A n \in 0 .. N - 1 : h[n + 1] = step[n][h[n]]
<1>1. \A N \in Nat : \E h : Begins(N, h)
  <2> DEFINE S == {N \in Nat : \E h : Begins(N, h)}
  <2>1. 0 \in S
    <3>1. Begins(0, [n \in 0 .. 0 |-> start])
      OBVIOUS
    <3> QED
      BY <3>1
  <2>2. ASSUME NEW N \in S PROVE N + 1 \in S
    <3>1. PICK h : Begins(N, h)
      OBVIOUS
    <3> DEFINE e == [n \in 0 .. N + 1 |-> IF n = N + 1 THEN step[N][h[N]] ELSE h[n]]
    <3>2. N \in Nat /\ h \in [0 .. N -> T] /\ step[N][h[N]] \in T
      BY <3>1
    <3>3. e \in [0 .. N + 1 -> T] /\ e[0] = start
      BY <3>1, <3>2
    <3>4. ASSUME NEW n \in 0 .. N PROVE e[n + 1] = step[n][e[n]]
      <4>1. CASE n = N
        BY <3>2, <4>1
      <4>2. CASE n # N
        <5>1. n \in 0 .. N - 1 /\ n + 1 \in 0 .. N
          BY <3>2, <4>2
        <5>2. h[n + 1] = step[n][h[n]]
          BY <3>1, <5>1
        <5>3. e[n + 1] = h[n + 1] /\ e[n] = h[n]
          BY <3>2, <5>1
        <5> QED
          BY <5>2, <5>3
      <4> QED
        BY <4>1, <4>2
    <3> HIDE DEF e
    <3>5. Begins(N + 1, e)
      BY <3>2, <3>3, <3>4
    <3> HIDE DEF Begins
    <3> QED
      BY <3>2, <3>5
  <2> HIDE DEF Begins
  <2>3. S = Nat
    <3>1. S \in SUBSET Nat
      OBVIOUS
    <3> HIDE DEF S
    <3> QED
      BY <2>1, <2>2, <3>1, SetInduction
  <2> QED
    BY <2>3
<1>2. ASSUME NEW M \in Nat, NEW N \in Nat, M <= N, NEW h, NEW e,
             Begins(M, h), Begins(N, e)
      PROVE  h[M] = e[M]
  <2> DEFINE S == {n \in Nat : n <= M => h[n] = e[n]}
  <2>1. 0 \in S
    BY <1>2
  <2>2. ASSUME NEW n \in S PROVE n + 1 \in S
    <3> SUFFICES ASSUME n + 1 <= M PROVE h[n + 1] = e[n + 1]
      OBVIOUS
    <3>1. n \in 0 .. M - 1 /\ n \in 0 .. N - 1 /\ h[n] = e[n]
      BY <1>2
    <3> QED
      BY <1>2, <3>1
  <2>3. S = Nat
    <3>1. S \in SUBSET Nat
      OBVIOUS
    <3> HIDE DEF S
    <3> QED
      BY <2>1, <2>2, <3>1, SetInduction
  <2> QED
    BY <2>3
<1> DEFINE At(N) == CHOOSE h : Begins(N, h)
           g     == [n \in Nat |-> At(n)[n]]
<1>3. \A N \in Nat : Begins(N, At(N))
  <2> HIDE DEF Begins
  <2> QED
    BY <1>1
<1> HIDE DEF At
<1>4. \A n \in Nat : At(n)[n] \in T
  BY <1>3
<1>5. g \in [Nat -> T]
  BY <1>4
<1>6. g[0] = start
  BY <1>3
<1>7. ASSUME NEW n \in Nat PROVE g[n + 1] = step[n][g[n]]
  <2>1. Begins(n, At(n)) /\ Begins(n + 1, At(n + 1))
    BY <1>3
  <2>2. At(n + 1)[n + 1] = step[n][At(n + 1)[n]]
    BY <2>1
  <2>3. At(n)[n] = At(n + 1)[n]
    <3> HIDE DEF Begins
    <3> QED
      BY <1>2, <2>1
  <2> QED
    BY <2>2, <2>3
<1> HIDE DEF g
<1> QED
  BY <1>5, <1>6, <1>7 DEF Iterates

(* The same for a sequence of N steps.                                     *)
StepsTo(N, T) == [1 .. N -> [T -> T]]

IteratesTo(N, g, start, step) ==
  g[0] = start /\ \A n \in 1 .. N : g[n] = step[n][g[n - 1]]

(* A value and N steps determine a sequence of values.                     *)
LEMMA IntervalRecursion ==
  ASSUME NEW T, NEW start \in T, NEW N \in Nat, NEW step \in StepsTo(N, T)
  PROVE  \E g \in [0 .. N -> T] : IteratesTo(N, g, start, step)
<1>1. PICK long \in StepsOn(T) : \A n \in 1 .. N : long[n - 1] = step[n]
  <2> DEFINE long == [n \in Nat |-> IF n + 1 \in 1 .. N THEN step[n + 1]
                                                     ELSE [x \in T |-> start]]
  <2>1. long \in StepsOn(T) /\ \A n \in 1 .. N : long[n - 1] = step[n]
    BY DEF StepsOn, StepsTo
  <2> QED
    BY <2>1
<1>2. PICK h \in [Nat -> T] : Iterates(h, start, long)
  BY PrimitiveRecursion
<1> DEFINE g == [n \in 0 .. N |-> h[n]]
<1>3. g \in [0 .. N -> T] /\ g[0] = start
  BY <1>2 DEF Iterates
<1>4. ASSUME NEW n \in 1 .. N PROVE g[n] = step[n][g[n - 1]]
  <2>1. n - 1 \in Nat /\ n - 1 \in 0 .. N /\ (n - 1) + 1 = n
    OBVIOUS
  <2>2. h[(n - 1) + 1] = long[n - 1][h[n - 1]]
    BY <1>2, <2>1 DEF Iterates
  <2> QED
    BY <1>1, <2>1, <2>2
<1> HIDE DEF g
<1> QED
  BY <1>3, <1>4 DEF IteratesTo

-----------------------------------------------------------------------------
(* Router.                                                                 *)

(* The graph and the table are left alone.                                 *)
Untouched == UNCHANGED <<graph_vars, routes_internal_data>>

(* Entries of the table are routes with natural weights.                   *)
LEMMA EntryType ==
  ASSUME TypeOK, NEW u \in Vertex, NEW v \in Vertex, Known(u, v)
  PROVE  /\ Entry(u, v) \in RouteInternalData
         /\ Weight(u, v) \in Nat
         /\ Entry(u, v).prev_edge \in Nat \cup {NoEdge}
BY DEF TypeOK, Known, Entry, Weight, RouteInternalData

(* The same in the next state.                                             *)
LEMMA EntryTypeNext ==
  ASSUME TypeOK', NEW u \in Vertex, NEW v \in Vertex, Known(u, v)'
  PROVE  /\ Weight(u, v)' \in Nat
         /\ Entry(u, v)'.prev_edge \in Nat \cup {NoEdge}
BY DEF TypeOK, Known, Entry, Weight, RouteInternalData

(* What an assignment to one entry does to the others.                     *)
LEMMA StoreEntry ==
  ASSUME TypeOK, NEW u \in Vertex, NEW v \in Vertex, NEW data, Store(u, v, data)
  PROVE  \A a, b \in Vertex :
           Entry(a, b)' = IF a = u /\ b = v THEN data ELSE Entry(a, b)
BY DEF TypeOK, Store, Entry

(* An assignment to one entry keeps the type of the table.                 *)
LEMMA StoreType ==
  ASSUME TypeOK, NEW u \in Vertex, NEW v \in Vertex,
         NEW data \in RouteInternalData, Store(u, v, data)
  PROVE  routes_internal_data' \in
           [Vertex -> [Vertex -> RouteInternalData \cup {NoRoute}]]
BY DEF TypeOK, Store

(* An edge named by an id of the graph.                                    *)
LEMMA EdgeType ==
  ASSUME TypeOK, NEW e \in EdgeIds
  PROVE  /\ GetEdge(e).from \in Vertex
         /\ GetEdge(e).to \in Vertex
         /\ GetEdge(e).weight \in Int
<1>1. edges \in Seq(Edge) /\ e \in 0 .. Len(edges) - 1
  BY DEF TypeOK, EdgeIds
<1>2. e + 1 \in 1 .. Len(edges)
  BY <1>1
<1>3. GetEdge(e) \in Edge
  BY <1>1, <1>2 DEF GetEdge
<1> QED
  BY <1>3, RouterAssumption DEF Edge

-----------------------------------------------------------------------------
(* The initial states.                                                     *)
LEMMA InitInvariant == Init => IInv
<1> SUFFICES ASSUME Init PROVE IInv
  OBVIOUS
<1>1. TypeOK
  BY RouterAssumption DEF Init, TypeOK, Vertex, PcValues
<1>2. \A u, v \in Vertex : ~ Known(u, v)
  BY DEF Init, Known, Entry
<1>3. \A v \in Vertex : Len(incidence_lists[v]) = 0
  BY DEF Init
<1>4. ~ InTable /\ ~ InInit /\ \A v \in Vertex : ~ Started(v)
  BY DEF Init, InTable, InRelax, InInit, Serving, Started
<1>5. GraphConsistent /\ EdgeBound
  BY <1>3, <1>4 DEF Init, GraphConsistent, EdgeBound, EdgeIds
<1>6. Diagonal /\ PrevSound
  BY <1>2, <1>4 DEF Diagonal, PrevSound
<1>7. ClosedBelow /\ PassClosed
  BY <1>4 DEF ClosedBelow, PassClosed, Processed, InTable
<1>8. LoopsInRange /\ WalkConnected
  BY DEF Init, LoopsInRange, WalkConnected, Serving
<1> QED
  BY <1>1, <1>5, <1>6, <1>7, <1>8 DEF IInv

-----------------------------------------------------------------------------
(* What the invariant says of a finished table.                            *)

(* No edge is shorter than the entry of its ends.                          *)
LEMMA EdgeInTable ==
  ASSUME IInv, InTable, NEW e \in EdgeIds
  PROVE  /\ GetEdge(e).weight \in Nat
         /\ Within(GetEdge(e).from, GetEdge(e).to, GetEdge(e).weight)
<1>1. GetEdge(e).from \in Vertex /\ GetEdge(e).weight \in Int
  BY EdgeType DEF IInv
<1>2. PICK i \in 1 .. Len(incidence_lists[GetEdge(e).from]) :
        incidence_lists[GetEdge(e).from][i] = e
  BY DEF IInv, GraphConsistent
<1>3. SlotRead(GetEdge(e).from, i)
  BY DEF SlotRead
<1> QED
  BY <1>1, <1>2, <1>3 DEF IInv, EdgeBound

(* Once every vertex has been relaxed, entries satisfy the triangle        *)
(* inequality.                                                             *)
LEMMA Triangle ==
  ASSUME IInv, Serving, NEW u \in Vertex, NEW m \in Vertex, NEW v \in Vertex,
         Known(u, m), Known(m, v)
  PROVE  Within(u, v, Weight(u, m) + Weight(m, v))
<1>1. vertex_through = VertexCount /\ InTable
  BY DEF IInv, LoopsInRange, InTable
<1>2. m < vertex_through
  BY <1>1, RouterAssumption DEF Vertex
<1>3. Covered(u, v, Weight(u, m) + Weight(m, v), VertexCount)
  BY <1>1, <1>2 DEF IInv, ClosedBelow
<1> QED
  BY <1>3, RouterAssumption DEF Covered

(* What the invariant says of a table in service: a row starts with the    *)
(* empty route, no edge improves it, and each entry is attained by an edge *)
(* of the graph.                                                           *)
LEMMA TableFacts ==
  ASSUME IInv, Serving, NEW u \in Vertex
  PROVE  /\ Entry(u, u) = SelfRoute
         /\ Feasible(u)
         /\ \A v \in Vertex : Known(u, v) /\ u # v =>
              Entry(u, v).prev_edge \in EdgeIds
         /\ Attained(u)
<1>1. TypeOK /\ InTable /\ Pass = VertexCount
  BY DEF IInv, InTable, Serving, Pass, InRelax
<1>2. Entry(u, u) = SelfRoute
  BY <1>1 DEF IInv, Diagonal, Started, SelfRoute
<1>3. ASSUME NEW e \in EdgeIds, Known(u, GetEdge(e).from)
      PROVE  Within(u, GetEdge(e).to, Weight(u, GetEdge(e).from)
                                        + GetEdge(e).weight)
  <2> DEFINE x == GetEdge(e).from
             y == GetEdge(e).to
             w == GetEdge(e).weight
  <2>1. x \in Vertex /\ y \in Vertex /\ w \in Nat /\ Within(x, y, w)
    BY <1>1, EdgeType, EdgeInTable
  <2>2. Within(u, y, Weight(u, x) + Weight(x, y))
    BY <1>3, <2>1, Triangle DEF Within
  <2>3. Weight(x, y) <= w /\ Weight(x, y) \in Nat
    BY <1>1, <2>1, EntryType DEF Within
  <2>4. Weight(u, x) \in Nat /\ Weight(u, y) \in Nat
    BY <1>1, <1>3, <2>1, <2>2, EntryType DEF Within
  <2> HIDE DEF x, y, w
  <2>5. Within(u, y, Weight(u, x) + w)
    BY <2>1, <2>2, <2>3, <2>4 DEF Within
  <2> QED
    BY <2>5 DEF x, y, w
<1>4. ASSUME NEW v \in Vertex, Known(u, v), u # v
      PROVE  LET id   == Entry(u, v).prev_edge
                 edge == GetEdge(id)
             IN  /\ id \in EdgeIds
                 /\ edge.to = v
                 /\ Known(u, edge.from)
                 /\ Weight(u, v) = Weight(u, edge.from) + edge.weight
  <2> DEFINE id == Entry(u, v).prev_edge
             x  == GetEdge(id).from
             w  == GetEdge(id).weight
  <2>1. /\ id \in EdgeIds /\ GetEdge(id).to = v
        /\ Covered(u, x, Weight(u, v) - w, VertexCount)
    BY <1>1, <1>4 DEF IInv, PrevSound
  <2>2. Within(u, x, Weight(u, v) - w)
    BY <2>1, RouterAssumption DEF Covered
  <2>3. Within(u, v, Weight(u, x) + w)
    BY <1>3, <2>1, <2>2 DEF Within
  <2>4. x \in Vertex /\ w \in Int
    BY <1>1, <2>1, EdgeType
  <2>5. Weight(u, x) \in Nat /\ Weight(u, v) \in Nat
    BY <1>1, <1>4, <2>2, <2>4, EntryType DEF Within
  <2> HIDE DEF id, x, w
  <2>6. Weight(u, v) = Weight(u, x) + w
    BY <2>2, <2>3, <2>4, <2>5 DEF Within
  <2> QED
    BY <2>1, <2>2, <2>6 DEF Within, id, x, w
<1> QED
  BY <1>2, <1>3, <1>4 DEF Feasible, Attained

-----------------------------------------------------------------------------
(* Steps that leave the graph and the table alone.  What is left to show   *)
(* of them is that the loop variables still tell the truth.                *)
LEMMA QuietStep ==
  ASSUME IInv, Untouched, TypeOK', LoopsInRange', WalkConnected', PassClosed',
         \A v \in Vertex : Started(v)' <=> Started(v),
         \A v \in Vertex : \A i \in 1 .. Len(incidence_lists[v]) :
           SlotRead(v, i)' => SlotRead(v, i),
         Pass' = Pass,
         InTable' => InTable /\ vertex_through' = vertex_through
  PROVE  IInv'
<1>1. GraphConsistent'
  BY DEF IInv, GraphConsistent, Untouched, graph_vars, EdgeIds, GetEdge
<1>2. Diagonal'
  BY DEF IInv, Diagonal, Untouched, Entry, Known
<1>3. EdgeBound'
  BY DEF IInv, EdgeBound, Untouched, graph_vars, GetEdge, Within, Known,
         Entry, Weight
<1>4. PrevSound'
  <2> SUFFICES ASSUME NEW u \in Vertex, NEW v \in Vertex, Known(u, v)', u # v
               PROVE  LET id   == Entry(u, v).prev_edge
                          edge == GetEdge(id)
                      IN  /\ id \in EdgeIds
                          /\ edge.to = v
                          /\ edge.weight >= 0
                          /\ Covered(u, edge.from, Weight(u, v) - edge.weight,
                                     Pass)'
    BY DEF PrevSound, Untouched, graph_vars, EdgeIds, GetEdge, Entry
  <2>1. Known(u, v)
    BY DEF Untouched, Known, Entry
  <2>2. Covered(u, GetEdge(Entry(u, v).prev_edge).from,
                Weight(u, v) - GetEdge(Entry(u, v).prev_edge).weight, Pass)
    BY <2>1 DEF IInv, PrevSound
  <2>3. Covered(u, GetEdge(Entry(u, v).prev_edge).from,
                Weight(u, v) - GetEdge(Entry(u, v).prev_edge).weight, Pass)'
    BY <2>2 DEF Untouched, graph_vars, GetEdge, Covered, Within, Known, Entry,
                Weight
  <2> QED
    BY <2>1, <2>3 DEF IInv, PrevSound
<1>5. ClosedBelow'
  BY DEF IInv, ClosedBelow, Untouched, Covered, Within, Known, Entry, Weight
<1> QED
  BY <1>1, <1>2, <1>3, <1>4, <1>5 DEF IInv

(* Handing the graph over to the constructor keeps IInv.                   *)
LEMMA ConstructRouterStep ==
  ASSUME IInv, ConstructRouter
  PROVE  IInv'
<1>1. Untouched
  BY DEF ConstructRouter, Untouched
<1>2. TypeOK'
  BY RouterAssumption DEF IInv, TypeOK, LoopsInRange, ConstructRouter,
     PcValues, graph_vars, loop_vars, call_vars
<1>3. LoopsInRange'
  BY RouterAssumption DEF IInv, TypeOK, LoopsInRange, ConstructRouter, InInit,
     Serving, Known, Entry, graph_vars, loop_vars
<1>4. WalkConnected'
  BY DEF ConstructRouter, WalkConnected
<1>5. PassClosed'
  BY DEF IInv, ConstructRouter, PassClosed, Processed, InRelax, graph_vars,
     loop_vars, Known, Entry, Within, Weight
<1>6. /\ \A v \in Vertex : Started(v)' <=> Started(v)
     /\ \A v \in Vertex : \A j \in 1 .. Len(incidence_lists[v]) :
          SlotRead(v, j)' => SlotRead(v, j)
  BY RouterAssumption DEF IInv, TypeOK, LoopsInRange, ConstructRouter, Vertex,
     GetIncidentEdges, loop_vars, Started, SlotRead, Pass, InTable, InRelax,
     InInit, Serving
<1>7. Pass' = Pass /\ (InTable' => InTable /\ vertex_through' = vertex_through)
  BY DEF IInv, LoopsInRange, ConstructRouter, loop_vars, Started, SlotRead,
     Pass, InTable, InRelax, InInit, Serving
<1> QED
  BY <1>1, <1>2, <1>3, <1>4, <1>5, <1>6, <1>7, QuietStep

(* Going on to the next vertex of the initialisation keeps IInv.           *)
LEMMA InitNextVertexStep ==
  ASSUME IInv, InitNextVertex
  PROVE  IInv'
<1>1. Untouched
  BY DEF InitNextVertex, Untouched
<1>2. TypeOK'
  BY RouterAssumption DEF IInv, TypeOK, LoopsInRange, InitNextVertex,
     PcValues, graph_vars, loop_vars, call_vars
<1>3. LoopsInRange'
  BY RouterAssumption DEF IInv, TypeOK, LoopsInRange, InitNextVertex, InInit,
     Serving, Known, Entry, graph_vars, loop_vars
<1>4. WalkConnected'
  BY DEF InitNextVertex, WalkConnected
<1>5. PassClosed'
  BY DEF IInv, InitNextVertex, PassClosed, Processed, InRelax, graph_vars,
     loop_vars, Known, Entry, Within, Weight
<1>6. /\ \A v \in Vertex : Started(v)' <=> Started(v)
     /\ \A v \in Vertex : \A j \in 1 .. Len(incidence_lists[v]) :
          SlotRead(v, j)' => SlotRead(v, j)
  BY RouterAssumption, SMTT(30) DEF IInv, TypeOK, LoopsInRange, InitNextVertex, Vertex,
     GetIncidentEdges, loop_vars, Started, SlotRead, Pass, InTable, InRelax,
     InInit, Serving
<1>7. Pass' = Pass /\ (InTable' => InTable /\ vertex_through' = vertex_through)
  BY DEF IInv, LoopsInRange, InitNextVertex, loop_vars, Started, SlotRead,
     Pass, InTable, InRelax, InInit, Serving
<1> QED
  BY <1>1, <1>2, <1>3, <1>4, <1>5, <1>6, <1>7, QuietStep

(* Entering or skipping a row of a pass keeps IInv.                        *)
LEMMA RelaxFromStep ==
  ASSUME IInv, RelaxFrom
  PROVE  IInv'
<1>1. Untouched
  BY DEF RelaxFrom, Untouched
<1>2. TypeOK'
  BY RouterAssumption DEF IInv, TypeOK, LoopsInRange, RelaxFrom, PcValues,
     graph_vars, loop_vars, call_vars
<1>3. LoopsInRange'
  BY RouterAssumption DEF IInv, TypeOK, LoopsInRange, RelaxFrom, InInit,
     Serving, Known, Entry, graph_vars, loop_vars
<1>4. WalkConnected'
  BY DEF RelaxFrom, WalkConnected
<1>5. PassClosed'
  <2> SUFFICES ASSUME NEW u \in Vertex, NEW v \in Vertex,
                      vertex_through < VertexCount, Processed(u, v)',
                      Known(u, vertex_through), Known(vertex_through, v)
               PROVE  Within(u, v, Weight(u, vertex_through)
                                     + Weight(vertex_through, v))
    BY DEF RelaxFrom, PassClosed, Known, Entry, Within, Weight
  <2>1. /\ pc = "relax_from" /\ vertex_from \in Nat
        /\ u \in Nat /\ v \in Nat /\ InRelax
    BY RouterAssumption DEF IInv, TypeOK, RelaxFrom, InRelax, Vertex
  <2>2. Processed(u, v)
    <3>1. CASE Known(vertex_from, vertex_through)
      <4>1. vertex_from' = vertex_from /\ vertex_to' = 0
        BY <3>1 DEF RelaxFrom
      <4> QED
        BY <2>1, <4>1 DEF Processed
    <3>2. CASE ~ Known(vertex_from, vertex_through)
      <4>1. vertex_from' = vertex_from + 1 /\ pc' = pc /\ u # vertex_from
        BY <3>2 DEF RelaxFrom
      <4>2. u < vertex_from + 1
        BY <2>1, <4>1 DEF Processed
      <4> QED
        BY <2>1, <4>1, <4>2 DEF Processed
    <3> QED
      BY <3>1, <3>2
  <2> QED
    BY <2>2 DEF IInv, PassClosed
<1>6. /\ \A v \in Vertex : Started(v)' <=> Started(v)
     /\ \A v \in Vertex : \A j \in 1 .. Len(incidence_lists[v]) :
          SlotRead(v, j)' => SlotRead(v, j)
  BY RouterAssumption DEF IInv, TypeOK, LoopsInRange, RelaxFrom, Vertex,
     GetIncidentEdges, loop_vars, Started, SlotRead, Pass, InTable, InRelax,
     InInit, Serving
<1>7. Pass' = Pass /\ (InTable' => InTable /\ vertex_through' = vertex_through)
  BY DEF IInv, LoopsInRange, RelaxFrom, loop_vars, Started, SlotRead, Pass,
     InTable, InRelax, InInit, Serving
<1> QED
  BY <1>1, <1>2, <1>3, <1>4, <1>5, <1>6, <1>7, QuietStep

(* Leaving a row of a pass keeps IInv.                                     *)
LEMMA RelaxNextFromStep ==
  ASSUME IInv, RelaxNextFrom
  PROVE  IInv'
<1>1. Untouched
  BY DEF RelaxNextFrom, Untouched
<1>2. TypeOK'
  BY RouterAssumption DEF IInv, TypeOK, LoopsInRange, RelaxNextFrom, PcValues,
     graph_vars, loop_vars, call_vars
<1>3. LoopsInRange'
  BY RouterAssumption DEF IInv, TypeOK, LoopsInRange, RelaxNextFrom, InInit,
     Serving, Known, Entry, graph_vars, loop_vars
<1>4. WalkConnected'
  BY DEF RelaxNextFrom, WalkConnected
<1>5. PassClosed'
  <2> SUFFICES ASSUME NEW u \in Vertex, NEW v \in Vertex,
                      vertex_through < VertexCount, Processed(u, v)',
                      Known(u, vertex_through), Known(vertex_through, v)
               PROVE  Within(u, v, Weight(u, vertex_through)
                                     + Weight(vertex_through, v))
    BY DEF RelaxNextFrom, PassClosed, Known, Entry, Within, Weight
  <2>1. Processed(u, v)
    BY RouterAssumption DEF IInv, TypeOK, RelaxNextFrom, Processed, InRelax,
       Vertex
  <2> QED
    BY <2>1 DEF IInv, PassClosed
<1>6. /\ \A v \in Vertex : Started(v)' <=> Started(v)
     /\ \A v \in Vertex : \A j \in 1 .. Len(incidence_lists[v]) :
          SlotRead(v, j)' => SlotRead(v, j)
  BY RouterAssumption DEF IInv, TypeOK, LoopsInRange, RelaxNextFrom, Vertex,
     GetIncidentEdges, loop_vars, Started, SlotRead, Pass, InTable, InRelax,
     InInit, Serving
<1>7. Pass' = Pass /\ (InTable' => InTable /\ vertex_through' = vertex_through)
  BY DEF IInv, LoopsInRange, RelaxNextFrom, loop_vars, Started, SlotRead,
     Pass, InTable, InRelax, InInit, Serving
<1> QED
  BY <1>1, <1>2, <1>3, <1>4, <1>5, <1>6, <1>7, QuietStep

(* The end of the constructor keeps IInv.                                  *)
LEMMA RelaxDoneStep ==
  ASSUME IInv, RelaxDone
  PROVE  IInv'
<1>1. Untouched
  BY DEF RelaxDone, Untouched
<1>2. TypeOK'
  BY RouterAssumption DEF IInv, TypeOK, LoopsInRange, RelaxDone, PcValues,
     graph_vars, loop_vars, call_vars
<1>3. LoopsInRange'
  BY RouterAssumption DEF IInv, TypeOK, LoopsInRange, RelaxDone, InInit,
     Serving, Known, Entry, graph_vars, loop_vars
<1>4. WalkConnected'
  BY DEF RelaxDone, WalkConnected
<1>5. PassClosed'
  BY DEF IInv, RelaxDone, PassClosed, Processed, InRelax, graph_vars,
     loop_vars, Known, Entry, Within, Weight
<1>6. /\ \A v \in Vertex : Started(v)' <=> Started(v)
     /\ \A v \in Vertex : \A j \in 1 .. Len(incidence_lists[v]) :
          SlotRead(v, j)' => SlotRead(v, j)
  BY RouterAssumption DEF IInv, TypeOK, LoopsInRange, RelaxDone, Vertex,
     GetIncidentEdges, loop_vars, Started, SlotRead, Pass, InTable, InRelax,
     InInit, Serving
<1>7. Pass' = Pass /\ (InTable' => InTable /\ vertex_through' = vertex_through)
  BY DEF IInv, LoopsInRange, RelaxDone, loop_vars, Started, SlotRead, Pass,
     InTable, InRelax, InInit, Serving
<1> QED
  BY <1>1, <1>2, <1>3, <1>4, <1>5, <1>6, <1>7, QuietStep

(* Returning std::nullopt keeps IInv.                                      *)
LEMMA RouteMissingStep ==
  ASSUME IInv, RouteMissing
  PROVE  IInv'
<1>1. Untouched
  BY DEF RouteMissing, Untouched
<1>2. TypeOK'
  BY RouterAssumption DEF IInv, TypeOK, LoopsInRange, RouteMissing, PcValues,
     graph_vars, loop_vars, call_vars
<1>3. LoopsInRange'
  BY RouterAssumption DEF IInv, TypeOK, LoopsInRange, RouteMissing, InInit,
     Serving, Known, Entry, graph_vars, loop_vars
<1>4. WalkConnected'
  BY DEF RouteMissing, WalkConnected
<1>5. PassClosed'
  BY DEF IInv, RouteMissing, PassClosed, Processed, InRelax, graph_vars,
     loop_vars, Known, Entry, Within, Weight
<1>6. /\ \A v \in Vertex : Started(v)' <=> Started(v)
     /\ \A v \in Vertex : \A j \in 1 .. Len(incidence_lists[v]) :
          SlotRead(v, j)' => SlotRead(v, j)
  BY RouterAssumption DEF IInv, TypeOK, LoopsInRange, RouteMissing, Vertex,
     GetIncidentEdges, loop_vars, Started, SlotRead, Pass, InTable, InRelax,
     InInit, Serving
<1>7. Pass' = Pass /\ (InTable' => InTable /\ vertex_through' = vertex_through)
  BY DEF IInv, LoopsInRange, RouteMissing, loop_vars, Started, SlotRead, Pass,
     InTable, InRelax, InInit, Serving
<1> QED
  BY <1>1, <1>2, <1>3, <1>4, <1>5, <1>6, <1>7, QuietStep

(* A call of BuildRoute keeps IInv.                                        *)
LEMMA CallBuildRouteStep ==
  ASSUME IInv, NEW from \in Vertex, NEW to \in Vertex, CallBuildRoute(from, to)
  PROVE  IInv'
<1>1. Untouched
  BY DEF CallBuildRoute, Untouched
<1>2. TypeOK'
  BY RouterAssumption DEF IInv, TypeOK, LoopsInRange, CallBuildRoute,
     PcValues, graph_vars, loop_vars, call_vars
<1>3. LoopsInRange'
  BY RouterAssumption DEF IInv, TypeOK, LoopsInRange, CallBuildRoute, InInit,
     Serving, Known, Entry, graph_vars, loop_vars
<1>4. WalkConnected'
  BY DEF CallBuildRoute, WalkConnected
<1>5. PassClosed'
  BY DEF IInv, CallBuildRoute, PassClosed, Processed, InRelax, graph_vars,
     loop_vars, Known, Entry, Within, Weight
<1>6. /\ \A v \in Vertex : Started(v)' <=> Started(v)
     /\ \A v \in Vertex : \A j \in 1 .. Len(incidence_lists[v]) :
          SlotRead(v, j)' => SlotRead(v, j)
  BY RouterAssumption DEF IInv, TypeOK, LoopsInRange, CallBuildRoute, Vertex,
     GetIncidentEdges, loop_vars, Started, SlotRead, Pass, InTable, InRelax,
     InInit, Serving
<1>7. Pass' = Pass /\ (InTable' => InTable /\ vertex_through' = vertex_through)
  BY DEF IInv, LoopsInRange, CallBuildRoute, loop_vars, Started, SlotRead,
     Pass, InTable, InRelax, InInit, Serving
<1> QED
  BY <1>1, <1>2, <1>3, <1>4, <1>5, <1>6, <1>7, QuietStep

(* The beginning of the walk back keeps IInv.                              *)
LEMMA RouteFoundStep ==
  ASSUME IInv, RouteFound
  PROVE  IInv'
<1>1. Untouched
  BY DEF RouteFound, Untouched
<1>2. TypeOK'
  <2>1. edge_id' \in Nat \cup {NoEdge}
    BY EntryType DEF IInv, TypeOK, RouteFound
  <2> QED
    BY <2>1 DEF IInv, TypeOK, RouteFound, PcValues, graph_vars, loop_vars
<1>3. LoopsInRange'
  BY RouterAssumption DEF IInv, TypeOK, LoopsInRange, RouteFound, InInit,
     Serving, Known, Entry, graph_vars, loop_vars
<1>4. WalkConnected'
  BY DEF IInv, TypeOK, RouteFound, WalkConnected, WalkPosition, Known, Entry
<1>5. PassClosed'
  BY DEF IInv, RouteFound, PassClosed, Processed, InRelax, graph_vars,
     loop_vars, Known, Entry, Within, Weight
<1>6. /\ \A v \in Vertex : Started(v)' <=> Started(v)
     /\ \A v \in Vertex : \A j \in 1 .. Len(incidence_lists[v]) :
          SlotRead(v, j)' => SlotRead(v, j)
  BY RouterAssumption DEF IInv, TypeOK, LoopsInRange, RouteFound, Vertex,
     GetIncidentEdges, loop_vars, Started, SlotRead, Pass, InTable, InRelax,
     InInit, Serving
<1>7. Pass' = Pass /\ (InTable' => InTable /\ vertex_through' = vertex_through)
  BY DEF IInv, LoopsInRange, RouteFound, loop_vars, Started, SlotRead, Pass,
     InTable, InRelax, InInit, Serving
<1> QED
  BY <1>1, <1>2, <1>3, <1>4, <1>5, <1>6, <1>7, QuietStep

(* While BuildRoute walks, the table has a route for the query.            *)
LEMMA QueryKnown ==
  ASSUME IInv, pc = "walk"
  PROVE  query[2] \in Vertex /\ Known(query[1], query[2])
<1>1. CASE route = <<>>
  BY <1>1 DEF IInv, TypeOK, WalkConnected, WalkPosition
<1>2. CASE route # <<>>
  <2>1. 1 \in 1 .. Len(route)
    BY <1>2 DEF IInv, TypeOK
  <2> QED
    BY <2>1 DEF IInv, TypeOK, WalkConnected, OnTable
<1> QED
  BY <1>1, <1>2

(* The optional that WalkBack dereferences is never empty, and the edge it *)
(* takes fits the ones before.                                             *)
LEMMA WalkBackEdge ==
  ASSUME IInv, pc = "walk", edge_id # NoEdge
  PROVE  /\ OnTable(query[1], edge_id)
         /\ GetEdge(edge_id).to = WalkPosition
         /\ Known(query[1], GetEdge(edge_id).from)
<1> DEFINE u == query[1]
<1>1. Serving /\ u \in Vertex
  BY DEF IInv, TypeOK, Serving
<1>2. WalkPosition \in Vertex
  <2>1. CASE route = <<>>
    BY <2>1 DEF IInv, TypeOK, WalkPosition
  <2>2. CASE route # <<>>
    <3>1. Len(route) \in 1 .. Len(route)
      BY <2>2 DEF IInv, TypeOK
    <3>2. route[Len(route)] \in EdgeIds
      BY <3>1 DEF IInv, WalkConnected, OnTable
    <3> QED
      BY <2>2, <3>2, EdgeType DEF IInv, WalkPosition
  <2> QED
    BY <2>1, <2>2
<1>3. Known(u, WalkPosition) /\ edge_id = Entry(u, WalkPosition).prev_edge
  BY DEF IInv, WalkConnected
<1>4. u # WalkPosition
  BY <1>1, <1>2, <1>3 DEF IInv, Diagonal
<1>5. edge_id \in EdgeIds
  BY <1>1, <1>2, <1>3, <1>4, TableFacts
<1>6. /\ GetEdge(edge_id).to = WalkPosition
      /\ Known(u, GetEdge(edge_id).from)
      /\ Weight(u, WalkPosition)
           = Weight(u, GetEdge(edge_id).from) + GetEdge(edge_id).weight
  BY <1>1, <1>2, <1>3, <1>4, TableFacts DEF Attained
<1> QED
  BY <1>3, <1>5, <1>6 DEF OnTable

(* One step of the walk back keeps IInv and never meets an empty entry.    *)
LEMMA WalkBackStep ==
  ASSUME IInv, WalkBack
  PROVE  IInv'
<1>1. Untouched
  BY DEF WalkBack, Untouched
<1>2. TypeOK'
  <2>1. Known(query[1], GetEdge(edge_id).from) /\ edge_id \in Nat
    BY WalkBackEdge DEF IInv, TypeOK, WalkBack
  <2>2. GetEdge(edge_id).from \in Vertex
    BY WalkBackEdge, EdgeType DEF IInv, OnTable, WalkBack
  <2>3. edge_id' \in Nat \cup {NoEdge}
    BY <2>1, <2>2, EntryType DEF IInv, TypeOK, WalkBack
  <2> QED
    BY <2>1, <2>3 DEF IInv, TypeOK, WalkBack, PcValues, graph_vars, loop_vars
<1>3. LoopsInRange'
  BY RouterAssumption DEF IInv, TypeOK, LoopsInRange, WalkBack, InInit,
     Serving, Known, Entry, graph_vars, loop_vars
<1>4. WalkConnected'
  <2>1. /\ Len(route') = Len(route) + 1
        /\ route'[Len(route')] = edge_id /\ route' # <<>>
        /\ Len(route) \in Nat
        /\ \A i \in 1 .. Len(route) : route'[i] = route[i]
    <3>1. route \in Seq(Nat) /\ edge_id \in Nat /\ route' = Append(route,
       edge_id)
      BY DEF WalkBack, IInv, TypeOK
    <3> QED
      BY <3>1
  <2>2. WalkPosition' = GetEdge(edge_id).from
    BY <2>1 DEF WalkBack, WalkPosition, GetEdge, graph_vars
  <2>3. \A e : OnTable(query[1], e)' <=> OnTable(query[1], e)
    BY DEF WalkBack, OnTable, EdgeIds, GetEdge, Known, Weight, Entry, graph_vars
  <2>4. OnTable(query[1], edge_id) /\ GetEdge(edge_id).to = WalkPosition
    BY WalkBackEdge DEF WalkBack
  <2>5. \A i \in 1 .. Len(route') : OnTable(query[1], route'[i])
    <3> SUFFICES ASSUME NEW i \in 1 .. Len(route')
                 PROVE  OnTable(query[1], route'[i])
      OBVIOUS
    <3>1. CASE i \in 1 .. Len(route)
      <4>1. route'[i] = route[i]
        BY <2>1, <3>1
      <4>2. OnTable(query[1], route[i])
        BY <3>1 DEF IInv, WalkConnected, WalkBack
      <4> QED
        BY <4>1, <4>2
    <3>2. CASE i \notin 1 .. Len(route)
      <4>1. Len(route) \in Nat /\ Len(route') = Len(route) + 1
        BY <2>1 DEF IInv, TypeOK
      <4>2. i = Len(route')
        BY <4>1, <3>2
      <4> QED
        BY <4>2, <2>1, <2>4
    <3> QED
      BY <3>1, <3>2
  <2>6. \A i \in 1 .. Len(route') :
          GetEdge(route'[i]).to =
            IF i = 1 THEN query[2] ELSE GetEdge(route'[i - 1]).from
    <3> SUFFICES ASSUME NEW i \in 1 .. Len(route')
                 PROVE  GetEdge(route'[i]).to =
                          IF i = 1 THEN query[2] ELSE GetEdge(route'[i - 1]).from
      OBVIOUS
    <3>1. CASE i \in 1 .. Len(route)
      <4>1. route'[i] = route[i] /\ (i # 1 => route'[i - 1] = route[i - 1])
        BY <2>1, <3>1
      <4>2. GetEdge(route[i]).to =
              IF i = 1 THEN query[2] ELSE GetEdge(route[i - 1]).from
        BY <3>1 DEF IInv, WalkConnected, WalkBack
      <4> QED
        BY <4>1, <4>2
    <3>2. CASE i \notin 1 .. Len(route)
      <4>1. i = Len(route') /\ i = Len(route) + 1
        BY <2>1, <3>2
      <4>2. GetEdge(route'[i]).to = WalkPosition
        BY <4>1, <2>1, <2>4
      <4>3. CASE i = 1
        <5>1. route = <<>>
          BY <4>1, <4>3, <2>1 DEF IInv, TypeOK
        <5> QED
          BY <4>2, <4>3, <5>1 DEF WalkPosition
      <4>4. CASE i # 1
        <5>1. route # <<>> /\ i - 1 = Len(route) /\ i - 1 \in 1 .. Len(route)
          BY <4>1, <4>4, <2>1
        <5> QED
          BY <4>2, <4>4, <5>1, <2>1 DEF WalkPosition
      <4> QED
        BY <4>3, <4>4
    <3> QED
      BY <3>1, <3>2
  <2>7. /\ Known(query[1], GetEdge(edge_id).from)
        /\ edge_id' = Entry(query[1], GetEdge(edge_id).from).prev_edge
    BY WalkBackEdge DEF WalkBack
  <2> QED
    BY <2>2, <2>3, <2>5, <2>6, <2>7
    DEF WalkConnected, WalkBack, GetEdge, Known, Entry, graph_vars
<1>5. PassClosed'
  BY DEF IInv, WalkBack, PassClosed, Processed, InRelax, graph_vars,
     loop_vars, Known, Entry, Within, Weight
<1>6. /\ \A v \in Vertex : Started(v)' <=> Started(v)
     /\ \A v \in Vertex : \A j \in 1 .. Len(incidence_lists[v]) :
          SlotRead(v, j)' => SlotRead(v, j)
  BY RouterAssumption DEF IInv, TypeOK, LoopsInRange, WalkBack, Vertex,
     GetIncidentEdges, loop_vars, Started, SlotRead, Pass, InTable, InRelax,
     InInit, Serving
<1>7. Pass' = Pass /\ (InTable' => InTable /\ vertex_through' = vertex_through)
  BY DEF IInv, LoopsInRange, WalkBack, loop_vars, Started, SlotRead, Pass,
     InTable, InRelax, InInit, Serving
<1> QED
  BY <1>1, <1>2, <1>3, <1>4, <1>5, <1>6, <1>7, QuietStep

(* Returning a route keeps IInv.                                           *)
LEMMA ReturnRouteStep ==
  ASSUME IInv, ReturnRoute
  PROVE  IInv'
<1>1. Untouched
  BY DEF ReturnRoute, Untouched
<1>2. TypeOK'
  <2>1. Weight(query[1], query[2]) \in Nat
    <3>1. Known(query[1], query[2])
      BY QueryKnown DEF ReturnRoute
    <3> QED
      BY <3>1, EntryType DEF IInv, TypeOK
  <2>2. Reversed(route) \in Seq(Nat)
    BY DEF IInv, TypeOK, Reversed
  <2> QED
    BY <2>1, <2>2 DEF IInv, TypeOK, ReturnRoute, RouteInfo, PcValues,
       graph_vars,
       loop_vars
<1>3. LoopsInRange'
  BY RouterAssumption DEF IInv, TypeOK, LoopsInRange, ReturnRoute, InInit,
     Serving, Known, Entry, graph_vars, loop_vars
<1>4. WalkConnected'
  BY DEF ReturnRoute, WalkConnected
<1>5. PassClosed'
  BY DEF IInv, ReturnRoute, PassClosed, Processed, InRelax, graph_vars,
     loop_vars, Known, Entry, Within, Weight
<1>6. /\ \A v \in Vertex : Started(v)' <=> Started(v)
     /\ \A v \in Vertex : \A j \in 1 .. Len(incidence_lists[v]) :
          SlotRead(v, j)' => SlotRead(v, j)
  BY RouterAssumption DEF IInv, TypeOK, LoopsInRange, ReturnRoute, Vertex,
     GetIncidentEdges, loop_vars, Started, SlotRead, Pass, InTable, InRelax,
     InInit, Serving
<1>7. Pass' = Pass /\ (InTable' => InTable /\ vertex_through' = vertex_through)
  BY DEF IInv, LoopsInRange, ReturnRoute, loop_vars, Started, SlotRead, Pass,
     InTable, InRelax, InInit, Serving
<1> QED
  BY <1>1, <1>2, <1>3, <1>4, <1>5, <1>6, <1>7, QuietStep

-----------------------------------------------------------------------------
(* Steps that fill the graph, that start a phase, or that write an entry.  *)

(* Adding an edge keeps IInv.                                              *)
LEMMA AddEdgeStep ==
  ASSUME IInv, NEW from \in Vertex, NEW to \in Vertex, NEW weight \in Weights,
         AddEdge(from, to, weight)
  PROVE  IInv'
<1> DEFINE n == Len(edges)
<1>1. /\ n \in Nat
      /\ Len(edges') = n + 1
      /\ edges'[n + 1] = [from |-> from, to |-> to, weight |-> weight]
      /\ \A i \in 1 .. n : edges'[i] = edges[i]
      /\ edges' \in Seq(Edge)
  BY DEF IInv, TypeOK, AddEdge, Edge
<1>2. /\ incidence_lists' \in [Vertex -> Seq(Nat)]
      /\ \A v \in Vertex \ {from} : incidence_lists'[v] = incidence_lists[v]
      /\ Len(incidence_lists'[from]) = Len(incidence_lists[from]) + 1
      /\ incidence_lists'[from][Len(incidence_lists[from]) + 1] = n
      /\ \A i \in 1 .. Len(incidence_lists[from]) :
           incidence_lists'[from][i] = incidence_lists[from][i]
  BY <1>1 DEF IInv, TypeOK, AddEdge
<1>3. TypeOK' /\ LoopsInRange' /\ WalkConnected'
  BY <1>1, <1>2 DEF IInv, TypeOK, LoopsInRange, WalkConnected, AddEdge,
     InInit, Serving, loop_vars, call_vars
<1>4. ~ InTable /\ ~ InTable' /\ ~ InInit /\ ~ InInit'
  BY DEF AddEdge, InTable, InInit, InRelax, Serving
<1>5. \A u, v \in Vertex : ~ Known(u, v)
  BY <1>4 DEF IInv, Diagonal, Started, AddEdge
<1>6. EdgeBound' /\ ClosedBelow' /\ PassClosed'
  BY <1>4 DEF EdgeBound, ClosedBelow, PassClosed, Processed, SlotRead, AddEdge,
     InTable
<1>7. Diagonal' /\ PrevSound'
  BY <1>4, <1>5 DEF Diagonal, PrevSound, Started, AddEdge, Known, Entry
<1>8. GraphConsistent'
  <2> DEFINE lists == incidence_lists
             m     == Len(incidence_lists[from])
  <2>1. /\ m \in Nat
        /\ \A v \in Vertex : Len(lists[v]) \in Nat
    BY DEF IInv, TypeOK
  <2>2. EdgeIds' = 0 .. n /\ EdgeIds = 0 .. n - 1
    BY <1>1 DEF EdgeIds
  <2>3. \A e \in EdgeIds : edges'[e + 1] = GetEdge(e)
    BY <1>1, <2>2 DEF GetEdge
  <2>4. ASSUME NEW v \in Vertex, NEW i \in 1 .. Len(lists'[v])
        PROVE  lists'[v][i] \in 0 .. n /\ edges'[lists'[v][i] + 1].from = v
    <3>1. CASE i \in 1 .. Len(lists[v])
      <4>1. lists'[v][i] = lists[v][i]
        BY <1>2, <3>1
      <4>2. lists[v][i] \in EdgeIds /\ GetEdge(lists[v][i]).from = v
        BY <3>1 DEF IInv, GraphConsistent
      <4>3. lists[v][i] \in 0 .. n
        BY <4>2, <2>2, <1>1
      <4> QED
        BY <4>1, <4>2, <4>3, <2>3
    <3>2. CASE i \notin 1 .. Len(lists[v])
      <4>1. v = from
        BY <1>2, <3>2
      <4>2. i = m + 1
        BY <4>1, <1>2, <2>1, <3>2
      <4>3. lists'[v][i] = n
        BY <4>1, <4>2, <1>2
      <4> QED
        BY <4>1, <4>3, <1>1
    <3> QED
      BY <3>1, <3>2
  <2>5. ASSUME NEW e \in 0 .. n
        PROVE  \E i \in 1 .. Len(lists'[edges'[e + 1].from]) :
                 lists'[edges'[e + 1].from][i] = e
    <3>1. CASE e = n
      <4>1. edges'[e + 1].from = from
        BY <1>1, <3>1
      <4>2. m + 1 \in 1 .. Len(lists'[from]) /\ lists'[from][m + 1] = n
        BY <1>2, <2>1
      <4> QED
        BY <4>1, <4>2, <3>1
    <3>2. CASE e # n
      <4>1. e \in EdgeIds
        BY <3>2, <1>1, <2>2
      <4> DEFINE v == GetEdge(e).from
      <4>2. edges'[e + 1].from = v /\ v \in Vertex
        BY <4>1, <2>3, EdgeType DEF IInv
      <4>3. PICK i \in 1 .. Len(lists[v]) : lists[v][i] = e
        BY <4>1 DEF IInv, GraphConsistent
      <4> HIDE DEF v
      <4>4. i \in 1 .. Len(lists'[v]) /\ lists'[v][i] = e
        <5>1. CASE v = from
          BY <5>1, <4>3, <1>2, <2>1, SMTT(30)
        <5>2. CASE v # from
          BY <5>2, <4>2, <4>3, <1>2
        <5> QED
          BY <5>1, <5>2
      <4> QED
        BY <4>2, <4>4
    <3> QED
      BY <3>1, <3>2
  <2> QED
    BY <2>2, <2>4, <2>5 DEF GraphConsistent, GetEdge
<1> QED
  BY <1>3, <1>6, <1>7, <1>8 DEF IInv

(* A table that is left alone is sound if its entries are explained by     *)
(* themselves, without a pass under way.                                   *)
LEMMA PrevSoundUntouched ==
  ASSUME Untouched,
         \A u, v \in Vertex :
           Known(u, v) /\ u # v =>
             LET id   == Entry(u, v).prev_edge
                 edge == GetEdge(id)
             IN  /\ id \in EdgeIds
                 /\ edge.to = v
                 /\ edge.weight >= 0
                 /\ Within(u, edge.from, Weight(u, v) - edge.weight)
  PROVE  PrevSound'
<1> SUFFICES ASSUME NEW u \in Vertex, NEW v \in Vertex, Known(u, v)', u # v
             PROVE  (LET id   == Entry(u, v).prev_edge
                         edge == GetEdge(id)
                     IN  /\ id \in EdgeIds
                         /\ edge.to = v
                         /\ edge.weight >= 0
                         /\ Covered(u, edge.from, Weight(u, v) - edge.weight, Pass))'
  BY DEF PrevSound
<1>1. \A a, b : Entry(a, b)' = Entry(a, b)
  BY DEF Untouched, Entry
<1>2. EdgeIds' = EdgeIds /\ \A e : GetEdge(e)' = GetEdge(e)
  BY DEF Untouched, graph_vars, EdgeIds, GetEdge
<1>3. Known(u, v)
  BY <1>1 DEF Known
<1> DEFINE edge == GetEdge(Entry(u, v).prev_edge)
           left == Weight(u, v) - edge.weight
<1>4. edge' = edge /\ left' = left
  BY <1>1, <1>2 DEF Weight
<1>5. Within(u, edge.from, left)
  BY <1>3
<1> HIDE DEF edge, left
<1>6. Within(u, edge.from, left)'
  BY <1>1, <1>4, <1>5 DEF Within, Known, Weight
<1>7. Covered(u, edge.from, left, Pass)'
  BY <1>6 DEF Covered
<1> QED
  BY <1>1, <1>2, <1>3, <1>7 DEF edge, left

(* The initialisation is over: every row is started and every edge read.   *)
LEMMA InitDoneStep ==
  ASSUME IInv, InitDone
  PROVE  IInv'
<1>1. TypeOK' /\ LoopsInRange' /\ WalkConnected'
  BY RouterAssumption DEF IInv, TypeOK, LoopsInRange, WalkConnected, InitDone,
     InInit, Serving, PcValues, graph_vars, call_vars
<1>2. vertex_through' = 0 /\ vertex_from' = 0
  BY DEF IInv, LoopsInRange, InitDone, InInit
<1>3. InInit /\ InTable' /\ \A v \in Vertex : v < vertex_from
  BY RouterAssumption DEF InitDone, InInit, InTable, InRelax, Vertex
<1>4. GraphConsistent'
  BY DEF IInv, GraphConsistent, InitDone, graph_vars, EdgeIds, GetEdge
<1>5. Diagonal'
  BY <1>3 DEF IInv, Diagonal, InitDone, Entry, Known, Started
<1>6. EdgeBound'
  <2>1. \A v \in Vertex, i \in Nat : SlotRead(v, i)
    BY <1>3 DEF SlotRead
  <2> QED
    BY <2>1, SMTT(30) DEF IInv, TypeOK, EdgeBound, InitDone, graph_vars,
       GetEdge, Within, Known, Entry, Weight
<1>7. PrevSound'
  <2> SUFFICES ASSUME NEW u \in Vertex, NEW v \in Vertex, Known(u, v), u # v
               PROVE  LET id   == Entry(u, v).prev_edge
                          edge == GetEdge(id)
                      IN  /\ id \in EdgeIds
                          /\ edge.to = v
                          /\ edge.weight >= 0
                          /\ Within(u, edge.from, Weight(u, v) - edge.weight)
    BY PrevSoundUntouched DEF InitDone, Untouched
  <2>1. Pass = VertexCount
    BY DEF Pass, InRelax, InitDone
  <2> QED
    BY <2>1, RouterAssumption DEF IInv, PrevSound, Covered
<1>8. ClosedBelow' /\ PassClosed'
  BY <1>2 DEF ClosedBelow, PassClosed, Processed, InitDone, Vertex
<1> QED
  BY <1>1, <1>4, <1>5, <1>6, <1>7, <1>8 DEF IInv

(* A row is started with the empty route to its own vertex.                *)
LEMMA InitVertexStep ==
  ASSUME IInv, InitVertex
  PROVE  IInv'
<1> DEFINE r == vertex_from
<1>1. /\ r \in Vertex /\ TypeOK /\ pc = "init_vertex" /\ pc' = "init_edge"
      /\ vertex_from' = r /\ slot' = 1
  BY RouterAssumption DEF IInv, TypeOK, InitVertex, Vertex
<1>2. \A a, b \in Vertex :
        Entry(a, b)' = IF a = r /\ b = r THEN SelfRoute ELSE Entry(a, b)
  BY <1>1, StoreEntry DEF InitVertex
<1>3. TypeOK' /\ LoopsInRange' /\ WalkConnected'
  BY <1>1, RouterAssumption, SMTT(30) DEF IInv, TypeOK, LoopsInRange,
     WalkConnected, InitVertex, Store, SelfRoute, RouteInternalData, InInit,
     Serving, PcValues, Vertex, graph_vars, call_vars
<1>4. GraphConsistent'
  BY DEF IInv, GraphConsistent, InitVertex, graph_vars, EdgeIds, GetEdge
<1>5. /\ \A v \in Vertex : Started(v) <=> v < r
      /\ \A v \in Vertex : Started(v)' <=> v <= r
  BY <1>1, RouterAssumption DEF Started, InTable, InInit, InRelax, Serving,
     Vertex
<1>6. \A v \in Vertex : ~ Known(r, v)
  BY <1>1, <1>5 DEF IInv, Diagonal, Vertex
<1>7. Diagonal'
  <2>1. \A v \in Vertex : Entry(r, v)' = IF v = r THEN SelfRoute ELSE NoRoute
    BY <1>1, <1>2, <1>6 DEF Known
  <2>2. \A u \in Vertex : u # r => (Started(u)' <=> Started(u))
    BY <1>1, <1>5 DEF Vertex
  <2>3. \A u \in Vertex \ {r}, v \in Vertex : Entry(u, v)' = Entry(u, v)
    BY <1>2
  <2>4. \A v \in Vertex : v = r => Started(v)'
    BY <1>1, <1>5 DEF Vertex
  <2>5. ASSUME NEW u \in Vertex
        PROVE  /\ Started(u)' => Entry(u, u)' = SelfRoute
               /\ \A v \in Vertex : Entry(u, v)' # NoRoute =>
                    /\ Started(u)'
                    /\ Entry(u, v)'.prev_edge = NoEdge <=> u = v
    <3>1. CASE u = r
      BY <3>1, <2>1, <2>4, <1>1 DEF SelfRoute
    <3>2. CASE u # r
      <4>1. Started(u) => Entry(u, u) = SelfRoute
        BY DEF IInv, Diagonal, SelfRoute
      <4>2. \A v \in Vertex : Entry(u, v) # NoRoute =>
              Started(u) /\ (Entry(u, v).prev_edge = NoEdge <=> u = v)
        BY DEF IInv, Diagonal, Known
      <4>3. Started(u)' <=> Started(u)
        BY <3>2, <2>2
      <4>4. \A v \in Vertex : Entry(u, v)' = Entry(u, v)
        BY <3>2, <2>3
      <4> QED
        BY <4>1, <4>2, <4>3, <4>4
    <3> QED
      BY <3>1, <3>2
  <2> QED
    BY <2>5 DEF Diagonal, Known, SelfRoute
<1>8. \A v \in Vertex : \A i \in Nat \ {0} : SlotRead(v, i)' => SlotRead(v,
   i) /\ v # r
  BY <1>1, RouterAssumption DEF SlotRead, InTable, InInit, InRelax, Serving,
     Vertex
<1>9. EdgeBound'
  <2> SUFFICES ASSUME NEW v \in Vertex, NEW i \in 1 .. Len(incidence_lists[v]),
                      SlotRead(v, i)'
               PROVE  LET edge == GetEdge(incidence_lists[v][i])
                      IN  edge.weight >= 0 /\ Within(v, edge.to, edge.weight)'
    BY DEF EdgeBound, InitVertex, graph_vars, GetEdge, Within, Known, Weight,
       Entry
  <2>1. SlotRead(v, i) /\ v # r
    BY <1>1, <1>8 DEF TypeOK
  <2>2. GetEdge(incidence_lists[v][i]).to \in Vertex
    BY <1>1, EdgeType DEF IInv, GraphConsistent
  <2> QED
    BY <2>1, <2>2, <1>2 DEF IInv, EdgeBound, Within, Known, Weight, InitVertex,
       graph_vars, GetEdge
<1>10. PrevSound'
  <2> SUFFICES ASSUME NEW u \in Vertex, NEW v \in Vertex, Known(u, v)', u # v
               PROVE  (LET id   == Entry(u, v).prev_edge
                           edge == GetEdge(id)
                       IN  /\ id \in EdgeIds
                           /\ edge.to = v
                           /\ edge.weight >= 0
                           /\ Within(u, edge.from, Weight(u, v) - edge.weight))'
    BY DEF PrevSound, Covered
  <2>1. Entry(u, v)' = Entry(u, v) /\ Known(u, v) /\ u # r
    BY <1>1, <1>2, <1>6 DEF Known
  <2>2. Pass = VertexCount
    BY <1>1 DEF Pass, InRelax
  <2> DEFINE id == Entry(u, v).prev_edge
  <2>3. /\ id \in EdgeIds /\ GetEdge(id).to = v /\ GetEdge(id).weight >= 0
        /\ Within(u, GetEdge(id).from, Weight(u, v) - GetEdge(id).weight)
    BY <2>1, <2>2, RouterAssumption DEF IInv, PrevSound, Covered
  <2>4. GetEdge(id).from \in Vertex
    BY <1>1, <2>3, EdgeType
  <2> QED
    BY <2>1, <2>3, <2>4, <1>2 DEF Within, Known, Weight, InitVertex, graph_vars,
       GetEdge, EdgeIds
<1>11. ClosedBelow' /\ PassClosed'
  BY <1>1 DEF ClosedBelow, PassClosed, Processed, InTable, InRelax, Serving
<1> QED
  BY <1>3, <1>4, <1>7, <1>9, <1>10, <1>11 DEF IInv

-----------------------------------------------------------------------------
(* An entry is replaced by a better one: entries are never lost and never  *)
(* get longer, so what was covered stays covered.                          *)
Improving ==
  \A a, b \in Vertex :
    Known(a, b) => Known(a, b)' /\ Weight(a, b)' <= Weight(a, b)

(* A bound on an entry survives when entries only improve.                 *)
LEMMA WithinKept ==
  ASSUME TypeOK, TypeOK', Improving, NEW a \in Vertex, NEW b \in Vertex,
         NEW c \in Int, Within(a, b, c)
  PROVE  Within(a, b, c)'
<1>1. Known(a, b)' /\ Weight(a, b)' \in Int /\ Weight(a, b) \in Int
  BY EntryType, EntryTypeNext DEF Within, Improving
<1> QED
  BY <1>1 DEF Within, Improving

(* A bound through the vertices of a pass survives when entries only       *)
(* improve.                                                                *)
LEMMA CoverKept ==
  ASSUME TypeOK, TypeOK', Improving, NEW a \in Vertex, NEW b \in Vertex,
         NEW c \in Int, NEW k \in Nat, Covered(a, b, c, k)
  PROVE  Covered(a, b, c, k)'
<1>1. CASE Within(a, b, c)
  BY <1>1, WithinKept DEF Covered
<1>2. CASE /\ k < VertexCount /\ Known(a, k) /\ Known(k, b)
           /\ Weight(a, k) + Weight(k, b) <= c
  <2>1. k \in Vertex
    BY <1>2, RouterAssumption DEF Vertex
  <2>2. /\ Known(a, k)' /\ Weight(a, k)' \in Int /\ Weight(a, k) \in Int
        /\ Known(k, b)' /\ Weight(k, b)' \in Int /\ Weight(k, b) \in Int
    BY <1>2, <2>1, EntryType, EntryTypeNext DEF Improving
  <2>3. Weight(a, k)' <= Weight(a, k) /\ Weight(k, b)' <= Weight(k, b)
    BY <1>2, <2>1 DEF Improving
  <2>4. Weight(a, k)' + Weight(k, b)' <= c
    BY <1>2, <2>2, <2>3
  <2> QED
    BY <1>2, <2>2, <2>4 DEF Covered
<1> QED
  BY <1>1, <1>2 DEF Covered

(* One edge of the row under initialisation is read.                       *)
LEMMA InitEdgeStep ==
  ASSUME IInv, InitEdge
  PROVE  IInv'
<1>1. /\ vertex_from \in Vertex /\ TypeOK /\ pc = "init_edge"
      /\ vertex_from' = vertex_from
      /\ slot \in Nat \ {0} /\ slot <= Len(incidence_lists[vertex_from])
  <2>1. TypeOK /\ LoopsInRange
    BY DEF IInv
  <2>2. vertex_from \in Vertex
    BY <2>1, RouterAssumption DEF TypeOK, LoopsInRange, InitEdge, Vertex
  <2> QED
    BY <2>1, <2>2 DEF TypeOK, InitEdge, GetIncidentEdges
<1>2. slot \in 1 .. Len(incidence_lists[vertex_from])
  BY <1>1 DEF TypeOK
<1>3. /\ incidence_lists[vertex_from][slot] \in EdgeIds
      /\ GetEdge(incidence_lists[vertex_from][slot]).from = vertex_from
  BY <1>1, <1>2 DEF IInv, GraphConsistent
<1>4. PICK r \in Vertex, e \in EdgeIds, to \in Vertex, w \in Int :
        /\ r = vertex_from /\ e = incidence_lists[vertex_from][slot]
        /\ GetEdge(e).from = r /\ to = GetEdge(e).to /\ w = GetEdge(e).weight
  BY <1>1, <1>3, EdgeType
<1> DEFINE data == [weight |-> w, prev_edge |-> e]
<1>5. UNCHANGED <<graph_vars, vertex_through, vertex_to, call_vars>>
  BY DEF InitEdge
<1>6. GraphConsistent'
  BY <1>5 DEF IInv, GraphConsistent, graph_vars, EdgeIds, GetEdge
<1>7. CASE w < 0
  <2>1. pc' = "domain_error" /\ UNCHANGED <<routes_internal_data, slot>>
    BY <1>4, <1>7 DEF InitEdge, GetIncidentEdges, IsNegative
  <2>2. TypeOK' /\ LoopsInRange' /\ WalkConnected'
    BY <1>1, <1>5, <2>1 DEF IInv, TypeOK, LoopsInRange, WalkConnected, PcValues,
       InInit, Serving, graph_vars, call_vars
  <2>3. Untouched /\ PassClosed' /\ Pass' = Pass /\ ~ InTable'
    BY <1>1, <1>5, <2>1 DEF Untouched, PassClosed, Processed, Pass, InRelax,
       InTable, Serving
  <2>4. /\ \A v \in Vertex : Started(v)' <=> Started(v)
        /\ \A v \in Vertex : \A i \in 1 .. Len(incidence_lists[v]) :
             SlotRead(v, i)' => SlotRead(v, i)
    BY <1>1, <2>1, RouterAssumption DEF Started, SlotRead, InTable, InInit,
       InRelax, Serving, Vertex
  <2> QED
    BY <2>2, <2>3, <2>4, QuietStep
<1>8. CASE w >= 0
  <2>1. /\ pc' = "init_edge" /\ slot' = slot + 1
        /\ \/ /\ ImprovesInit(Entry(r, to), w)
              /\ Store(r, to, data)
           \/ /\ ~ ImprovesInit(Entry(r, to), w)
              /\ UNCHANGED routes_internal_data
    BY <1>1, <1>4, <1>8 DEF InitEdge, GetIncidentEdges, IsNegative, ImprovesInit
  <2>2. Entry(r, r) = SelfRoute
    BY <1>1, <1>4, RouterAssumption DEF IInv, Diagonal, Started, SelfRoute,
       Vertex
  <2>3. Within(r, to, w)' /\ Improving /\ TypeOK'
        /\ \A a, b \in Vertex :
             \/ Entry(a, b)' = Entry(a, b)
             \/ a = r /\ b = to /\ to # r /\ Entry(a, b)' = data
    <3>1. CASE ImprovesInit(Entry(r, to), w)
      <4>1. Store(r, to, data)
        BY <2>1, <3>1
      <4>2. \A a, b \in Vertex :
              Entry(a, b)' = IF a = r /\ b = to THEN data ELSE Entry(a, b)
        BY <1>1, <1>4, <4>1, StoreEntry
      <4>3. to # r
        <5> SUFFICES ASSUME to = r PROVE FALSE
          OBVIOUS
        <5>1. ImprovesInit(SelfRoute, w)
          BY <2>2, <3>1
        <5> QED
          BY <5>1, <1>8, <1>4, NoRouteAssumption
          DEF ImprovesInit, SelfRoute, RouteInternalData
      <4>4. data \in RouteInternalData
        BY <1>3, <1>4, <1>8, <1>1, SMTT(30)
           DEF RouteInternalData, EdgeIds, TypeOK
      <4>5. TypeOK'
        <5>1. routes_internal_data' \in
                [Vertex -> [Vertex -> RouteInternalData \cup {NoRoute}]]
          BY <1>1, <4>1, <4>4, StoreType
        <5>2. pc' \in PcValues /\ slot' \in Nat \ {0}
          BY <1>1, <2>1 DEF PcValues
        <5>3. UNCHANGED <<edges, incidence_lists, vertex_through, vertex_from,
                          vertex_to, query, edge_id, route, answer>>
          BY <1>1, <1>5 DEF graph_vars, call_vars
        <5> QED
          BY <1>1, <5>1, <5>2, <5>3 DEF TypeOK
      <4>6. data # NoRoute
        BY <4>4, NoRouteAssumption
      <4>7. Within(r, to, w)'
        BY <1>4, <4>2, <4>6 DEF Within, Known, Weight
      <4>8. Improving
        <5> SUFFICES ASSUME NEW a \in Vertex, NEW b \in Vertex, Known(a, b)
                     PROVE  Known(a, b)' /\ Weight(a, b)' <= Weight(a, b)
          BY DEF Improving
        <5>1. Weight(a, b) \in Nat
          BY <1>1, EntryType
        <5>2. CASE a = r /\ b = to
          <6>1. w < Weight(r, to)
            BY <3>1, <5>1, <5>2, <1>4 DEF ImprovesInit, Known, Weight
          <6>2. Entry(a, b)' = data
            BY <4>2, <5>2
          <6> QED
            BY <6>1, <6>2, <4>6, <5>1, <5>2, <1>4 DEF Known, Weight
        <5>3. CASE ~ (a = r /\ b = to)
          BY <4>2, <5>1, <5>3 DEF Known, Weight
        <5> QED
          BY <5>2, <5>3
      <4> QED
        BY <4>2, <4>3, <4>5, <4>7, <4>8
    <3>2. CASE ~ ImprovesInit(Entry(r, to), w)
      <4>1. UNCHANGED routes_internal_data
        BY <2>1, <3>2
      <4>2. \A a, b \in Vertex : Entry(a, b)' = Entry(a, b)
        BY <4>1 DEF Entry
      <4>3. TypeOK'
        BY <1>1, <1>5, <2>1, <4>1, SMTT(30)
           DEF TypeOK, PcValues, graph_vars, call_vars
      <4>4. Improving
        BY <1>1, <4>2, EntryType DEF Improving, Known, Weight
      <4>5. Within(r, to, w)
        BY <1>1, <1>4, <3>2, EntryType DEF ImprovesInit, Within, Known, Weight
      <4>6. Within(r, to, w)'
        BY <1>4, <4>5, <4>2 DEF Within, Known, Weight
      <4> QED
        BY <4>2, <4>3, <4>4, <4>6
    <3> QED
      BY <3>1, <3>2
  <2>4. \A a, b \in Vertex, c \in Int : Within(a, b, c) => Within(a, b, c)'
    BY <1>1, <2>3, WithinKept
  <2>5. LoopsInRange' /\ WalkConnected' /\ ClosedBelow' /\ PassClosed'
    BY <1>1, <1>5, <2>1 DEF IInv, LoopsInRange, WalkConnected, ClosedBelow,
       PassClosed, Processed, InTable, InInit, InRelax, Serving
  <2>6. /\ \A v \in Vertex : Started(v)' <=> Started(v)
        /\ Started(r)
        /\ \A v \in Vertex, i \in Nat :
             SlotRead(v, i)' => SlotRead(v, i) \/ (v = r /\ i = slot)
    BY <1>1, <1>4, <2>1, RouterAssumption
    DEF Started, SlotRead, InTable, InInit, InRelax, Serving, Vertex
  <2>7. Diagonal'
    <3>1. \A u \in Vertex : Entry(u, u)' = Entry(u, u)
      BY <2>3
    <3>2. ASSUME NEW u \in Vertex, NEW v \in Vertex, Known(u, v)'
          PROVE  Started(u) /\ (Entry(u, v)'.prev_edge = NoEdge <=> u = v)
      <4>1. CASE Entry(u, v)' = Entry(u, v)
        BY <3>2, <4>1 DEF IInv, Diagonal, Known
      <4>2. CASE u = r /\ v = to /\ to # r /\ Entry(u, v)' = data
        <5>1. e # NoEdge
          BY <1>1, RouterAssumption, SMTT(30) DEF EdgeIds, TypeOK
        <5> QED
          BY <4>2, <5>1, <2>6
      <4> QED
        BY <2>3, <4>1, <4>2
    <3> QED
      BY <3>1, <3>2, <2>6 DEF IInv, Diagonal
  <2>8. EdgeBound'
    <3> SUFFICES ASSUME NEW v \in Vertex,
       NEW i \in 1 .. Len(incidence_lists[v]),
                        SlotRead(v, i)'
                 PROVE  LET edge == GetEdge(incidence_lists[v][i])
                        IN  edge.weight >= 0 /\ Within(v, edge.to, edge.weight)'
      BY <1>5 DEF EdgeBound, graph_vars, GetEdge, Within, Known, Weight, Entry
    <3> DEFINE f == GetEdge(incidence_lists[v][i])
    <3>1. f.to \in Vertex /\ f.weight \in Int
      BY <1>1, EdgeType DEF IInv, GraphConsistent
    <3>2. CASE SlotRead(v, i)
      <4>1. f.weight >= 0 /\ Within(v, f.to, f.weight)
        BY <3>2 DEF IInv, EdgeBound
      <4>2. PICK y \in Vertex, c \in Int : y = f.to /\ c = f.weight
        BY <3>1
      <4>3. Within(v, y, c)'
        BY <4>1, <4>2, <2>4
      <4> QED
        BY <4>1, <4>2, <4>3, <1>5 DEF Within, Known, Weight, Entry, graph_vars,
           GetEdge
    <3>3. CASE v = r /\ i = slot
      <4>1. incidence_lists[v][i] = e
        BY <1>4, <3>3
      <4> QED
        BY <4>1, <1>4, <1>5, <1>8, <2>3, <3>3
        DEF Within, Known, Weight, Entry, graph_vars, GetEdge
    <3>4. SlotRead(v, i) \/ (v = r /\ i = slot)
      BY <1>1, <2>6 DEF TypeOK
    <3> QED
      BY <3>2, <3>3, <3>4
  <2>9. PrevSound'
    <3> SUFFICES ASSUME NEW u \in Vertex, NEW v \in Vertex, Known(u, v)', u # v
                 PROVE  (LET id   == Entry(u, v).prev_edge
                             edge == GetEdge(id)
                         IN  /\ id \in EdgeIds
                             /\ edge.to = v
                             /\ edge.weight >= 0
                             /\ Within(u, edge.from, Weight(u,
                                v) - edge.weight))'
      BY DEF PrevSound, Covered
    <3>1. CASE Entry(u, v)' = Entry(u, v)
      <4> DEFINE id == Entry(u, v).prev_edge
      <4>1. Known(u, v) /\ Pass = VertexCount /\ Weight(u, v) \in Nat
        BY <1>1, <3>1, EntryType DEF Pass, InRelax, Known
      <4>2. /\ id \in EdgeIds /\ GetEdge(id).to = v /\ GetEdge(id).weight >= 0
            /\ Within(u, GetEdge(id).from, Weight(u, v) - GetEdge(id).weight)
        BY <4>1, RouterAssumption DEF IInv, PrevSound, Covered
      <4>3. PICK x \in Vertex, c \in Int :
              x = GetEdge(id).from /\ c = Weight(u, v) - GetEdge(id).weight
        BY <1>1, <4>1, <4>2, EdgeType
      <4>4. Within(u, x, c)'
        BY <4>2, <4>3, <2>4
      <4> QED
        BY <3>1, <4>2, <4>3, <4>4, <1>5 DEF Within, Known, Weight, Entry,
           graph_vars, GetEdge, EdgeIds
    <3>2. CASE u = r /\ v = to /\ to # r /\ Entry(u, v)' = data
      <4>1. Entry(r, r)' = SelfRoute /\ SelfRoute # NoRoute
        BY <2>2, <2>3, NoRouteAssumption DEF SelfRoute, RouteInternalData
      <4>2. Within(r, r, 0)'
        BY <4>1 DEF Within, Known, Weight, SelfRoute
      <4>3. /\ Weight(u, v)' = w /\ Entry(u, v)'.prev_edge = e /\ e \in EdgeIds'
            /\ GetEdge(e)' = GetEdge(e)
        BY <3>2, <1>5 DEF Weight, EdgeIds, GetEdge, graph_vars
      <4> QED
        BY <3>2, <4>2, <4>3, <1>4, <1>8 DEF Within, GetEdge
    <3> QED
      BY <2>3, <3>1, <3>2
  <2> QED
    BY <1>6, <2>3, <2>5, <2>7, <2>8, <2>9 DEF IInv
<1> QED
  BY <1>4, <1>7, <1>8

(* The next pass begins: what the last one covered is in the table now.    *)
LEMMA RelaxNextThroughStep ==
  ASSUME IInv, RelaxNextThrough
  PROVE  IInv'
<1>1. PICK k \in Vertex : k = vertex_through
  BY RouterAssumption DEF IInv, TypeOK, RelaxNextThrough, Vertex
<1>2. /\ TypeOK /\ InTable /\ Pass = k /\ InTable' /\ InRelax
      /\ vertex_through' = k + 1 /\ Pass' = k + 1 /\ k + 1 \in Nat
      /\ Untouched /\ pc = "relax_from" /\ pc' = pc
  BY <1>1 DEF IInv, InTable, Pass, InRelax, RelaxNextThrough, Untouched, Vertex
<1>3. \A u, v \in Vertex : Processed(u, v)
  BY <1>2, RouterAssumption DEF RelaxNextThrough, Processed, Vertex
<1>4. ASSUME NEW u \in Vertex, NEW v \in Vertex, Known(u, k), Known(k, v)
      PROVE  Within(u, v, Weight(u, k) + Weight(k, v))
  <2>1. vertex_through < VertexCount
    BY DEF RelaxNextThrough
  <2> QED
    BY <1>1, <1>3, <1>4, <2>1 DEF IInv, PassClosed
<1>5. ASSUME NEW u \in Vertex, NEW v \in Vertex, NEW c \in Int,
             Covered(u, v, c, k)
      PROVE  Within(u, v, c)
  <2>1. CASE Within(u, v, c)
    BY <2>1
  <2>2. CASE Known(u, k) /\ Known(k, v) /\ Weight(u, k) + Weight(k, v) <= c
    <3>1. Within(u, v, Weight(u, k) + Weight(k, v))
      BY <1>4, <2>2
    <3>2. Weight(u, k) \in Nat /\ Weight(k, v) \in Nat /\ Weight(u, v) \in Nat
      BY <1>2, <2>2, <3>1, EntryType DEF Within
    <3> QED
      BY <2>2, <3>1, <3>2 DEF Within
  <2> QED
    BY <1>5, <2>1, <2>2 DEF Covered
<1>6. TypeOK' /\ LoopsInRange' /\ WalkConnected'
  BY <1>2, RouterAssumption DEF IInv, TypeOK, LoopsInRange, WalkConnected,
     RelaxNextThrough, InInit, Serving, PcValues, graph_vars, call_vars
<1>7. GraphConsistent'
  BY <1>2 DEF IInv, GraphConsistent, Untouched, graph_vars, EdgeIds, GetEdge
<1>8. Diagonal'
  BY <1>2 DEF IInv, Diagonal, Untouched, Entry, Known, Started
<1>9. EdgeBound'
  BY <1>2 DEF IInv, EdgeBound, Untouched, graph_vars, GetEdge, Within, Known,
     Entry, Weight, SlotRead
<1>10. PrevSound'
  <2> SUFFICES ASSUME NEW u \in Vertex, NEW v \in Vertex, Known(u, v), u # v
               PROVE  LET id   == Entry(u, v).prev_edge
                          edge == GetEdge(id)
                      IN  /\ id \in EdgeIds
                          /\ edge.to = v
                          /\ edge.weight >= 0
                          /\ Within(u, edge.from, Weight(u, v) - edge.weight)
    BY <1>2, PrevSoundUntouched
  <2> DEFINE id == Entry(u, v).prev_edge
  <2>1. /\ id \in EdgeIds /\ GetEdge(id).to = v /\ GetEdge(id).weight >= 0
        /\ Covered(u, GetEdge(id).from, Weight(u, v) - GetEdge(id).weight, k)
    BY <1>2 DEF IInv, PrevSound
  <2>2. /\ GetEdge(id).from \in Vertex
        /\ Weight(u, v) - GetEdge(id).weight \in Int
    BY <1>2, <2>1, EdgeType, EntryType
  <2> QED
    BY <2>1, <2>2, <1>5
<1>11. ClosedBelow'
  <2> SUFFICES ASSUME NEW u \in Vertex, NEW v \in Vertex, NEW m \in Vertex,
                      m < k + 1, Known(u, m), Known(m, v)
               PROVE  Within(u, v, Weight(u, m) + Weight(m, v))
    BY <1>2 DEF ClosedBelow, Untouched, Entry, Known, Covered, Within, Weight
  <2>1. CASE m = k
    BY <2>1, <1>4
  <2>2. CASE m < k
    <3>1. Covered(u, v, Weight(u, m) + Weight(m, v), k)
      BY <1>1, <1>2, <2>2 DEF IInv, ClosedBelow
    <3>2. Weight(u, m) + Weight(m, v) \in Int
      BY <1>2, EntryType
    <3> QED
      BY <3>1, <3>2, <1>5
  <2> QED
    BY <2>1, <2>2 DEF Vertex
<1>12. PassClosed'
  BY <1>2 DEF PassClosed, Processed, RelaxNextThrough, Vertex
<1> QED
  BY <1>6, <1>7, <1>8, <1>9, <1>10, <1>11, <1>12 DEF IInv

(* RelaxRoute replaces entries by entries.                                 *)
LEMMA RelaxKeepsKnown ==
  ASSUME TypeOK, LoopsInRange, RelaxTo, NEW u \in Vertex, NEW v \in Vertex,
         Known(u, v)
  PROVE  Known(u, v)'
<1>1. /\ vertex_from \in Vertex /\ vertex_to \in Vertex /\ vertex_through \in Vertex
      /\ Known(vertex_from, vertex_through)
  BY RouterAssumption DEF TypeOK, LoopsInRange, RelaxTo, Vertex
<1> DEFINE data == Relaxed(Entry(vertex_from, vertex_through),
                           Entry(vertex_through, vertex_to))
<1>2. CASE UNCHANGED routes_internal_data
  BY <1>2 DEF Known, Entry
<1>3. CASE Known(vertex_through, vertex_to) /\ Store(vertex_from, vertex_to,
   data)
  <2>1. /\ Entry(vertex_from, vertex_through) \in RouteInternalData
        /\ Entry(vertex_through, vertex_to) \in RouteInternalData
    BY <1>1, <1>3, EntryType
  <2>2. data # NoRoute
    BY <2>1, NoRouteAssumption DEF Relaxed, RouteInternalData
  <2> HIDE DEF data
  <2>3. Entry(u, v)' = data \/ Entry(u, v)' = Entry(u, v)
    BY <1>1, <1>3, StoreEntry
  <2> QED
    BY <2>2, <2>3 DEF Known
<1> QED
  BY <1>2, <1>3 DEF RelaxTo

(* The row and the column of the vertex of the pass are not written: their *)
(* entries could only be replaced by entries that are no shorter.          *)
LEMMA PassKeepsPivot ==
  ASSUME IInv, RelaxTo, NEW v \in Vertex
  PROVE  /\ routes_internal_data'[v][vertex_through] = Entry(v, vertex_through)
         /\ routes_internal_data'[vertex_through][v] = Entry(vertex_through, v)
<1>1. PICK r \in Vertex, t \in Vertex, k \in Vertex :
        r = vertex_from /\ t = vertex_to /\ k = vertex_through
  BY RouterAssumption DEF IInv, TypeOK, LoopsInRange, RelaxTo, Vertex
<1>2. TypeOK /\ Known(r, k) /\ InTable
  BY <1>1 DEF IInv, LoopsInRange, RelaxTo, InTable, InRelax
<1>3. \A u \in Vertex : Entry(u, u) = SelfRoute
  BY <1>2 DEF IInv, Diagonal, Started, SelfRoute
<1> DEFINE data == Relaxed(Entry(r, k), Entry(k, t))
<1>4. CASE UNCHANGED routes_internal_data
  BY <1>1, <1>4 DEF Entry
<1>5. CASE /\ Known(k, t) /\ ImprovesRelax(Entry(r, t), data.weight)
           /\ Store(r, t, data)
  <2>1. Weight(r, k) \in Nat /\ Weight(k, t) \in Nat
    BY <1>2, <1>5, EntryType
  <2>2. data.weight = Weight(r, k) + Weight(k, t)
    BY DEF Relaxed, Weight
  <2>3. Known(r, t) => data.weight < Weight(r, t)
    BY <1>5 DEF ImprovesRelax, Known, Weight
  <2>4. \A u \in Vertex : Known(u, u) /\ Weight(u, u) = 0
    BY <1>3, NoRouteAssumption DEF Known, Weight, SelfRoute, RouteInternalData
  <2>5. \A a, b \in Vertex :
          Entry(a, b)' = IF a = r /\ b = t THEN data ELSE Entry(a, b)
    BY <1>2, <1>5, StoreEntry
  <2> HIDE DEF data
  <2>6. r # k
    BY <1>5, <2>1, <2>2, <2>3, <2>4
  <2>7. t # k
    BY <1>2, <2>1, <2>2, <2>3, <2>4
  <2>8. Entry(v, k)' = Entry(v, k) /\ Entry(k, v)' = Entry(k, v)
    BY <2>5, <2>6, <2>7
  <2> QED
    BY <1>1, <2>8 DEF Entry
<1> QED
  BY <1>1, <1>4, <1>5 DEF RelaxTo

(* One pair is relaxed.  k is the vertex of the pass, r the row, t the     *)
(* column.                                                                 *)
LEMMA RelaxToStep ==
  ASSUME IInv, RelaxTo
  PROVE  IInv'
<1>1. PICK r \in Vertex, t \in Vertex, k \in Vertex :
        r = vertex_from /\ t = vertex_to /\ k = vertex_through
  BY RouterAssumption DEF IInv, TypeOK, LoopsInRange, RelaxTo, Vertex
<1>2. TypeOK /\ Known(r, k) /\ pc = "relax_to" /\ pc' = pc
  BY <1>1 DEF IInv, LoopsInRange, RelaxTo
<1>3. /\ UNCHANGED <<graph_vars, vertex_through, vertex_from, slot, call_vars>>
      /\ vertex_to' = t + 1
  BY <1>1 DEF RelaxTo
<1>4. /\ InTable /\ InTable' /\ Pass = k /\ Pass' = k
      /\ InRelax /\ k < VertexCount /\ k \in Nat
  BY <1>1, <1>2, <1>3, RouterAssumption DEF InTable, Pass, InRelax, Vertex
<1>5. \A u, v \in Vertex : Processed(u, v)' <=> Processed(u,
   v) \/ (u = r /\ v = t)
  BY <1>1, <1>2, <1>3, <1>4, RouterAssumption DEF Processed, InRelax, Vertex
<1>6. \A u \in Vertex : Entry(u, u) = SelfRoute
  BY <1>4 DEF IInv, Diagonal, Started, SelfRoute
<1>7. LoopsInRange' /\ WalkConnected' /\ GraphConsistent'
  <2>1. WalkConnected' /\ GraphConsistent'
    BY <1>2, <1>3 DEF IInv, WalkConnected, GraphConsistent, graph_vars, EdgeIds,
       GetEdge
  <2>2. \A u, v \in Vertex : Known(u, v) => Known(u, v)'
    BY RelaxKeepsKnown DEF IInv
  <2>3. Known(r, k)'
    BY <1>2, <2>2
  <2> QED
    BY <1>1, <1>2, <1>3, <1>4, <2>1, <2>3 DEF IInv, LoopsInRange, InInit,
       InRelax, Serving, Known, Entry
<1> DEFINE data == Relaxed(Entry(r, k), Entry(k, t))
           Better == Known(k, t) /\ ImprovesRelax(Entry(r, t), data.weight)
<1>8. CASE ~ Better
  <2>1. UNCHANGED routes_internal_data
    BY <1>1, <1>8 DEF RelaxTo
  <2>2. TypeOK'
    BY <1>1, <1>2, <1>3, <2>1, RouterAssumption, SMTT(30)
       DEF TypeOK, Vertex, graph_vars, call_vars
  <2>3. PassClosed'
    <3> SUFFICES ASSUME NEW u \in Vertex, NEW v \in Vertex, Processed(u, v)',
                        Known(u, k), Known(k, v)
                 PROVE  Within(u, v, Weight(u, k) + Weight(k, v))
      BY <1>1, <1>3, <2>1 DEF PassClosed, Known, Entry, Within, Weight
    <3>1. CASE Processed(u, v)
      BY <3>1, <1>1, <1>4 DEF IInv, PassClosed
    <3>2. CASE u = r /\ v = t
      <4>1. ~ ImprovesRelax(Entry(r, t), Weight(r, k) + Weight(k, t))
        BY <1>8, <3>2 DEF Relaxed, Weight
      <4>2. Known(r, t) /\ ~ (Weight(r, k) + Weight(k, t) < Weight(r, t))
        BY <4>1 DEF ImprovesRelax, Known, Weight
      <4>3. Weight(r, k) \in Nat /\ Weight(k, t) \in Nat /\ Weight(r, t) \in Nat
        BY <1>2, <3>2, <4>2, EntryType
      <4> QED
        BY <3>2, <4>2, <4>3 DEF Within
    <3> QED
      BY <1>5, <3>1, <3>2
  <2>4. /\ Untouched
        /\ \A v \in Vertex : Started(v)' <=> Started(v)
        /\ \A v \in Vertex : \A i \in 1 .. Len(incidence_lists[v]) :
             SlotRead(v, i)' => SlotRead(v, i)
        /\ vertex_through' = vertex_through
    BY <1>3, <1>4, <2>1 DEF Untouched, Started, SlotRead
  <2> QED
    BY <1>4, <1>7, <2>2, <2>3, <2>4, QuietStep
<1>9. CASE Better
  <2>1. Store(r, t, data)
    BY <1>1, <1>9 DEF RelaxTo
  <2>2. \A a, b \in Vertex :
          Entry(a, b)' = IF a = r /\ b = t THEN data ELSE Entry(a, b)
    BY <1>2, <2>1, StoreEntry
  <2>3. Known(k, t) /\ Weight(r, k) \in Nat /\ Weight(k, t) \in Nat
    BY <1>2, <1>9, EntryType
  <2>4. data \in RouteInternalData /\ data.weight = Weight(r, k) + Weight(k, t)
    <3>1. Entry(r, k) \in RouteInternalData /\ Entry(k, t) \in RouteInternalData
      BY <1>2, <2>3, EntryType
    <3> QED
      BY <3>1, <2>3 DEF Relaxed, Weight, RouteInternalData
  <2>5. data # NoRoute
    BY <2>4, NoRouteAssumption
  <2>6. Known(r, t) => data.weight < Weight(r, t)
    BY <1>9 DEF ImprovesRelax, Known, Weight
  <2> HIDE DEF data, Better
  <2>7. \A u \in Vertex : Known(u, u) /\ Weight(u, u) = 0
    BY <1>6, NoRouteAssumption DEF Known, Weight, SelfRoute, RouteInternalData
  <2>8. r # t /\ r # k /\ t # k
    <3>1. r # t
      BY <2>3, <2>4, <2>6, <2>7
    <3>2. r # k
      BY <2>3, <2>4, <2>6, <2>7
    <3>3. t # k
      BY <1>2, <2>3, <2>4, <2>6, <2>7
    <3> QED
      BY <3>1, <3>2, <3>3
  <2>9. /\ \A a, b \in Vertex : a # r \/ b # t => Entry(a, b)' = Entry(a, b)
        /\ \A v \in Vertex : Entry(v, k)' = Entry(v, k) /\ Entry(k,
           v)' = Entry(k, v)
        /\ Entry(r, t)' = data
    BY <2>2, <2>8
  <2>10. /\ Known(r, t)' /\ Weight(r, t)' = Weight(r, k) + Weight(k, t)
         /\ \A a, b \in Vertex : a # r \/ b # t =>
              (Known(a, b)' <=> Known(a, b)) /\ Weight(a, b)' = Weight(a, b)
    BY <2>4, <2>5, <2>9 DEF Known, Weight
  <2>11. TypeOK'
    <3>1. routes_internal_data' \in
            [Vertex -> [Vertex -> RouteInternalData \cup {NoRoute}]]
      BY <1>2, <2>1, <2>4, StoreType
    <3>2. vertex_to' \in 0 .. VertexCount
      BY <1>3, RouterAssumption DEF Vertex
    <3>3. UNCHANGED <<edges, incidence_lists, pc, vertex_through, vertex_from,
                      slot, query, edge_id, route, answer>>
      BY <1>2, <1>3 DEF graph_vars, call_vars
    <3> QED
      BY <1>2, <3>1, <3>2, <3>3 DEF TypeOK
  <2>12. Improving
    <3>1. \A a, b \in Vertex : Known(a, b) => Weight(a, b) \in Nat
      BY <1>2, EntryType
    <3> QED
      BY <2>3, <2>4, <2>6, <2>10, <3>1 DEF Improving
  <2>13. Diagonal'
    <3>1. Entry(r, t)'.prev_edge # NoEdge
      <4>1. Entry(k, t).prev_edge # NoEdge
        BY <2>3, <2>8 DEF IInv, Diagonal
      <4> QED
        BY <4>1, <2>9 DEF data, Relaxed
    <3>2. \A v \in Vertex : Started(v) /\ Started(v)'
      BY <1>4 DEF Started
    <3>3. ASSUME NEW u \in Vertex, NEW v \in Vertex, Known(u, v)'
          PROVE  Entry(u, v)'.prev_edge = NoEdge <=> u = v
      <4>1. CASE u = r /\ v = t
        BY <4>1, <3>1, <2>8
      <4>2. CASE u # r \/ v # t
        BY <3>3, <4>2, <2>9, <2>10 DEF IInv, Diagonal
      <4> QED
        BY <4>1, <4>2
    <3>4. \A u \in Vertex : Entry(u, u)' = SelfRoute
      BY <1>6, <2>8, <2>9
    <3> QED
      BY <3>2, <3>3, <3>4 DEF Diagonal, SelfRoute
  <2>14. EdgeBound'
    <3> SUFFICES ASSUME NEW v \in Vertex, NEW i \in 1 .. Len(incidence_lists[v])
                 PROVE  LET edge == GetEdge(incidence_lists[v][i])
                        IN  edge.weight >= 0 /\ Within(v, edge.to, edge.weight)'
      BY <1>3 DEF EdgeBound, graph_vars, GetEdge, Within, Known, Weight, Entry
    <3> DEFINE f == GetEdge(incidence_lists[v][i])
    <3>1. PICK y \in Vertex, c \in Int : y = f.to /\ c = f.weight
      BY <1>2, EdgeType DEF IInv, GraphConsistent
    <3>2. f.weight >= 0 /\ Within(v, y, c)
      BY <3>1, <1>4 DEF IInv, EdgeBound, SlotRead
    <3>3. Within(v, y, c)'
      BY <1>2, <2>11, <2>12, <3>2, WithinKept
    <3> QED
      BY <3>1, <3>2, <3>3, <1>3 DEF Within, Known, Weight, Entry, graph_vars,
         GetEdge
  <2>15. PrevSound'
    <3> SUFFICES ASSUME NEW u \in Vertex, NEW v \in Vertex, Known(u, v)', u # v
                 PROVE  (LET id   == Entry(u, v).prev_edge
                             edge == GetEdge(id)
                         IN  /\ id \in EdgeIds
                             /\ edge.to = v
                             /\ edge.weight >= 0
                             /\ Covered(u, edge.from,
                                        Weight(u, v) - edge.weight, k))'
      BY <1>4 DEF PrevSound
    <3>1. ASSUME NEW a \in Vertex, NEW b \in Vertex, Known(a, b), a # b
          PROVE  \E e \in EdgeIds, x \in Vertex, w \in Int :
                   /\ e = Entry(a, b).prev_edge /\ x = GetEdge(e).from
                   /\ GetEdge(e).to = b /\ w = GetEdge(e).weight /\ w >= 0
                   /\ Weight(a, b) \in Nat
                   /\ Covered(a, x, Weight(a, b) - w, k)
      <4> DEFINE e == Entry(a, b).prev_edge
      <4>1. /\ e \in EdgeIds /\ GetEdge(e).to = b /\ GetEdge(e).weight >= 0
            /\ Covered(a, GetEdge(e).from, Weight(a, b) - GetEdge(e).weight, k)
        BY <1>2, <1>4, <3>1 DEF IInv, PrevSound
      <4>2. GetEdge(e).from \in Vertex /\ GetEdge(e).weight \in Int
        BY <1>2, <4>1, EdgeType
      <4>3. Weight(a, b) \in Nat
        BY <1>2, <3>1, EntryType
      <4>4. e = Entry(a, b).prev_edge
        OBVIOUS
      <4> HIDE DEF e
      <4> QED
        BY <4>1, <4>2, <4>3, <4>4
    <3>2. ASSUME NEW e \in EdgeIds
          PROVE  e \in EdgeIds' /\ GetEdge(e)' = GetEdge(e)
      BY <1>3 DEF EdgeIds, GetEdge, graph_vars
    <3>3. CASE u # r \/ v # t
      <4>1. Known(u, v) /\ Entry(u, v)' = Entry(u, v) /\ Weight(u,
         v)' = Weight(u, v)
        BY <3>3, <2>9, <2>10
      <4>2. PICK e \in EdgeIds, x \in Vertex, w \in Int :
              /\ e = Entry(u, v).prev_edge /\ x = GetEdge(e).from
              /\ GetEdge(e).to = v /\ w = GetEdge(e).weight /\ w >= 0
              /\ Weight(u, v) \in Nat
              /\ Covered(u, x, Weight(u, v) - w, k)
        BY <3>1, <4>1
      <4>3. PICK c \in Int : c = Weight(u, v) - w
        BY <4>2
      <4>4. Covered(u, x, c, k)'
        BY <1>2, <1>4, <2>11, <2>12, <4>2, <4>3, CoverKept
      <4>5. /\ Entry(u, v)'.prev_edge = e /\ e \in EdgeIds'
            /\ GetEdge(e)' = GetEdge(e) /\ c = Weight(u, v)' - w
        BY <3>2, <4>1, <4>2, <4>3
      <4> QED
        BY <4>2, <4>4, <4>5 DEF GetEdge, Covered, Within
    <3>4. CASE u = r /\ v = t
      <4>1. PICK e \in EdgeIds, x \in Vertex, w \in Int :
              /\ e = Entry(k, t).prev_edge /\ x = GetEdge(e).from
              /\ GetEdge(e).to = t /\ w = GetEdge(e).weight /\ w >= 0
              /\ Weight(k, t) \in Nat
              /\ Covered(k, x, Weight(k, t) - w, k)
        BY <3>1, <2>3, <2>8
      <4>2. Known(k, x) /\ Weight(k, x) <= Weight(k, t) - w /\ Weight(k,
         x) \in Nat
        <5>1. Known(k, x)
          BY <4>1 DEF Covered, Within
        <5>2. Weight(k, x) \in Nat
          BY <1>2, <5>1, EntryType
        <5> QED
          BY <4>1, <5>1, <5>2, <2>7 DEF Covered, Within
      <4>3. PICK c \in Int : c = Weight(r, k) + Weight(k, t) - w
        BY <2>3
      <4>4. Covered(r, x, c, k)'
        <5>1. Known(r, k)' /\ Known(k, x)'
          BY <1>2, <4>2, <2>8, <2>10
        <5>2. Weight(r, k)' = Weight(r, k) /\ Weight(k, x)' = Weight(k, x)
          BY <2>8, <2>10
        <5>3. Weight(r, k)' + Weight(k, x)' <= c
          BY <5>2, <4>2, <4>3, <2>3
        <5> QED
          BY <5>1, <5>3, <1>4 DEF Covered
      <4>5. Entry(r, t)'.prev_edge = e
        <5>1. Entry(k, t).prev_edge # NoEdge
          BY <2>3, <2>8 DEF IInv, Diagonal
        <5> QED
          BY <4>1, <5>1, <2>9 DEF data, Relaxed
      <4>6. /\ e \in EdgeIds' /\ GetEdge(e)' = GetEdge(e)
            /\ c = Weight(r, t)' - w
        <5>1. e \in EdgeIds' /\ GetEdge(e)' = GetEdge(e)
          BY <3>2
        <5>2. c = Weight(r, t)' - w
          BY <4>3, <2>3, <2>10
        <5> QED
          BY <5>1, <5>2
      <4> QED
        BY <3>4, <4>1, <4>4, <4>5, <4>6 DEF GetEdge, Covered, Within
    <3> QED
      BY <3>3, <3>4
  <2>16. \A a, b \in Vertex : Known(a, b) => Weight(a, b) \in Nat
    BY <1>2, EntryType
  <2>17. ASSUME NEW a \in Vertex, NEW c \in Int, Covered(a, k, c, k)
         PROVE  Within(a, k, c)
    BY <2>7, <2>16, <2>17 DEF Covered, Within
  <2>18. ASSUME NEW b \in Vertex, NEW c \in Int, Covered(k, b, c, k)
         PROVE  Within(k, b, c)
    BY <2>7, <2>16, <2>18 DEF Covered, Within
  <2>19. \A u, v, m \in Vertex : m < k /\ Known(u, m) /\ Known(m, v) =>
           Covered(u, v, Weight(u, m) + Weight(m, v), k)
    BY <1>1, <1>4 DEF IInv, ClosedBelow
  <2>20. ClosedBelow'
    <3> SUFFICES ASSUME NEW u \in Vertex, NEW v \in Vertex, NEW m \in Vertex,
                        m < k, Known(u, m)', Known(m, v)'
                 PROVE  Covered(u, v, Weight(u, m) + Weight(m, v), k)'
      BY <1>1, <1>3 DEF ClosedBelow
    <3>1. CASE ~ (u = r /\ m = t) /\ ~ (m = r /\ v = t)
      <4>1. /\ Known(u, m) /\ Weight(u, m)' = Weight(u, m)
            /\ Known(m, v) /\ Weight(m, v)' = Weight(m, v)
        BY <3>1, <2>10
      <4>2. PICK c \in Int : c = Weight(u, m) + Weight(m, v)
        BY <4>1, <2>16
      <4>3. Covered(u, v, c, k)'
        BY <1>2, <1>4, <2>11, <2>12, <2>19, <4>1, <4>2, CoverKept
      <4>4. c = Weight(u, m)' + Weight(m, v)'
        BY <4>1, <4>2
      <4> QED
        BY <4>3, <4>4 DEF Covered, Within
    <3>2. CASE u = r /\ m = t
      <4>1. Known(t, v) /\ Weight(t, v)' = Weight(t, v)
        BY <3>2, <2>8, <2>10
      <4>2. PICK c \in Int : c = Weight(k, t) + Weight(t, v)
        BY <4>1, <2>3, <2>16
      <4>3. Within(k, v, c)
        BY <2>3, <2>18, <2>19, <3>2, <4>1, <4>2
      <4>4. Known(k, v) /\ Weight(k, v) \in Nat /\ Weight(k, v) <= c
        BY <4>3, <2>16 DEF Within
      <4>5. /\ Known(r, k)' /\ Weight(r, k)' = Weight(r, k)
            /\ Known(k, v)' /\ Weight(k, v)' = Weight(k, v)
        BY <1>2, <4>4, <2>8, <2>10
      <4>6. Weight(t, v) \in Nat
        BY <4>1, <2>16
      <4>7. Weight(r, k)' + Weight(k, v)' <= Weight(u, m)' + Weight(m, v)'
        BY <3>2, <4>1, <4>2, <4>4, <4>5, <4>6, <2>3, <2>10
      <4> QED
        BY <3>2, <4>5, <4>7, <1>4 DEF Covered
    <3>3. CASE m = r /\ v = t
      <4>1. Known(u, r) /\ Weight(u, r)' = Weight(u, r)
        BY <3>3, <2>8, <2>10
      <4>2. PICK c \in Int : c = Weight(u, r) + Weight(r, k)
        BY <4>1, <2>3, <2>16
      <4>3. Within(u, k, c)
        BY <1>2, <2>17, <2>19, <3>3, <4>1, <4>2
      <4>4. Known(u, k) /\ Weight(u, k) \in Nat /\ Weight(u, k) <= c
        BY <4>3, <2>16 DEF Within
      <4>5. /\ Known(u, k)' /\ Weight(u, k)' = Weight(u, k)
            /\ Known(k, t)' /\ Weight(k, t)' = Weight(k, t)
        BY <2>3, <4>4, <2>8, <2>10
      <4>6. Weight(u, r) \in Nat
        BY <4>1, <2>16
      <4>7. Weight(u, k)' + Weight(k, t)' <= Weight(u, m)' + Weight(m, v)'
        BY <3>3, <4>1, <4>2, <4>4, <4>5, <4>6, <2>3, <2>10
      <4> QED
        BY <3>3, <4>5, <4>7, <1>4 DEF Covered
    <3> QED
      BY <3>1, <3>2, <3>3
  <2>21. PassClosed'
    <3> SUFFICES ASSUME NEW u \in Vertex, NEW v \in Vertex, Processed(u, v)',
                        Known(u, k)', Known(k, v)'
                 PROVE  Within(u, v, Weight(u, k) + Weight(k, v))'
      BY <1>1, <1>3 DEF PassClosed
    <3>1. CASE u = r /\ v = t
      <4>1. /\ Weight(r, k)' = Weight(r, k) /\ Weight(k, t)' = Weight(k, t)
            /\ Known(r, t)' /\ Weight(r, t)' = Weight(r, k) + Weight(k, t)
        BY <2>8, <2>10
      <4> QED
        BY <3>1, <4>1, <2>3 DEF Within
    <3>2. CASE Processed(u, v)
      <4>1. /\ Known(u, k) /\ Weight(u, k)' = Weight(u, k)
            /\ Known(k, v) /\ Weight(k, v)' = Weight(k, v)
        BY <2>8, <2>10
      <4>2. PICK c \in Int : c = Weight(u, k) + Weight(k, v)
        BY <4>1, <2>16
      <4>3. Within(u, v, c)
        BY <3>2, <4>1, <4>2, <1>1, <1>4 DEF IInv, PassClosed
      <4>4. Within(u, v, c)'
        BY <1>2, <2>11, <2>12, <4>3, WithinKept
      <4>5. c = Weight(u, k)' + Weight(k, v)'
        BY <4>1, <4>2
      <4> QED
        BY <4>4, <4>5 DEF Within
    <3> QED
      BY <1>5, <3>1, <3>2
  <2> QED
    BY <1>7, <2>11, <2>13, <2>14, <2>15, <2>20, <2>21 DEF IInv
<1> QED
  BY <1>8, <1>9

-----------------------------------------------------------------------------
(* IInv is an invariant of the router, for every number of vertices, every *)
(* set of weights and every graph.                                         *)
THEOREM Invariance == Spec => []IInv
<1>1. Init => IInv
  BY InitInvariant
<1>2. IInv /\ [Next]_vars => IInv'
  <2> SUFFICES ASSUME IInv, [Next]_vars PROVE IInv'
    OBVIOUS
  <2>1. CASE \E from, to \in Vertex, weight \in Weights : AddEdge(from, to,
     weight)
    BY <2>1, AddEdgeStep
  <2>2. CASE ConstructRouter
    BY <2>2, ConstructRouterStep
  <2>3. CASE Construct
    BY <2>3, InitVertexStep, InitEdgeStep, InitNextVertexStep, InitDoneStep,
       RelaxFromStep, RelaxToStep, RelaxNextFromStep, RelaxNextThroughStep,
       RelaxDoneStep DEF Construct
  <2>4. CASE \E from, to \in Vertex : CallBuildRoute(from, to)
    BY <2>4, CallBuildRouteStep
  <2>5. CASE BuildRoute
    BY <2>5, RouteMissingStep, RouteFoundStep, WalkBackStep, ReturnRouteStep
    DEF BuildRoute
  <2>6. CASE UNCHANGED vars
    <3>1. /\ Untouched /\ UNCHANGED <<pc, loop_vars, call_vars>>
      BY <2>6 DEF vars, Untouched
    <3>2. TypeOK' /\ LoopsInRange' /\ WalkConnected' /\ PassClosed'
      BY <3>1 DEF IInv, TypeOK, LoopsInRange, WalkConnected, PassClosed,
         Processed, InInit, InRelax, Serving, Untouched, graph_vars, loop_vars,
         call_vars, Known, Entry, Weight, Within, OnTable, EdgeIds, GetEdge,
         WalkPosition
    <3>3. /\ \A v \in Vertex : Started(v)' <=> Started(v)
          /\ \A v \in Vertex : \A i \in 1 .. Len(incidence_lists[v]) :
               SlotRead(v, i)' => SlotRead(v, i)
          /\ Pass' = Pass
          /\ InTable' => InTable /\ vertex_through' = vertex_through
      BY <3>1 DEF Started, SlotRead, Pass, InTable, InInit, InRelax, Serving,
         loop_vars
    <3> QED
      BY <3>1, <3>2, <3>3, QuietStep
  <2> QED
    BY <2>1, <2>2, <2>3, <2>4, <2>5, <2>6 DEF Next
<1> QED
  BY <1>1, <1>2, PTL DEF Spec

(* Every variable keeps its type.                                          *)
THEOREM TypeCorrect == Spec => []TypeOK
<1>1. IInv => TypeOK
  BY DEF IInv
<1> QED
  BY <1>1, Invariance, PTL

(* When the constructor is done its table is a table of shortest routes.   *)
THEOREM TableCorrect == Spec => []TableOptimal
<1>1. IInv => TableOptimal
  BY TableFacts DEF TableOptimal, SelfRoute
<1> QED
  BY <1>1, Invariance, PTL

(* BuildRoute never dereferences an empty optional.                        *)
THEOREM NoUndefinedRead == Spec => []NeverUndefined
<1>1. Init => NeverUndefined
  BY DEF Init, NeverUndefined
<1>2. IInv /\ NeverUndefined /\ [Next]_vars => NeverUndefined'
  <2> SUFFICES ASSUME IInv, NeverUndefined, [Next]_vars PROVE NeverUndefined'
    OBVIOUS
  <2>1. CASE WalkBack
    BY <2>1, WalkBackEdge DEF WalkBack, NeverUndefined
  <2>2. CASE ~ WalkBack
    BY <2>2 DEF NeverUndefined, Next, vars, Construct, BuildRoute, AddEdge,
       ConstructRouter, InitVertex, InitEdge, InitNextVertex, InitDone,
       RelaxFrom, RelaxTo, RelaxNextFrom, RelaxNextThrough, RelaxDone,
       CallBuildRoute, RouteMissing, RouteFound, ReturnRoute
  <2> QED
    BY <2>1, <2>2
<1> QED
  BY <1>1, <1>2, Invariance, PTL DEF Spec

(* The references that RelaxRoute is handed stay valid: the row and the    *)
(* column of vertex_through are not written while its pass runs.           *)
THEOREM PivotIsFrozen == Spec => PivotFrozen
<1>1. ASSUME IInv, [Next]_vars, pc = "relax_to", NEW v \in Vertex
      PROVE  /\ routes_internal_data'[v][vertex_through]
                   = Entry(v, vertex_through)
             /\ routes_internal_data'[vertex_through][v]
                   = Entry(vertex_through, v)
  <2>1. CASE UNCHANGED routes_internal_data
    BY <2>1 DEF Entry
  <2>2. CASE RelaxTo
    BY <1>1, <2>2, PassKeepsPivot
  <2>3. UNCHANGED routes_internal_data \/ RelaxTo
    BY <1>1 DEF Next, vars, Construct, BuildRoute, AddEdge,
       ConstructRouter, InitVertex, InitEdge, InitNextVertex, InitDone,
       RelaxFrom, RelaxNextFrom, RelaxNextThrough, RelaxDone,
       CallBuildRoute, RouteMissing, RouteFound, WalkBack, ReturnRoute
  <2> QED
    BY <2>1, <2>2, <2>3
<1>2. IInv /\ [Next]_vars =>
        [pc = "relax_to" =>
           \A v \in Vertex :
             /\ routes_internal_data'[v][vertex_through]
                  = Entry(v, vertex_through)
             /\ routes_internal_data'[vertex_through][v]
                  = Entry(vertex_through, v)]_vars
  BY <1>1
<1> QED
  BY <1>2, Invariance, PTL DEF Spec, PivotFrozen

-----------------------------------------------------------------------------
(* What BuildRoute returns.                                                *)

(* No answer stands while a call is under way or the table is built.       *)
AnswerInv == AnswerIsWalk /\ (pc # "ready" => answer = NoAnswer)

(* The reverse of the collected edges is a walk from the origin.           *)
LEMMA ReturnedWalk ==
  ASSUME IInv, ReturnRoute
  PROVE  AnswerIsWalk'
<1> DEFINE s == Reversed(route)
           n == Len(route)
<1>1. /\ TypeOK /\ pc = "walk" /\ n \in Nat /\ route \in Seq(Nat)
      /\ query[1] \in Vertex /\ query[2] \in Vertex
  BY DEF IInv, TypeOK, ReturnRoute
<1>2. /\ Len(s) = n
      /\ \A i \in 1 .. n : s[i] = route[n + 1 - i]
  BY <1>1 DEF Reversed
<1>3. /\ \A i \in 1 .. n : OnTable(query[1], route[i])
      /\ \A i \in 1 .. n :
           GetEdge(route[i]).to =
             IF i = 1 THEN query[2] ELSE GetEdge(route[i - 1]).from
      /\ Known(query[1], WalkPosition)
      /\ Entry(query[1], WalkPosition).prev_edge = NoEdge
  BY <1>1 DEF IInv, WalkConnected, ReturnRoute
<1>4. WalkPosition = query[1]
  <2>1. WalkPosition \in Vertex
    <3>1. CASE route = <<>>
      BY <3>1, <1>1 DEF WalkPosition
    <3>2. CASE route # <<>>
      <4>1. n \in 1 .. n
        BY <1>1, <3>2
      <4>2. route[n] \in EdgeIds
        BY <4>1, <1>3 DEF OnTable
      <4> QED
        BY <3>2, <4>2, <1>1, EdgeType DEF WalkPosition
    <3> QED
      BY <3>1, <3>2
  <2> QED
    BY <2>1, <1>1, <1>3 DEF IInv, Diagonal
<1> HIDE DEF s
<1>5. \A i \in 1 .. n : OnTable(query[1], s[i])
  <2> SUFFICES ASSUME NEW i \in 1 .. n PROVE OnTable(query[1], s[i])
    OBVIOUS
  <2>1. n + 1 - i \in 1 .. n
    BY <1>1
  <2>2. OnTable(query[1], route[n + 1 - i])
    BY <2>1, <1>3
  <2>3. s[i] = route[n + 1 - i]
    BY <1>2
  <2> QED
    BY <2>2, <2>3
<1>6. \A i \in 1 .. n :
        GetEdge(s[i]).from = IF i = 1 THEN query[1] ELSE GetEdge(s[i - 1]).to
  <2> SUFFICES ASSUME NEW i \in 1 .. n
               PROVE  GetEdge(s[i]).from =
                        IF i = 1 THEN query[1] ELSE GetEdge(s[i - 1]).to
    OBVIOUS
  <2>1. CASE i = 1
    <3>1. s[i] = route[n] /\ route # <<>>
      BY <1>1, <1>2, <2>1
    <3> QED
      BY <2>1, <3>1, <1>4 DEF WalkPosition
  <2>2. CASE i # 1
    <3>1. i - 1 \in 1 .. n /\ n + 1 - (i - 1) \in 2 .. n
      BY <1>1, <2>2
    <3> DEFINE j == n + 1 - (i - 1)
    <3>2. s[i] = route[j - 1]
      BY <1>1, <1>2, <3>1
    <3>3. s[i - 1] = route[j]
      BY <1>2, <3>1
    <3>4. GetEdge(route[j]).to = GetEdge(route[j - 1]).from
      <4>1. j \in 1 .. n /\ j # 1
        BY <1>1, <3>1
      <4> HIDE DEF j
      <4> QED
        BY <4>1, <1>3
    <3> QED
      BY <2>2, <3>2, <3>3, <3>4
  <2> QED
    BY <2>1, <2>2
<1>7. query[2] = IF s = <<>> THEN query[1] ELSE GetEdge(s[Len(s)]).to
  <2>1. CASE s = <<>>
    <3>1. route = <<>>
      BY <2>1, <1>1, <1>2
    <3> QED
      BY <2>1, <3>1, <1>4 DEF WalkPosition
  <2>2. CASE s # <<>>
    <3>1. n # 0
      BY <2>2, <1>1 DEF s, Reversed
    <3>2. n \in 1 .. n /\ 1 \in 1 .. n
      BY <3>1, <1>1
    <3>3. s[Len(s)] = route[1]
      BY <1>1, <1>2, <3>2
    <3>4. GetEdge(route[1]).to = query[2]
      BY <1>3, <3>2
    <3> QED
      BY <2>2, <3>3, <3>4
  <2> QED
    BY <2>1, <2>2
<1>8. /\ answer'.weight = Weight(query[1], query[2]) /\ answer'.edges = s
      /\ UNCHANGED <<graph_vars, routes_internal_data, query>>
  BY DEF ReturnRoute, s
<1>9. Known(query[1], query[2]) /\ answer' \in RouteInfo
  <2>1. Known(query[1], query[2])
    BY <1>1, QueryKnown
  <2>2. Weight(query[1], query[2]) \in Nat
    BY <1>1, <2>1, EntryType
  <2>3. s \in Seq(Nat)
    BY <1>1 DEF s, Reversed
  <2> QED
    BY <2>1, <2>2, <2>3 DEF ReturnRoute, RouteInfo, s
<1>10. \A e : /\ GetEdge(e)' = GetEdge(e)
              /\ OnTable(query[1], e)' <=> OnTable(query[1], e)
  BY <1>8 DEF GetEdge, OnTable, EdgeIds, graph_vars, Known, Weight, Entry
<1>11. (Known(query[1], query[2]))' /\ (Weight(query[1],
   query[2]))' = Weight(query[1], query[2])
  BY <1>8, <1>9 DEF Known, Weight, Entry
<1>12. answer' # NoRoute
  BY <1>9, NoRouteAssumption
<1> QED
  BY <1>2, <1>5, <1>6, <1>7, <1>8, <1>10, <1>11, <1>12
  DEF AnswerIsWalk, GetEdge, graph_vars

(* Answers stand only in between calls, and are walks.                     *)
LEMMA AnswersHold == Spec => []AnswerInv
<1>1. Init => AnswerInv
  BY NoRouteAssumption DEF Init, AnswerInv, AnswerIsWalk
<1>2. IInv /\ AnswerInv /\ [Next]_vars => AnswerInv'
  <2> SUFFICES ASSUME IInv, AnswerInv, [Next]_vars PROVE AnswerInv'
    OBVIOUS
  <2>1. CASE pc # "ready" /\ answer' = NoAnswer
    BY <2>1, NoRouteAssumption DEF AnswerInv, AnswerIsWalk
  <2>2. CASE ReturnRoute
    <3>1. AnswerIsWalk'
      BY <2>2, ReturnedWalk
    <3> QED
      BY <2>2, <3>1 DEF ReturnRoute, AnswerInv
  <2>3. CASE RouteMissing
    BY <2>3, NoRouteAssumption DEF RouteMissing, AnswerInv, AnswerIsWalk, Known,
       Entry
  <2>4. CASE \E from, to \in Vertex : CallBuildRoute(from, to)
    BY <2>4, NoRouteAssumption DEF CallBuildRoute, AnswerInv, AnswerIsWalk
  <2>5. CASE UNCHANGED vars
    <3>1. UNCHANGED <<edges, incidence_lists, routes_internal_data, pc, query,
                      answer>>
      BY <2>5 DEF vars, graph_vars, call_vars
    <3> QED
      BY <3>1 DEF AnswerInv, AnswerIsWalk, OnTable, EdgeIds, GetEdge, Known,
         Weight, Entry
  <2>6. CASE Construct \/ ConstructRouter \/ RouteFound \/ WalkBack
             \/ \E from, to \in Vertex, weight \in Weights :
                  AddEdge(from, to, weight)
    <3>1. (pc # "ready" /\ pc' # "ready") \/ RelaxDone
      BY <2>6 DEF Construct, ConstructRouter, RouteFound, WalkBack, AddEdge,
         InitVertex, InitEdge, InitNextVertex, InitDone, RelaxFrom, RelaxTo,
         RelaxNextFrom, RelaxNextThrough
    <3>2. answer' = answer /\ pc # "ready"
      BY <2>6 DEF Construct, ConstructRouter, RouteFound, WalkBack, AddEdge,
         InitVertex, InitEdge, InitNextVertex, InitDone, RelaxFrom, RelaxTo,
         RelaxNextFrom, RelaxNextThrough, RelaxDone, call_vars
    <3> QED
      BY <3>2, NoRouteAssumption DEF AnswerInv, AnswerIsWalk
  <2> QED
    BY <2>2, <2>3, <2>4, <2>5, <2>6 DEF Next, BuildRoute
<1> QED
  BY <1>1, <1>2, Invariance, PTL DEF Spec

(* A route that BuildRoute returns is a walk of the graph between the      *)
(* vertices asked for, whose edges account for the weight returned.        *)
THEOREM AnswersAreWalks == Spec => []AnswerIsWalk
<1>1. AnswerInv => AnswerIsWalk
  BY DEF AnswerInv
<1> QED
  BY <1>1, AnswersHold, PTL

-----------------------------------------------------------------------------
(* The walk of BuildRoute never comes back to a vertex, although edges may *)
(* weigh nothing.  The weights of the table alone cannot show it; what     *)
(* does is that entries can be given ranks such that each entry lies above *)
(* the one its last edge leads back to, by weight or, if the edge weighs   *)
(* nothing, by rank.  A pass raises the ranks of the entries it stores     *)
(* above those of all entries it found: base is a bound on the latter.     *)
Ranks == [Vertex -> [Vertex -> Nat]]

(* The entry of u and x explains a weight c of rank r.                     *)
LiesBelow(rank, u, x, c, r) ==
  /\ Known(u, x)
  /\ Weight(u, x) < c \/ (Weight(u, x) = c /\ rank[u][x] < r)

(* So will the entry that the pass of k is about to store.                 *)
WillLieBelow(base, rank, u, x, c, r, k) ==
  /\ k < VertexCount
  /\ Known(u, k) /\ Known(k, x)
  /\ LET cost == Weight(u, k) + Weight(k, x)
     IN  cost < c \/ (cost = c /\ base + rank[k][x] < r)

(* Each entry lies above the one its last edge leads back to.              *)
PrevBelow(base, rank) ==
  \A u, v \in Vertex :
    Known(u, v) /\ u # v =>
      LET edge == GetEdge(Entry(u, v).prev_edge)
          c    == Weight(u, v) - edge.weight
      IN  \/ LiesBelow(rank, u, edge.from, c, rank[u][v])
          \/ WillLieBelow(base, rank, u, edge.from, c, rank[u][v], Pass)

(* During a pass the ranks it has not touched are below base, and so is    *)
(* the row of its vertex.                                                  *)
RanksBounded(base, rank) ==
  \A u, v \in Vertex :
    /\ rank[u][v] < 2 * base
    /\ /\ vertex_through < VertexCount
       /\ ~ Processed(u, v) \/ u = vertex_through
       => rank[u][v] < base

(* A pair that the pass is done with has an entry at least as low as the   *)
(* one the pass would have stored.                                         *)
PassRanked(base, rank) ==
  \A u, v \in Vertex :
    /\ vertex_through < VertexCount
    /\ Processed(u, v)
    /\ Known(u, vertex_through) /\ Known(vertex_through, v)
    => LET cost == Weight(u, vertex_through) + Weight(vertex_through, v)
       IN  \/ Weight(u, v) < cost
           \/ Weight(u, v) = cost
              /\ rank[u][v] <= base + rank[vertex_through][v]

(* The vertices of the walk back, the destination first.                   *)
Position(i) == IF i = 0 THEN query[2] ELSE GetEdge(route[i]).from

(* Their entries get lower and lower.                                      *)
WalkDescends(rank) ==
  pc = "walk" =>
    \A i, j \in 0 .. Len(route) :
      i < j => rank[query[1]][Position(j)] < rank[query[1]][Position(i)]

Ranked(base, rank) ==
  /\ PrevBelow(base, rank)
  /\ RanksBounded(base, rank)
  /\ PassRanked(base, rank)

(* Until the initialisation is over an entry is a single edge; from then   *)
(* on entries can be ranked.                                               *)
SingleEdges ==
  ~ InTable =>
    \A u, v \in Vertex :
      Known(u, v) /\ u # v =>
        /\ Entry(u, v).prev_edge \in EdgeIds
        /\ GetEdge(Entry(u, v).prev_edge).from = u
        /\ GetEdge(Entry(u, v).prev_edge).weight = Weight(u, v)

CanRank ==
  InTable =>
    \E base \in Nat \ {0}, rank \in Ranks :
      Ranked(base, rank) /\ WalkDescends(rank)

RankInv == SingleEdges /\ CanRank

(* Nothing is in the table of a graph under construction.                  *)
LEMMA InitRankInv == Init => RankInv
BY DEF Init, RankInv, SingleEdges, CanRank, InTable, InRelax, Serving, Known,
   Entry

(* A step that leaves the graph, the table and the pass alone keeps the    *)
(* ranks.                                                                  *)
LEMMA RankedQuiet ==
  ASSUME NEW base, NEW rank, Ranked(base, rank), Untouched, Pass' = Pass,
         vertex_through' = vertex_through,
         vertex_through < VertexCount =>
           \A u, v \in Vertex :
             /\ Processed(u, v) => Processed(u, v)'
             /\ Processed(u, v)' /\ Known(u, vertex_through) => Processed(u, v)
  PROVE  Ranked(base, rank)'
<1>1. /\ \A a, b : Entry(a, b)' = Entry(a, b)
      /\ \A a, b : Known(a, b)' = Known(a, b)
      /\ \A a, b : Weight(a, b)' = Weight(a, b)
      /\ \A e : GetEdge(e)' = GetEdge(e)
  BY DEF Untouched, graph_vars, Entry, Known, Weight, GetEdge
<1>2. PrevBelow(base, rank)'
  <2> SUFFICES ASSUME NEW u \in Vertex, NEW v \in Vertex, Known(u, v), u # v
               PROVE  LET edge == GetEdge(Entry(u, v).prev_edge)
                          c    == Weight(u, v) - edge.weight
                      IN  \/ LiesBelow(rank, u, edge.from, c, rank[u][v])'
                          \/ WillLieBelow(base, rank, u, edge.from, c,
                                          rank[u][v], Pass)'
    BY <1>1 DEF PrevBelow
  <2> DEFINE edge == GetEdge(Entry(u, v).prev_edge)
  <2>1. \/ LiesBelow(rank, u, edge.from, Weight(u, v) - edge.weight, rank[u][v])
        \/ WillLieBelow(base, rank, u, edge.from, Weight(u, v) - edge.weight,
                        rank[u][v], Pass)
    BY DEF Ranked, PrevBelow
  <2> QED
    BY <1>1, <2>1 DEF LiesBelow, WillLieBelow
<1>3. RanksBounded(base, rank)'
  BY DEF Ranked, RanksBounded
<1>4. PassRanked(base, rank)'
  BY <1>1 DEF Ranked, PassRanked
<1> QED
  BY <1>2, <1>3, <1>4 DEF Ranked

(* An edge of the incidence lists starts at the vertex that lists it.      *)
LEMMA SingleEdgesKept ==
  ASSUME IInv, IInv', RankInv, InitVertex \/ InitEdge
  PROVE  RankInv'
<1>1. PICK r \in Vertex : r = vertex_from /\ TypeOK
  <2>1. vertex_from \in Nat /\ vertex_from < VertexCount
    BY RouterAssumption DEF IInv, TypeOK, LoopsInRange, InitVertex, InitEdge
  <2> QED
    BY <2>1, RouterAssumption DEF IInv, Vertex
<1>2. ~ InTable /\ ~ InTable'
  BY DEF InitVertex, InitEdge, InTable, InRelax, Serving
<1>3. EdgeIds' = EdgeIds /\ \A e : GetEdge(e)' = GetEdge(e)
  BY DEF InitVertex, InitEdge, graph_vars, EdgeIds, GetEdge
<1> SUFFICES ASSUME NEW u \in Vertex, NEW v \in Vertex, Known(u, v)', u # v
             PROVE  /\ Entry(u, v)'.prev_edge \in EdgeIds
                    /\ GetEdge(Entry(u, v)'.prev_edge).from = u
                    /\ GetEdge(Entry(u, v)'.prev_edge).weight = Entry(u, v)'.weight
  BY <1>2, <1>3 DEF RankInv, SingleEdges, CanRank, Weight
<1>4. CASE Entry(u, v)' = Entry(u, v)
  BY <1>2, <1>4 DEF RankInv, SingleEdges, Known, Weight
<1>5. CASE Entry(u, v)' # Entry(u, v) /\ InitVertex
  <2>1. Entry(u, v)' = Entry(u, v)
    BY <1>1, <1>5, StoreEntry DEF InitVertex
  <2> QED
    BY <1>5, <2>1
<1>6. CASE Entry(u, v)' # Entry(u, v) /\ InitEdge
  <2> DEFINE id   == incidence_lists[r][slot]
             edge == GetEdge(id)
             data == [weight |-> edge.weight, prev_edge |-> id]
  <2>1. /\ slot \in 1 .. Len(incidence_lists[r])
    BY <1>1, <1>6 DEF TypeOK, InitEdge, GetIncidentEdges
  <2>2. id \in EdgeIds /\ edge.from = r /\ edge.to \in Vertex
    BY <1>1, <2>1, EdgeType DEF IInv, GraphConsistent
  <2>3. Store(r, edge.to, data)
    BY <1>1, <1>6 DEF InitEdge, GetIncidentEdges, Entry
  <2>4. u = r /\ Entry(u, v)' = data
    BY <1>1, <1>6, <2>2, <2>3, StoreEntry
  <2> QED
    BY <2>2, <2>4
<1> QED
  BY <1>4, <1>5, <1>6

(* When the initialisation is over, the entries are ranked by the number   *)
(* of their edges, one or none.                                            *)
LEMMA RanksFound ==
  ASSUME IInv, IInv', RankInv, InitDone
  PROVE  RankInv'
<1>1. /\ InTable' /\ ~ InTable /\ TypeOK /\ pc' # "walk"
      /\ \A v \in Vertex : Started(v)
  BY RouterAssumption DEF InitDone, InTable, InRelax, Serving, IInv, Started,
     InInit, Vertex
<1>2. /\ \A a, b : Entry(a, b)' = Entry(a, b)
      /\ \A a, b : Known(a, b)' = Known(a, b)
      /\ \A a, b : Weight(a, b)' = Weight(a, b)
      /\ \A e : GetEdge(e)' = GetEdge(e)
  BY DEF InitDone, graph_vars, Entry, Known, Weight, GetEdge
<1>3. vertex_from' = 0 /\ pc' = "relax_from" /\ vertex_through' = 0
  BY DEF InitDone, IInv, LoopsInRange, InInit
<1>4. \A u, v \in Vertex : ~ Processed(u, v)'
  BY <1>3 DEF Processed, Vertex
<1> DEFINE rank == [u \in Vertex |-> [v \in Vertex |-> IF u = v THEN 0 ELSE 1]]
<1>5. rank \in Ranks
  BY DEF Ranks
<1>6. \A u, v \in Vertex : rank[u][v] = IF u = v THEN 0 ELSE 1
  OBVIOUS
<1> HIDE DEF rank
<1>7. PrevBelow(2, rank)'
  <2> SUFFICES ASSUME NEW u \in Vertex, NEW v \in Vertex, Known(u, v), u # v
               PROVE  LET edge == GetEdge(Entry(u, v).prev_edge)
                          c    == Weight(u, v) - edge.weight
                      IN  LiesBelow(rank, u, edge.from, c, rank[u][v])
    BY <1>2 DEF PrevBelow, LiesBelow
  <2>1. /\ GetEdge(Entry(u, v).prev_edge).from = u
        /\ GetEdge(Entry(u, v).prev_edge).weight = Weight(u, v)
        /\ Weight(u, v) \in Nat
    BY <1>1, EntryType DEF RankInv, SingleEdges
  <2>2. Known(u, u) /\ Weight(u, u) = 0
    BY <1>1, NoRouteAssumption DEF IInv, Diagonal, Known, Weight, RouteInternalData
  <2> QED
    BY <1>6, <2>1, <2>2 DEF LiesBelow
<1>8. RanksBounded(2, rank)' /\ PassRanked(2, rank)'
  BY <1>4, <1>6 DEF RanksBounded, PassRanked
<1>9. WalkDescends(rank)'
  BY <1>1 DEF WalkDescends
<1> QED
  BY <1>1, <1>5, <1>7, <1>8, <1>9 DEF RankInv, SingleEdges, CanRank, Ranked

(* A pass stores an entry above the row and the column it came from.       *)
LEMMA RelaxRanked ==
  ASSUME IInv, IInv', RelaxTo, NEW base \in Nat \ {0}, NEW rank \in Ranks,
         Ranked(base, rank)
  PROVE  \E new \in Ranks : Ranked(base, new)'
<1>1. PICK r \in Vertex, t \in Vertex, k \in Vertex :
        r = vertex_from /\ t = vertex_to /\ k = vertex_through
  BY RouterAssumption DEF IInv, TypeOK, LoopsInRange, RelaxTo, Vertex
<1>2. TypeOK /\ Known(r, k) /\ pc = "relax_to" /\ pc' = pc
  BY <1>1 DEF IInv, LoopsInRange, RelaxTo
<1>3. /\ UNCHANGED <<graph_vars, vertex_through, vertex_from, slot, call_vars>>
      /\ vertex_to' = t + 1
  BY <1>1 DEF RelaxTo
<1>4. /\ InTable /\ InTable' /\ Pass = k /\ Pass' = k
      /\ InRelax /\ k < VertexCount /\ k \in Nat
      /\ vertex_through < VertexCount
  BY <1>1, <1>2, <1>3, RouterAssumption DEF InTable, Pass, InRelax, Vertex
<1>5. /\ \A u, v \in Vertex : Processed(u, v)' <=>
            Processed(u, v) \/ (u = r /\ v = t)
      /\ ~ Processed(r, t)
  BY <1>1, <1>2, <1>3, <1>4, RouterAssumption DEF Processed, InRelax, Vertex
<1>6. \A u \in Vertex : Known(u, u) /\ Weight(u, u) = 0
  BY <1>4, NoRouteAssumption DEF IInv, Diagonal, Started, Known, Weight,
     RouteInternalData
<1>7. \A e : GetEdge(e)' = GetEdge(e)
  BY <1>3 DEF graph_vars, GetEdge
<1>8. \A u, v \in Vertex : Known(u, v) => Weight(u, v) \in Nat
  BY <1>2, EntryType
<1>9. \A u, v \in Vertex : rank[u][v] \in Nat
  BY DEF Ranks
<1>10. /\ PrevBelow(base, rank) /\ RanksBounded(base, rank)
       /\ PassRanked(base, rank)
  BY DEF Ranked
<1> DEFINE data == Relaxed(Entry(r, k), Entry(k, t))
           Better == Known(k, t) /\ ImprovesRelax(Entry(r, t), data.weight)
<1>11. CASE ~ Better
  <2>1. /\ \A a, b : Entry(a, b)' = Entry(a, b)
        /\ \A a, b : Known(a, b)' = Known(a, b)
        /\ \A a, b : Weight(a, b)' = Weight(a, b)
    BY <1>1, <1>11 DEF RelaxTo, Entry, Known, Weight
  <2>2. PrevBelow(base, rank)'
    <3> SUFFICES ASSUME NEW u \in Vertex, NEW v \in Vertex, Known(u, v), u # v
                 PROVE  LET edge == GetEdge(Entry(u, v).prev_edge)
                            c    == Weight(u, v) - edge.weight
                        IN  \/ LiesBelow(rank, u, edge.from, c, rank[u][v])'
                            \/ WillLieBelow(base, rank, u, edge.from, c,
                                            rank[u][v], Pass)'
      BY <1>7, <2>1 DEF PrevBelow
    <3> DEFINE edge == GetEdge(Entry(u, v).prev_edge)
    <3>1. \/ LiesBelow(rank, u, edge.from, Weight(u, v) - edge.weight,
                       rank[u][v])
          \/ WillLieBelow(base, rank, u, edge.from,
                          Weight(u, v) - edge.weight, rank[u][v], Pass)
      BY <1>10 DEF PrevBelow
    <3>2. Pass' = Pass
      BY <1>4
    <3> QED
      BY <1>7, <2>1, <3>1, <3>2 DEF LiesBelow, WillLieBelow
  <2>3. RanksBounded(base, rank)'
    BY <1>3, <1>5, <1>10 DEF RanksBounded
  <2>4. PassRanked(base, rank)'
    <3> SUFFICES ASSUME NEW u \in Vertex, NEW v \in Vertex, Processed(u, v)',
                        Known(u, k), Known(k, v)
                 PROVE  \/ Weight(u, v) < Weight(u, k) + Weight(k, v)
                        \/ Weight(u, v) = Weight(u, k) + Weight(k, v)
                           /\ rank[u][v] <= base + rank[k][v]
      BY <1>1, <1>3, <2>1 DEF PassRanked
    <3>1. CASE Processed(u, v)
      BY <1>1, <1>4, <1>10, <3>1 DEF PassRanked
    <3>2. CASE ~ Processed(u, v)
      <4>1. u = r /\ v = t /\ rank[u][v] < base
        BY <1>4, <1>5, <1>10, <3>2 DEF RanksBounded
      <4>2. ~ ImprovesRelax(Entry(r, t), Weight(r, k) + Weight(k, t))
        BY <1>11, <4>1 DEF Relaxed, Weight
      <4>3. Known(r, t) /\ ~ (Weight(r, k) + Weight(k, t) < Weight(r, t))
        BY <4>2 DEF ImprovesRelax, Known, Weight
      <4> QED
        BY <1>8, <1>9, <4>1, <4>3
    <3> QED
      BY <3>1, <3>2
  <2> QED
    BY <2>2, <2>3, <2>4 DEF Ranked
<1>12. CASE Better
  <2>1. Store(r, t, data)
    BY <1>1, <1>12 DEF RelaxTo
  <2>2. \A a, b \in Vertex :
          Entry(a, b)' = IF a = r /\ b = t THEN data ELSE Entry(a, b)
    BY <1>2, <2>1, StoreEntry
  <2>3. Known(k, t) /\ Weight(r, k) \in Nat /\ Weight(k, t) \in Nat
    BY <1>2, <1>8, <1>12
  <2>4. data.weight = Weight(r, k) + Weight(k, t)
    BY DEF Relaxed, Weight
  <2>5. Known(r, t) => data.weight < Weight(r, t)
    BY <1>12 DEF ImprovesRelax, Known, Weight
  <2>6. r # t /\ r # k /\ t # k
    <3> HIDE DEF data, Better
    <3>1. r # t
      BY <1>6, <2>3, <2>4, <2>5
    <3>2. r # k
      BY <1>6, <2>3, <2>4, <2>5
    <3>3. t # k
      BY <1>2, <1>6, <2>3, <2>4, <2>5
    <3> QED
      BY <3>1, <3>2, <3>3
  <2>7. data.prev_edge = Entry(k, t).prev_edge
    BY <2>3, <2>6 DEF IInv, Diagonal, Relaxed
  <2>8. Known(r, t)'
    <3>1. Entry(r, k) \in RouteInternalData /\ Entry(k, t) \in RouteInternalData
      BY <1>2, <2>3, EntryType
    <3>2. data \in RouteInternalData
      BY <2>3, <3>1 DEF Relaxed, Weight, RouteInternalData
    <3> QED
      BY <2>2, <3>2, NoRouteAssumption DEF Known
  <2> HIDE DEF data, Better
  <2>9. /\ Entry(r, t)'.prev_edge = Entry(k, t).prev_edge
        /\ Weight(r, t)' = Weight(r, k) + Weight(k, t)
        /\ \A a, b \in Vertex : a # r \/ b # t =>
             /\ Entry(a, b)' = Entry(a, b)
             /\ Known(a, b)' = Known(a, b)
             /\ Weight(a, b)' = Weight(a, b)
    BY <2>2, <2>4, <2>7 DEF Known, Weight
  <2> DEFINE new == [u \in Vertex |-> [v \in Vertex |->
                       IF u = r /\ v = t THEN base + rank[k][t]
                                        ELSE rank[u][v]]]
  <2>10. new \in Ranks
    BY <1>9 DEF Ranks
  <2>11. /\ \A u, v \in Vertex : u # r \/ v # t => new[u][v] = rank[u][v]
         /\ new[r][t] = base + rank[k][t]
         /\ \A u, v \in Vertex : new[u][v] \in Nat
    BY <1>9
  <2> HIDE DEF new
  <2>12. rank[k][t] < base
    BY <1>1, <1>4, <1>10 DEF RanksBounded
  <2>13. RanksBounded(base, new)'
    <3> SUFFICES ASSUME NEW u \in Vertex, NEW v \in Vertex
                 PROVE  /\ new[u][v] < 2 * base
                        /\ ~ Processed(u, v)' \/ u = k => new[u][v] < base
      BY <1>1, <1>3 DEF RanksBounded
    <3>1. CASE u = r /\ v = t
      BY <3>1, <1>5, <1>9, <2>6, <2>11, <2>12
    <3>2. CASE u # r \/ v # t
      BY <3>2, <1>1, <1>4, <1>5, <1>10, <2>11 DEF RanksBounded
    <3> QED
      BY <3>1, <3>2
  <2>14. PassRanked(base, new)'
    <3> SUFFICES ASSUME NEW u \in Vertex, NEW v \in Vertex, Processed(u, v)',
                        Known(u, k)', Known(k, v)'
                 PROVE  \/ Weight(u, v)' < Weight(u, k)' + Weight(k, v)'
                        \/ Weight(u, v)' = Weight(u, k)' + Weight(k, v)'
                           /\ new[u][v] <= base + new[k][v]
      BY <1>1, <1>3 DEF PassRanked
    <3>1. CASE u = r /\ v = t
      <4>1. /\ Weight(r, k)' = Weight(r, k) /\ Weight(k, t)' = Weight(k, t)
            /\ new[k][t] = rank[k][t]
        BY <2>6, <2>9, <2>11
      <4> QED
        BY <3>1, <4>1, <1>9, <2>3, <2>9, <2>11
    <3>2. CASE u # r \/ v # t
      <4>1. Processed(u, v) /\ Known(u, k) /\ Known(k, v)
        BY <3>2, <1>5, <2>6, <2>9
      <4>2. \/ Weight(u, v) < Weight(u, k) + Weight(k, v)
            \/ Weight(u, v) = Weight(u, k) + Weight(k, v)
               /\ rank[u][v] <= base + rank[k][v]
        BY <4>1, <1>1, <1>4, <1>10 DEF PassRanked
      <4>3. /\ Weight(u, v)' = Weight(u, v) /\ Weight(u, k)' = Weight(u, k)
            /\ Weight(k, v)' = Weight(k, v)
            /\ new[u][v] = rank[u][v] /\ new[k][v] = rank[k][v]
        BY <3>2, <2>6, <2>9, <2>11
      <4> QED
        BY <4>2, <4>3
    <3> QED
      BY <3>1, <3>2
  <2>15. ASSUME NEW u \in Vertex, NEW x \in Vertex, NEW c \in Int, NEW n,
                \/ LiesBelow(rank, u, x, c, n)
                \/ WillLieBelow(base, rank, u, x, c, n, k)
         PROVE  \/ LiesBelow(new, u, x, c, n)'
                \/ WillLieBelow(base, new, u, x, c, n, k)'
    <3>1. CASE LiesBelow(rank, u, x, c, n)
      <4>1. CASE u = r /\ x = t
        BY <3>1, <4>1, <1>8, <2>3, <2>4, <2>5, <2>8, <2>9 DEF LiesBelow
      <4>2. CASE u # r \/ x # t
        BY <3>1, <4>2, <2>9, <2>11 DEF LiesBelow
      <4> QED
        BY <4>1, <4>2
    <3>2. CASE WillLieBelow(base, rank, u, x, c, n, k)
      BY <3>2, <2>6, <2>9, <2>11 DEF WillLieBelow
    <3> QED
      BY <2>15, <3>1, <3>2
  <2>16. ASSUME NEW u \in Vertex, NEW v \in Vertex, Known(u, v), u # v
         PROVE  \E e \in EdgeIds, x \in Vertex, w \in Int :
                  /\ e = Entry(u, v).prev_edge
                  /\ x = GetEdge(e).from /\ w = GetEdge(e).weight
                  /\ \/ LiesBelow(rank, u, x, Weight(u, v) - w, rank[u][v])
                     \/ WillLieBelow(base, rank, u, x, Weight(u, v) - w,
                                     rank[u][v], k)
    <3> DEFINE e == Entry(u, v).prev_edge
    <3>1. e \in EdgeIds
      BY <2>16 DEF IInv, PrevSound
    <3>2. GetEdge(e).from \in Vertex /\ GetEdge(e).weight \in Int
      BY <1>2, <3>1, EdgeType
    <3>3. \/ LiesBelow(rank, u, GetEdge(e).from,
                       Weight(u, v) - GetEdge(e).weight, rank[u][v])
          \/ WillLieBelow(base, rank, u, GetEdge(e).from,
                          Weight(u, v) - GetEdge(e).weight, rank[u][v], k)
      BY <1>4, <1>10, <2>16 DEF PrevBelow
    <3>4. e = Entry(u, v).prev_edge
      OBVIOUS
    <3> HIDE DEF e
    <3> QED
      BY <3>1, <3>2, <3>3, <3>4
  <2>17. PrevBelow(base, new)'
    <3> SUFFICES ASSUME NEW u \in Vertex, NEW v \in Vertex, Known(u, v)', u # v
                 PROVE  (LET edge == GetEdge(Entry(u, v).prev_edge)
                             c    == Weight(u, v) - edge.weight
                         IN  \/ LiesBelow(new, u, edge.from, c, new[u][v])
                             \/ WillLieBelow(base, new, u, edge.from, c,
                                             new[u][v], k))'
      BY <1>4 DEF PrevBelow
    <3>1. CASE u # r \/ v # t
      <4>1. /\ Known(u, v) /\ Entry(u, v)' = Entry(u, v)
            /\ Weight(u, v)' = Weight(u, v) /\ new[u][v] = rank[u][v]
        BY <3>1, <2>9, <2>11
      <4>2. PICK e \in EdgeIds, x \in Vertex, w \in Int :
              /\ e = Entry(u, v).prev_edge
              /\ x = GetEdge(e).from /\ w = GetEdge(e).weight
              /\ \/ LiesBelow(rank, u, x, Weight(u, v) - w, rank[u][v])
                 \/ WillLieBelow(base, rank, u, x, Weight(u, v) - w,
                                 rank[u][v], k)
        BY <4>1, <2>16
      <4>3. PICK c \in Int : c = Weight(u, v) - w
        BY <4>1, <1>8
      <4>4. PICK n : n = rank[u][v]
        OBVIOUS
      <4>5. \/ LiesBelow(new, u, x, c, n)'
            \/ WillLieBelow(base, new, u, x, c, n, k)'
        BY <4>2, <4>3, <4>4, <2>15
      <4> QED
        BY <4>1, <4>2, <4>3, <4>4, <4>5, <1>7 DEF LiesBelow, WillLieBelow
    <3>2. CASE u = r /\ v = t
      <4>1. PICK e \in EdgeIds, x \in Vertex, w \in Int :
              /\ e = Entry(k, t).prev_edge
              /\ x = GetEdge(e).from /\ w = GetEdge(e).weight
              /\ \/ LiesBelow(rank, k, x, Weight(k, t) - w, rank[k][t])
                 \/ WillLieBelow(base, rank, k, x, Weight(k, t) - w,
                                 rank[k][t], k)
        BY <2>3, <2>6, <2>16
      <4>2. Known(k, x) /\ Weight(k, x) \in Nat
        BY <4>1, <1>8 DEF LiesBelow, WillLieBelow
      <4>3. \/ Weight(k, x) < Weight(k, t) - w
            \/ Weight(k, x) = Weight(k, t) - w /\ rank[k][x] < rank[k][t]
        BY <4>1, <4>2, <1>6, <1>9, <2>3, <2>12 DEF LiesBelow, WillLieBelow
      <4>4. PICK c \in Int : c = Weight(r, k) + Weight(k, t) - w
        BY <2>3
      <4>5. WillLieBelow(base, new, r, x, c, base + rank[k][t], k)'
        <5>1. /\ Known(r, k)' /\ Weight(r, k)' = Weight(r, k)
              /\ Known(k, x)' /\ Weight(k, x)' = Weight(k, x)
              /\ new[k][x] = rank[k][x]
          BY <1>2, <2>6, <2>9, <2>11, <4>2
        <5>2. \/ Weight(r, k) + Weight(k, x) < c
              \/ /\ Weight(r, k) + Weight(k, x) = c
                 /\ base + rank[k][x] < base + rank[k][t]
          BY <1>9, <2>3, <4>2, <4>3, <4>4
        <5> QED
          BY <1>4, <5>1, <5>2 DEF WillLieBelow
      <4>6. Entry(r, t)'.prev_edge = e /\ c = Weight(r, t)' - w
        BY <2>3, <2>9, <4>1, <4>4
      <4> QED
        BY <3>2, <4>1, <4>5, <4>6, <1>7, <2>11 DEF WillLieBelow
    <3> QED
      BY <3>1, <3>2
  <2> QED
    BY <2>10, <2>13, <2>14, <2>17 DEF Ranked
<1> QED
  BY <1>11, <1>12

(* At the end of a pass every entry is explained by the table as it is,    *)
(* and the next pass starts above all ranks.                               *)
LEMMA NextPassRanked ==
  ASSUME IInv, RelaxNextThrough, NEW base \in Nat \ {0}, NEW rank \in Ranks,
         Ranked(base, rank)
  PROVE  Ranked(2 * base, rank)'
<1>1. PICK k \in Vertex : k = vertex_through
  BY RouterAssumption DEF IInv, TypeOK, RelaxNextThrough, Vertex
<1>2. /\ TypeOK /\ InRelax /\ InTable /\ Pass = k /\ k < VertexCount
      /\ pc' = "relax_from" /\ pc = "relax_from"
      /\ vertex_from = VertexCount /\ vertex_from' = 0
  BY <1>1 DEF IInv, RelaxNextThrough, InRelax, InTable, Pass
<1>3. /\ \A a, b : Entry(a, b)' = Entry(a, b)
      /\ \A a, b : Known(a, b)' = Known(a, b)
      /\ \A a, b : Weight(a, b)' = Weight(a, b)
      /\ \A e : GetEdge(e)' = GetEdge(e)
  BY DEF RelaxNextThrough, graph_vars, Entry, Known, Weight, GetEdge
<1>4. /\ \A u, v \in Vertex : Processed(u, v)
      /\ \A u, v \in Vertex : ~ Processed(u, v)'
  BY <1>2, RouterAssumption DEF Processed, Vertex
<1>5. /\ PrevBelow(base, rank) /\ RanksBounded(base, rank)
      /\ PassRanked(base, rank)
  BY DEF Ranked
<1>6. /\ \A u, v \in Vertex : Known(u, v) => Weight(u, v) \in Nat
      /\ \A u, v \in Vertex : rank[u][v] \in Nat
  BY <1>2, EntryType DEF Ranks
<1>7. RanksBounded(2 * base, rank)' /\ PassRanked(2 * base, rank)'
  <2>1. \A u, v \in Vertex : rank[u][v] < 2 * base
    BY <1>5 DEF RanksBounded
  <2>2. \A u, v \in Vertex : rank[u][v] < 2 * (2 * base)
    BY <2>1, <1>6
  <2> QED
    BY <1>4, <2>1, <2>2 DEF RanksBounded, PassRanked
<1>8. ASSUME NEW u \in Vertex, NEW x \in Vertex, NEW c \in Int, NEW n \in Nat,
             WillLieBelow(base, rank, u, x, c, n, k)
      PROVE  LiesBelow(rank, u, x, c, n)
  <2>1. Within(u, x, Weight(u, k) + Weight(k, x))
    BY <1>1, <1>2, <1>4, <1>8 DEF IInv, PassClosed, WillLieBelow
  <2>2. \/ Weight(u, x) < Weight(u, k) + Weight(k, x)
        \/ Weight(u, x) = Weight(u, k) + Weight(k, x)
           /\ rank[u][x] <= base + rank[k][x]
    BY <1>1, <1>2, <1>4, <1>5, <1>8 DEF PassRanked, WillLieBelow
  <2> QED
    BY <1>6, <1>8, <2>1, <2>2 DEF WillLieBelow, LiesBelow, Within
<1>9. PrevBelow(2 * base, rank)'
  <2> SUFFICES ASSUME NEW u \in Vertex, NEW v \in Vertex, Known(u, v), u # v
               PROVE  LET edge == GetEdge(Entry(u, v).prev_edge)
                          c    == Weight(u, v) - edge.weight
                      IN  LiesBelow(rank, u, edge.from, c, rank[u][v])
    BY <1>3 DEF PrevBelow, LiesBelow
  <2> DEFINE e == Entry(u, v).prev_edge
  <2>1. e \in EdgeIds
    BY DEF IInv, PrevSound
  <2>2. GetEdge(e).from \in Vertex /\ GetEdge(e).weight \in Int
    BY <1>2, <2>1, EdgeType
  <2>3. \/ LiesBelow(rank, u, GetEdge(e).from,
                     Weight(u, v) - GetEdge(e).weight, rank[u][v])
        \/ WillLieBelow(base, rank, u, GetEdge(e).from,
                        Weight(u, v) - GetEdge(e).weight, rank[u][v], k)
    BY <1>2, <1>5 DEF PrevBelow
  <2>4. Weight(u, v) - GetEdge(e).weight \in Int /\ rank[u][v] \in Nat
    BY <1>6, <2>2
  <2> QED
    BY <1>8, <2>2, <2>3, <2>4
<1> QED
  BY <1>7, <1>9 DEF Ranked

(* Where the walk stands.                                                  *)
LEMMA PositionType ==
  ASSUME IInv, pc = "walk"
  PROVE  /\ Len(route) \in Nat
         /\ \A i \in 0 .. Len(route) : Position(i) \in Vertex
         /\ Position(Len(route)) = WalkPosition
<1>1. TypeOK /\ Len(route) \in Nat
  BY DEF IInv, TypeOK
<1>2. ASSUME NEW i \in 0 .. Len(route)
      PROVE  Position(i) \in Vertex
  <2>1. CASE i = 0
    BY <1>1, <2>1 DEF TypeOK, Position
  <2>2. CASE i # 0
    <3>1. i \in 1 .. Len(route)
      BY <1>1, <2>2
    <3>2. route[i] \in EdgeIds
      BY <3>1 DEF IInv, WalkConnected, OnTable
    <3> QED
      BY <1>1, <2>2, <3>2, EdgeType DEF Position
  <2> QED
    BY <2>1, <2>2
<1>3. Position(Len(route)) = WalkPosition
  BY <1>1 DEF TypeOK, Position, WalkPosition
<1> QED
  BY <1>1, <1>2, <1>3

(* One step of the walk back goes down.                                    *)
LEMMA WalkBackDescends ==
  ASSUME IInv, IInv', WalkBack, NEW base \in Nat \ {0}, NEW rank \in Ranks,
         Ranked(base, rank), WalkDescends(rank)
  PROVE  WalkDescends(rank)'
<1> DEFINE u == query[1]
           p == WalkPosition
<1>0. PICK n \in Nat : n = Len(route)
  BY DEF IInv, TypeOK
<1>1. /\ pc = "walk" /\ edge_id # NoEdge /\ TypeOK /\ u \in Vertex
      /\ p \in Vertex /\ Serving
  <2>1. pc = "walk" /\ edge_id # NoEdge /\ TypeOK /\ u \in Vertex /\ Serving
    BY DEF WalkBack, IInv, TypeOK, Serving
  <2>2. n \in 0 .. n /\ Position(n) = p
    BY <1>0, <2>1, PositionType
  <2> QED
    BY <2>1, <2>2, PositionType
<1>2. /\ route' = Append(route, edge_id) /\ query' = query
      /\ \A e : GetEdge(e)' = GetEdge(e)
  BY DEF WalkBack, graph_vars, GetEdge
<1>3. /\ \A i \in 0 .. n : Position(i)' = Position(i)
      /\ Position(n + 1)' = GetEdge(edge_id).from
      /\ Len(route') = n + 1
  <2>1. /\ Len(route') = n + 1 /\ route'[n + 1] = edge_id
        /\ \A i \in 1 .. n : route'[i] = route[i]
    BY <1>0, <1>1, <1>2 DEF TypeOK
  <2>2. Position(n + 1)' = GetEdge(edge_id).from
    BY <1>1, <1>2, <2>1 DEF Position
  <2>3. ASSUME NEW i \in 0 .. n PROVE Position(i)' = Position(i)
    <3>1. CASE i = 0
      BY <1>2, <3>1 DEF Position
    <3>2. CASE i # 0
      <4>1. i \in 1 .. n
        BY <1>1, <3>2
      <4> QED
        BY <1>2, <2>1, <3>2, <4>1 DEF Position
    <3> QED
      BY <3>1, <3>2
  <2> QED
    BY <2>1, <2>2, <2>3
<1>4. rank[u][GetEdge(edge_id).from] < rank[u][p]
  <2>1. Known(u, p) /\ edge_id = Entry(u, p).prev_edge /\ u # p
    BY <1>1 DEF IInv, WalkConnected, Diagonal
  <2>2. OnTable(u, edge_id) /\ GetEdge(edge_id).to = p
    BY <1>1, WalkBackEdge
  <2>3. /\ edge_id \in EdgeIds /\ GetEdge(edge_id).from \in Vertex
        /\ GetEdge(edge_id).weight \in Int
    BY <1>1, <2>2, EdgeType DEF OnTable
  <2>4. /\ Weight(u, p) \in Nat /\ Weight(u, GetEdge(edge_id).from) \in Nat
        /\ Weight(u, p) - GetEdge(edge_id).weight
             = Weight(u, GetEdge(edge_id).from)
    BY <1>1, <2>1, <2>2, <2>3, EntryType DEF OnTable
  <2>5. Pass = VertexCount
    BY <1>1 DEF Pass, InRelax, Serving
  <2>6. LiesBelow(rank, u, GetEdge(edge_id).from,
                  Weight(u, p) - GetEdge(edge_id).weight, rank[u][p])
    BY <1>1, <2>1, <2>5, RouterAssumption DEF Ranked, PrevBelow, WillLieBelow
  <2> QED
    BY <2>4, <2>6 DEF LiesBelow
<1>5. \A i \in 0 .. n : rank[u][p] <= rank[u][Position(i)]
  <2>1. p = Position(n) /\ \A i \in 0 .. n : rank[u][Position(i)] \in Nat
    BY <1>0, <1>1, PositionType DEF Ranks
  <2> SUFFICES ASSUME NEW i \in 0 .. n
               PROVE  rank[u][p] <= rank[u][Position(i)]
    OBVIOUS
  <2>2. CASE i = n
    BY <1>1, <2>1, <2>2
  <2>3. CASE i # n
    BY <1>0, <1>1, <2>1, <2>3 DEF WalkDescends
  <2> QED
    BY <2>2, <2>3
<1> SUFFICES ASSUME NEW i \in 0 .. n + 1, NEW j \in 0 .. n + 1, i < j
             PROVE  rank[u][Position(j)'] < rank[u][Position(i)']
  BY <1>2, <1>3 DEF WalkDescends
<1>6. CASE j = n + 1
  <2>1. i \in 0 .. n
    BY <1>1, <1>6
  <2>2. PICK x \in Vertex, y \in Vertex :
          x = GetEdge(edge_id).from /\ y = Position(i)
    BY <1>0, <1>1, <2>1, PositionType, WalkBackEdge, EdgeType DEF OnTable
  <2>3. Position(i)' = y /\ Position(j)' = x
    BY <1>3, <1>6, <2>1, <2>2
  <2>4. rank[u][x] < rank[u][p] /\ rank[u][p] <= rank[u][y]
    BY <1>4, <1>5, <2>1, <2>2
  <2>5. rank[u][x] \in Nat /\ rank[u][p] \in Nat /\ rank[u][y] \in Nat
    BY <1>1, <2>2 DEF Ranks
  <2> QED
    BY <2>3, <2>4, <2>5
<1>7. CASE j # n + 1
  BY <1>0, <1>1, <1>3, <1>7 DEF WalkDescends
<1> QED
  BY <1>6, <1>7

(* Steps that leave the table alone keep RankInv.                          *)
LEMMA QuietRankInv ==
  ASSUME IInv, RankInv, Untouched, InTable' <=> InTable, Pass' = Pass,
         InTable => vertex_through' = vertex_through,
         vertex_through < VertexCount =>
           \A u, v \in Vertex :
             /\ Processed(u, v) => Processed(u, v)'
             /\ Processed(u, v)' /\ Known(u, vertex_through) => Processed(u, v),
         \A rank : WalkDescends(rank) => WalkDescends(rank)'
  PROVE  RankInv'
<1>1. SingleEdges'
  BY DEF RankInv, SingleEdges, Untouched, graph_vars, EdgeIds, GetEdge, Known,
     Entry, Weight
<1>2. CanRank'
  <2> SUFFICES ASSUME InTable
               PROVE  \E base \in Nat \ {0}, rank \in Ranks :
                        Ranked(base, rank)' /\ WalkDescends(rank)'
    BY DEF CanRank
  <2>1. PICK base \in Nat \ {0}, rank \in Ranks :
          Ranked(base, rank) /\ WalkDescends(rank)
    BY DEF RankInv, CanRank
  <2>2. Ranked(base, rank)'
    BY <2>1, RankedQuiet
  <2> QED
    BY <2>1, <2>2
<1> QED
  BY <1>1, <1>2 DEF RankInv

(* Every step keeps RankInv.                                               *)
LEMMA RankInvStep ==
  ASSUME IInv, IInv', RankInv, [Next]_vars
  PROVE  RankInv'
<1>1. CASE \E from, to \in Vertex, weight \in Weights : AddEdge(from, to, weight)
  <2>1. ~ InTable /\ ~ InTable' /\ pc = "graph" /\ UNCHANGED routes_internal_data
    BY <1>1 DEF AddEdge, InTable, InRelax, Serving
  <2>2. \A u, v \in Vertex : ~ Known(u, v)
    BY <2>1 DEF IInv, Diagonal, Started, InTable, InInit
  <2> QED
    BY <2>1, <2>2 DEF RankInv, SingleEdges, CanRank, Known, Entry
<1>2. CASE ConstructRouter \/ InitNextVertex
  <2>1. ~ InTable /\ ~ InTable' /\ Untouched /\ Pass' = Pass
    BY <1>2 DEF ConstructRouter, InitNextVertex, InTable, InRelax, Serving, Pass,
       Untouched
  <2>2. \A u, v \in Vertex : ~ Processed(u, v) /\ ~ Processed(u, v)'
    BY <2>1 DEF InTable, Processed
  <2>3. \A rank : WalkDescends(rank)'
    BY <1>2 DEF ConstructRouter, InitNextVertex, WalkDescends
  <2> QED
    BY <2>1, <2>2, <2>3, QuietRankInv
<1>3. CASE InitVertex \/ InitEdge
  BY <1>3, SingleEdgesKept
<1>4. CASE InitDone
  BY <1>4, RanksFound
<1>5. CASE RelaxFrom \/ RelaxNextFrom
  <2>1. /\ Untouched /\ vertex_through' = vertex_through
        /\ InRelax /\ InRelax' /\ pc' # "walk"
        /\ vertex_from \in 0 .. VertexCount /\ vertex_to \in 0 .. VertexCount
    BY <1>5 DEF RelaxFrom, RelaxNextFrom, Untouched, InRelax, IInv, TypeOK
  <2>2. ASSUME NEW u \in Vertex, NEW v \in Vertex
        PROVE  /\ Processed(u, v) => Processed(u, v)'
               /\ Processed(u, v)' /\ Known(u, vertex_through)
                  => Processed(u, v)
    <3>1. u \in 0 .. VertexCount - 1 /\ v \in 0 .. VertexCount - 1
      BY DEF Vertex
    <3>2. CASE RelaxFrom
      <4>1. CASE Known(vertex_from, vertex_through)
        BY <2>1, <3>1, <3>2, <4>1, RouterAssumption DEF RelaxFrom, Processed
      <4>2. CASE ~ Known(vertex_from, vertex_through)
        BY <2>1, <3>1, <3>2, <4>2, RouterAssumption DEF RelaxFrom, Processed
      <4> QED
        BY <4>1, <4>2
    <3>3. CASE RelaxNextFrom
      BY <2>1, <3>1, <3>3, RouterAssumption DEF RelaxNextFrom, Processed
    <3> QED
      BY <1>5, <3>2, <3>3
  <2>3. InTable /\ InTable' /\ Pass' = Pass /\ \A rank : WalkDescends(rank)'
    BY <2>1 DEF InTable, Pass, WalkDescends
  <2> QED
    BY <2>1, <2>2, <2>3, QuietRankInv
<1>6. CASE RelaxTo
  <2>1. InTable /\ InTable' /\ pc' # "walk"
    BY <1>6 DEF RelaxTo, InTable, InRelax
  <2>2. PICK base \in Nat \ {0}, rank \in Ranks : Ranked(base, rank)
    BY <2>1 DEF RankInv, CanRank
  <2>3. PICK new \in Ranks : Ranked(base, new)'
    BY <1>6, <2>2, RelaxRanked
  <2>4. WalkDescends(new)'
    BY <2>1 DEF WalkDescends
  <2> QED
    BY <2>1, <2>3, <2>4 DEF RankInv, SingleEdges, CanRank
<1>7. CASE RelaxNextThrough
  <2>1. InTable /\ InTable' /\ pc' # "walk"
    BY <1>7 DEF RelaxNextThrough, InTable, InRelax
  <2>2. PICK base \in Nat \ {0}, rank \in Ranks : Ranked(base, rank)
    BY <2>1 DEF RankInv, CanRank
  <2>3. Ranked(2 * base, rank)' /\ 2 * base \in Nat \ {0}
    BY <1>7, <2>2, NextPassRanked
  <2>4. WalkDescends(rank)'
    BY <2>1 DEF WalkDescends
  <2> QED
    BY <2>1, <2>3, <2>4 DEF RankInv, SingleEdges, CanRank
<1>8. CASE \/ RelaxDone \/ RouteMissing \/ RouteFound \/ ReturnRoute
           \/ \E from, to \in Vertex : CallBuildRoute(from, to)
  <2>1. /\ Untouched /\ UNCHANGED loop_vars
        /\ pc \in {"relax_from", "ready", "lookup", "walk"}
        /\ pc' \in {"ready", "lookup", "walk"}
        /\ pc' = "walk" => route' = <<>>
        /\ pc = "relax_from" => vertex_through = VertexCount
    BY <1>8 DEF RelaxDone, RouteMissing, RouteFound, ReturnRoute,
       CallBuildRoute, Untouched
  <2>2. InTable /\ InTable' /\ vertex_through = VertexCount
    BY <2>1 DEF InTable, InRelax, Serving, IInv, LoopsInRange
  <2>3. vertex_through' = vertex_through /\ Pass' = Pass
    BY <2>1, <2>2 DEF loop_vars, Pass
  <2>4. ~ (vertex_through < VertexCount)
    BY <2>2, RouterAssumption
  <2>5. \A rank : WalkDescends(rank)'
    BY <2>1 DEF WalkDescends
  <2> QED
    BY <2>1, <2>2, <2>3, <2>4, <2>5, QuietRankInv
<1>9. CASE WalkBack
  <2>1. /\ InTable /\ InTable' /\ Untouched /\ UNCHANGED loop_vars
        /\ Serving /\ Serving'
    BY <1>9 DEF WalkBack, InTable, Serving, Untouched
  <2>2. PICK base \in Nat \ {0}, rank \in Ranks :
          Ranked(base, rank) /\ WalkDescends(rank)
    BY <2>1 DEF RankInv, CanRank
  <2>3. Ranked(base, rank)'
    <3>1. vertex_through = VertexCount /\ vertex_through' = vertex_through
      BY <2>1 DEF IInv, LoopsInRange, loop_vars
    <3>2. Pass' = Pass
      BY <2>1, <3>1 DEF Pass
    <3>3. ~ (vertex_through < VertexCount)
      BY <3>1, RouterAssumption
    <3> QED
      BY <2>1, <2>2, <3>1, <3>2, <3>3, RankedQuiet
  <2>4. WalkDescends(rank)'
    BY <1>9, <2>2, WalkBackDescends
  <2> QED
    BY <2>1, <2>2, <2>3, <2>4 DEF RankInv, SingleEdges, CanRank
<1>10. CASE UNCHANGED vars
  <2>1. Untouched /\ UNCHANGED <<pc, loop_vars, call_vars>>
    BY <1>10 DEF vars, Untouched
  <2> QED
    BY <2>1, QuietRankInv DEF loop_vars, call_vars, InTable, InRelax, Serving,
       Pass, Processed, WalkDescends, Position, Untouched, graph_vars, GetEdge
<1> QED
  BY <1>1, <1>2, <1>3, <1>4, <1>5, <1>6, <1>7, <1>8, <1>9, <1>10
  DEF Next, Construct, BuildRoute

(* A walk that goes down visits each vertex at most once.                  *)
LEMMA DescendingIsSimple ==
  ASSUME IInv, RankInv
  PROVE  WalkIsSimple
<1> SUFFICES ASSUME pc = "walk" PROVE Len(route) < VertexCount
  BY DEF WalkIsSimple
<1>1. PICK n \in Nat : n = Len(route)
  BY PositionType
<1>2. InTable /\ query[1] \in Vertex
  BY DEF InTable, Serving, IInv, TypeOK
<1>3. PICK rank \in Ranks : WalkDescends(rank)
  BY <1>2 DEF RankInv, CanRank
<1> DEFINE position == [i \in 0 .. n |-> Position(i)]
<1>4. position \in [0 .. n -> Vertex]
  BY <1>1, PositionType
<1>5. ASSUME NEW i \in 0 .. n, NEW j \in 0 .. n, i < j
      PROVE  position[i] # position[j]
  <2>1. rank[query[1]][Position(j)] < rank[query[1]][Position(i)]
    BY <1>1, <1>3, <1>5 DEF WalkDescends
  <2>2. rank[query[1]][Position(j)] \in Nat
    BY <1>1, <1>2, PositionType DEF Ranks
  <2>3. Position(i) # Position(j)
    BY <2>1, <2>2
  <2> QED
    BY <2>3
<1> HIDE DEF position
<1>6. \A i, j \in 0 .. n : i # j => position[i] # position[j]
  BY <1>5
<1>7. /\ IsFiniteSet(0 .. n) /\ Cardinality(0 .. n) = n + 1
      /\ IsFiniteSet(Vertex) /\ Cardinality(Vertex) = VertexCount
  BY FS_Interval, RouterAssumption DEF Vertex
<1>8. ~ (Cardinality(Vertex) < Cardinality(0 .. n))
  BY <1>4, <1>6, <1>7, FS_PigeonHole
<1> QED
  BY <1>1, <1>7, <1>8, RouterAssumption

(* Entries can be ranked in every state.                                   *)
LEMMA RanksHold == Spec => []RankInv
<1>1. Init => RankInv
  BY InitRankInv
<1>2. IInv /\ IInv' /\ RankInv /\ [Next]_vars => RankInv'
  BY RankInvStep
<1> QED
  BY <1>1, <1>2, Invariance, PTL DEF Spec

(* BuildRoute follows prev_edge less than once per vertex: its loop ends.  *)
THEOREM WalksAreSimple == Spec => []WalkIsSimple
<1>1. IInv /\ RankInv => WalkIsSimple
  BY DescendingIsSimple
<1> QED
  BY <1>1, RanksHold, Invariance, PTL

-----------------------------------------------------------------------------
(* Router implements ShortestPath.  The constructor prepares, a call of    *)
(* BuildRoute asks and replies, and every other step stutters; that the    *)
(* reply is a cheapest walk follows from the invariants above.             *)

(* What the costs of walks are taken from.                                 *)
CostSets == SUBSET (Vertex \X Int)

(* An edge of the sequence is an edge of the graph.                        *)
LEMMA PromiseEdge ==
  ASSUME TypeOK, NEW i \in DOMAIN edges
  PROVE  /\ i - 1 \in EdgeIds /\ edges[i] = GetEdge(i - 1)
         /\ edges[i].from \in Vertex /\ edges[i].to \in Vertex
         /\ edges[i].weight \in Int
<1>1. edges \in Seq(Edge) /\ i \in 1 .. Len(edges)
  BY DEF TypeOK
<1>2. i - 1 \in EdgeIds /\ (i - 1) + 1 = i
  BY <1>1 DEF EdgeIds
<1>3. edges[i] = GetEdge(i - 1)
  BY <1>2 DEF GetEdge
<1> QED
  BY <1>2, <1>3, EdgeType

(* Walks of one edge more.                                                 *)
LEMMA OneMoreEdgeFacts ==
  ASSUME TypeOK, NEW walks \in CostSets
  PROVE  /\ Promise!OneMoreEdge(walks) \in CostSets
         /\ walks \subseteq Promise!OneMoreEdge(walks)
         /\ \A p \in walks, i \in DOMAIN edges :
              edges[i].from = p[1] =>
                <<edges[i].to, p[2] + edges[i].weight>>
                  \in Promise!OneMoreEdge(walks)
         /\ \A q \in Promise!OneMoreEdge(walks) :
              \/ q \in walks
              \/ \E p \in walks, i \in DOMAIN edges :
                   /\ edges[i].from = p[1]
                   /\ q = <<edges[i].to, p[2] + edges[i].weight>>
<1> DEFINE through(i) ==
             {<<edges[i].to, p[2] + edges[i].weight>> :
                p \in {q \in walks : q[1] = edges[i].from}}
<1>1. Promise!OneMoreEdge(walks) =
        walks \cup UNION {through(i) : i \in DOMAIN edges}
  BY DEF Promise!OneMoreEdge
<1>2. \A i \in DOMAIN edges : through(i) \in CostSets
  BY PromiseEdge DEF CostSets
<1>3. ASSUME NEW p \in walks, NEW i \in DOMAIN edges, edges[i].from = p[1]
      PROVE  <<edges[i].to, p[2] + edges[i].weight>> \in through(i)
  BY <1>3
<1>4. ASSUME NEW i \in DOMAIN edges, NEW q \in through(i)
      PROVE  \E p \in walks : /\ edges[i].from = p[1]
                             /\ q = <<edges[i].to, p[2] + edges[i].weight>>
  OBVIOUS
<1> HIDE DEF through
<1>5. Promise!OneMoreEdge(walks) \in CostSets
  BY <1>1, <1>2 DEF CostSets
<1>6. walks \subseteq Promise!OneMoreEdge(walks)
  BY <1>1
<1>7. ASSUME NEW p \in walks, NEW i \in DOMAIN edges, edges[i].from = p[1]
      PROVE  <<edges[i].to, p[2] + edges[i].weight>>
               \in Promise!OneMoreEdge(walks)
  BY <1>1, <1>3, <1>7
<1>8. ASSUME NEW q \in Promise!OneMoreEdge(walks), q \notin walks
      PROVE  \E p \in walks, i \in DOMAIN edges :
               /\ edges[i].from = p[1]
               /\ q = <<edges[i].to, p[2] + edges[i].weight>>
  BY <1>1, <1>4, <1>8
<1> QED
  BY <1>5, <1>6, <1>7, <1>8

(* The recursion that defines WalkCosts unfolds.                           *)
LEMMA WalkCostsUnfold ==
  ASSUME TypeOK, NEW u \in Vertex
  PROVE  \E costs \in [Nat -> CostSets] :
           /\ costs[0] = {<<u, 0>>}
           /\ \A n \in Nat : costs[n + 1] = Promise!OneMoreEdge(costs[n])
           /\ Promise!WalkCosts(u) = costs[VertexCount - 1]
<1> DEFINE start  == {<<u, 0>>}
           more   == [n \in Nat |-> [walks \in CostSets |->
                                      Promise!OneMoreEdge(walks)]]
           Obeys(g) == g = [n \in Nat |-> IF n = 0 THEN {<<u, 0>>}
                                        ELSE Promise!OneMoreEdge(g[n - 1])]
           costs  == CHOOSE g : Obeys(g)
<1>1. Promise!WalkCosts(u) = costs[VertexCount - 1]
  BY DEF Promise!WalkCosts
<1>2. start \in CostSets /\ more \in StepsOn(CostSets)
  BY OneMoreEdgeFacts DEF CostSets, StepsOn
<1>3. PICK g \in [Nat -> CostSets] : Iterates(g, start, more)
  <2> HIDE DEF start, more
  <2> QED
    BY <1>2, PrimitiveRecursion
<1>4. g[0] = start /\ \A n \in Nat : g[n + 1] = more[n][g[n]]
  BY <1>3 DEF Iterates
<1>5. \A n \in Nat : g[n + 1] = Promise!OneMoreEdge(g[n])
  BY <1>4
<1>6. Obeys(g)
  <2>1. ASSUME NEW n \in Nat, n # 0 PROVE g[n] = Promise!OneMoreEdge(g[n - 1])
    <3>1. n - 1 \in Nat /\ (n - 1) + 1 = n
      BY <2>1
    <3> QED
      BY <1>5, <3>1
  <2> QED
    BY <1>4, <2>1
<1>7. Obeys(costs)
  <2> HIDE DEF Obeys
  <2> QED
    BY <1>6
<1> HIDE DEF costs
<1>8. costs[0] = {<<u, 0>>} /\ \A n \in Nat : costs[n + 1] = Promise!OneMoreEdge(costs[n])
  <2>1. \A n \in Nat : costs[n] = IF n = 0 THEN {<<u, 0>>}
                                 ELSE Promise!OneMoreEdge(costs[n - 1])
    BY <1>7
  <2>2. \A n \in Nat : n + 1 \in Nat /\ n + 1 # 0 /\ (n + 1) - 1 = n
    OBVIOUS
  <2> QED
    BY <2>1, <2>2
<1>9. \A n \in Nat : costs[n] \in CostSets
  <2> DEFINE S == {n \in Nat : costs[n] \in CostSets}
  <2>1. 0 \in S
    BY <1>2, <1>8
  <2>2. ASSUME NEW n \in S PROVE n + 1 \in S
    <3>1. costs[n] \in CostSets /\ n \in Nat
      OBVIOUS
    <3> QED
      BY <1>8, <3>1, OneMoreEdgeFacts
  <2>3. S = Nat
    <3>1. S \in SUBSET Nat
      OBVIOUS
    <3> HIDE DEF S
    <3> QED
      BY <2>1, <2>2, <3>1, SetInduction
  <2> QED
    BY <2>3
<1>10. costs \in [Nat -> CostSets]
  BY <1>7, <1>9
<1> QED
  BY <1>1, <1>8, <1>10

(* More edges reach more.                                                  *)
LEMMA CostsGrow ==
  ASSUME TypeOK, NEW costs \in [Nat -> CostSets],
         \A n \in Nat : costs[n + 1] = Promise!OneMoreEdge(costs[n]),
         NEW m \in Nat, NEW d \in Nat
  PROVE  costs[m] \subseteq costs[m + d]
<1> DEFINE S == {n \in Nat : costs[m] \subseteq costs[m + n]}
<1>1. 0 \in S
  OBVIOUS
<1>2. ASSUME NEW n \in S PROVE n + 1 \in S
  <2>1. m + n \in Nat /\ m + (n + 1) = (m + n) + 1
    OBVIOUS
  <2>2. costs[m + n] \in CostSets
    BY <2>1
  <2>3. costs[m + n] \subseteq costs[(m + n) + 1]
    BY <2>1, <2>2, OneMoreEdgeFacts
  <2> QED
    BY <2>1, <2>3
<1>3. S = Nat
  <2>1. S \in SUBSET Nat
    OBVIOUS
  <2> HIDE DEF S
  <2> QED
    BY <1>1, <1>2, <2>1, SetInduction
<1> QED
  BY <1>3

(* No walk is cheaper than the entry of its ends.                          *)
LEMMA WalksAreInTable ==
  ASSUME IInv, Serving, NEW u \in Vertex, NEW q \in Promise!WalkCosts(u)
  PROVE  /\ q[1] \in Vertex /\ q[2] \in Int
         /\ Known(u, q[1]) /\ Weight(u, q[1]) <= q[2]
<1>1. TypeOK /\ Known(u, u) /\ Weight(u, u) = 0
  BY TableFacts, NoRouteAssumption DEF IInv, SelfRoute, Known, Weight,
     RouteInternalData
<1>2. PICK costs \in [Nat -> CostSets] :
        /\ costs[0] = {<<u, 0>>}
        /\ \A n \in Nat : costs[n + 1] = Promise!OneMoreEdge(costs[n])
        /\ Promise!WalkCosts(u) = costs[VertexCount - 1]
  BY <1>1, WalkCostsUnfold
<1> DEFINE Sound(p) == /\ p[1] \in Vertex /\ p[2] \in Int
                       /\ Known(u, p[1]) /\ Weight(u, p[1]) <= p[2]
           S == {n \in Nat : \A p \in costs[n] : Sound(p)}
<1>3. 0 \in S
  BY <1>1, <1>2
<1>4. ASSUME NEW n \in S PROVE n + 1 \in S
  <2> SUFFICES ASSUME NEW p \in costs[n + 1] PROVE Sound(p)
    OBVIOUS
  <2>1. costs[n] \in CostSets /\ costs[n + 1] = Promise!OneMoreEdge(costs[n])
    BY <1>2
  <2>2. CASE p \in costs[n]
    BY <2>2
  <2>3. CASE \E r \in costs[n], i \in DOMAIN edges :
               /\ edges[i].from = r[1]
               /\ p = <<edges[i].to, r[2] + edges[i].weight>>
    <3>1. PICK r \in costs[n], i \in DOMAIN edges :
            /\ edges[i].from = r[1]
            /\ p = <<edges[i].to, r[2] + edges[i].weight>>
      BY <2>3
    <3>2. Sound(r)
      OBVIOUS
    <3>3. /\ i - 1 \in EdgeIds /\ edges[i] = GetEdge(i - 1)
          /\ edges[i].to \in Vertex /\ edges[i].weight \in Int
      BY <1>1, PromiseEdge
    <3>4. Within(u, edges[i].to, Weight(u, r[1]) + edges[i].weight)
      BY <3>1, <3>2, <3>3, TableFacts DEF Feasible
    <3>5. Weight(u, edges[i].to) \in Nat /\ Weight(u, r[1]) \in Nat
      BY <1>1, <3>2, <3>3, <3>4, EntryType DEF Within
    <3>6. p[1] = edges[i].to /\ p[2] = r[2] + edges[i].weight
      BY <3>1
    <3> QED
      BY <3>2, <3>3, <3>4, <3>5, <3>6 DEF Within
  <2> QED
    BY <1>1, <2>1, <2>2, <2>3, OneMoreEdgeFacts
<1>5. S = Nat
  <2>1. S \in SUBSET Nat
    OBVIOUS
  <2> HIDE DEF S
  <2> QED
    BY <1>3, <1>4, <2>1, SetInduction
<1>6. VertexCount - 1 \in Nat
  BY RouterAssumption
<1> QED
  BY <1>2, <1>5, <1>6

(* The recursion that defines WalkWeight unfolds.                          *)
LEMMA WalkWeightUnfold ==
  ASSUME TypeOK, NEW s \in Seq(Nat), \A i \in 1 .. Len(s) : s[i] \in EdgeIds
  PROVE  \E total \in [0 .. Len(s) -> Int] :
           /\ total[0] = 0
           /\ \A n \in 1 .. Len(s) :
                total[n] = total[n - 1] + GetEdge(s[n]).weight
           /\ Promise!WalkWeight(s) = total[Len(s)]
<1> DEFINE Obeys(g) == g = [n \in 0 .. Len(s) |->
                              IF n = 0 THEN 0
                              ELSE g[n - 1] + Promise!EdgeOf(s[n]).weight]
           total == CHOOSE g : Obeys(g)
           plus  == [n \in 1 .. Len(s) |-> [c \in Int |->
                                              c + GetEdge(s[n]).weight]]
<1>1. Promise!WalkWeight(s) = total[Len(s)]
  BY DEF Promise!WalkWeight
<1>2. \A n \in 1 .. Len(s) : /\ Promise!EdgeOf(s[n]) = GetEdge(s[n])
                             /\ GetEdge(s[n]).weight \in Int
  BY EdgeType DEF Promise!EdgeOf, GetEdge
<1>3. plus \in StepsTo(Len(s), Int) /\ Len(s) \in Nat
  BY <1>2 DEF StepsTo
<1>4. PICK g \in [0 .. Len(s) -> Int] : IteratesTo(Len(s), g, 0, plus)
  <2>1. 0 \in Int
    OBVIOUS
  <2> HIDE DEF plus
  <2> QED
    BY <1>3, <2>1, IntervalRecursion, Zenon
<1>5. \A n \in 1 .. Len(s) : g[n] = g[n - 1] + GetEdge(s[n]).weight
  <2> SUFFICES ASSUME NEW n \in 1 .. Len(s)
               PROVE  g[n] = g[n - 1] + GetEdge(s[n]).weight
    OBVIOUS
  <2>1. n - 1 \in 0 .. Len(s)
    BY <1>3
  <2> QED
    BY <1>4, <2>1 DEF IteratesTo
<1>6. Obeys(g)
  <2>1. \A n \in 0 .. Len(s) : n # 0 => n \in 1 .. Len(s)
    BY <1>3
  <2> QED
    BY <1>2, <1>4, <1>5, <2>1 DEF IteratesTo
<1>7. Obeys(total)
  <2> HIDE DEF Obeys
  <2> QED
    BY <1>6
<1> HIDE DEF total
<1>8. \A n \in 0 .. Len(s) : total[n] = IF n = 0 THEN 0
                                 ELSE total[n - 1] + Promise!EdgeOf(s[n]).weight
  BY <1>7
<1> DEFINE S == {n \in Nat : n <= Len(s) => total[n] = g[n]}
<1>9. S = Nat
  <2>1. 0 \in S
    BY <1>3, <1>4, <1>8 DEF IteratesTo
  <2>2. ASSUME NEW n \in S PROVE n + 1 \in S
    <3> SUFFICES ASSUME n + 1 <= Len(s) PROVE total[n + 1] = g[n + 1]
      OBVIOUS
    <3>1. n + 1 \in 1 .. Len(s) /\ (n + 1) - 1 = n /\ n \in 0 .. Len(s)
      BY <1>3
    <3>2. total[n] = g[n]
      BY <1>3
    <3> HIDE DEF S
    <3>3. total[n + 1] = total[n] + Promise!EdgeOf(s[n + 1]).weight
      <4>1. n + 1 \in 0 .. Len(s) /\ n + 1 # 0
        BY <3>1
      <4> QED
        BY <1>8, <3>1, <4>1
    <3>4. g[n + 1] = g[n] + GetEdge(s[n + 1]).weight
      BY <1>5, <3>1
    <3>5. Promise!EdgeOf(s[n + 1]) = GetEdge(s[n + 1])
      BY <1>2, <3>1
    <3> QED
      BY <3>2, <3>3, <3>4, <3>5
  <2>3. S \in SUBSET Nat
    OBVIOUS
  <2> HIDE DEF S
  <2> QED
    BY <2>1, <2>2, <2>3, SetInduction
<1>10. \A n \in 0 .. Len(s) : total[n] = g[n]
  BY <1>3, <1>9
<1> WITNESS g \in [0 .. Len(s) -> Int]
<1> QED
  BY <1>1, <1>3, <1>4, <1>5, <1>10 DEF IteratesTo

(* A walk along the table costs what the table says, and is short enough   *)
(* to be counted.                                                          *)
LEMMA WalkIsCounted ==
  ASSUME IInv, Serving, NEW u \in Vertex, NEW s \in Seq(Nat),
         Len(s) < VertexCount,
         \A i \in 1 .. Len(s) : OnTable(u, s[i]),
         \A i \in 1 .. Len(s) :
           GetEdge(s[i]).from = IF i = 1 THEN u ELSE GetEdge(s[i - 1]).to,
         NEW v \in Vertex,
         v = IF s = <<>> THEN u ELSE GetEdge(s[Len(s)]).to
  PROVE  /\ Promise!WalkWeight(s) = Weight(u, v)
         /\ <<v, Weight(u, v)>> \in Promise!WalkCosts(u)
<1>1. /\ TypeOK /\ Known(u, u) /\ Weight(u, u) = 0 /\ Len(s) \in Nat
      /\ VertexCount - 1 \in Nat
  BY TableFacts, NoRouteAssumption, RouterAssumption DEF IInv, SelfRoute, Known,
     Weight, RouteInternalData
<1>2. PICK costs \in [Nat -> CostSets] :
        /\ costs[0] = {<<u, 0>>}
        /\ \A n \in Nat : costs[n + 1] = Promise!OneMoreEdge(costs[n])
        /\ Promise!WalkCosts(u) = costs[VertexCount - 1]
  BY <1>1, WalkCostsUnfold
<1>3. \A i \in 1 .. Len(s) : s[i] \in EdgeIds
  BY DEF OnTable
<1>4. PICK total \in [0 .. Len(s) -> Int] :
        /\ total[0] = 0
        /\ \A n \in 1 .. Len(s) : total[n] = total[n - 1] + GetEdge(s[n]).weight
        /\ Promise!WalkWeight(s) = total[Len(s)]
  BY <1>1, <1>3, WalkWeightUnfold
<1> DEFINE End(n) == IF n = 0 THEN u ELSE GetEdge(s[n]).to
           S == {n \in Nat : n <= Len(s) =>
                   /\ total[n] = Weight(u, End(n))
                   /\ <<End(n), total[n]>> \in costs[n]}
<1>5. 0 \in S
  BY <1>1, <1>2, <1>4
<1>6. ASSUME NEW n \in S PROVE n + 1 \in S
  <2> DEFINE e == s[n + 1]
  <2> SUFFICES ASSUME n + 1 <= Len(s)
               PROVE  /\ total[n + 1] = Weight(u, End(n + 1))
                      /\ <<End(n + 1), total[n + 1]>> \in costs[n + 1]
    OBVIOUS
  <2>1. n + 1 \in 1 .. Len(s) /\ (n + 1) - 1 = n /\ n \in 0 .. Len(s) /\ n \in Nat
    BY <1>1
  <2>2. total[n] = Weight(u, End(n)) /\ <<End(n), total[n]>> \in costs[n]
    BY <1>1
  <2> HIDE DEF S
  <2>3. total[n + 1] = total[n] + GetEdge(e).weight
    BY <1>4, <2>1
  <2>4. /\ OnTable(u, e)
        /\ GetEdge(e).from = IF n + 1 = 1 THEN u ELSE GetEdge(s[(n + 1) - 1]).to
    BY <2>1
  <2>5. GetEdge(e).from = End(n) /\ GetEdge(e).to = End(n + 1)
    BY <2>1, <2>4
  <2>6. e \in EdgeIds /\ Weight(u, End(n + 1)) = Weight(u, End(n)) + GetEdge(e).weight
    BY <2>4, <2>5 DEF OnTable
  <2> HIDE DEF End, e
  <2>7. e + 1 \in DOMAIN edges /\ edges[e + 1] = GetEdge(e)
    <3>1. edges \in Seq(Edge)
      BY <1>1 DEF TypeOK
    <3> QED
      BY <2>6, <3>1 DEF EdgeIds, GetEdge
  <2>8. costs[n] \in CostSets /\ costs[n + 1] = Promise!OneMoreEdge(costs[n])
    BY <1>2, <2>1
  <2>9. PICK p \in costs[n] : p[1] = End(n) /\ p[2] = total[n]
    BY <2>2
  <2>10. <<edges[e + 1].to, p[2] + edges[e + 1].weight>> \in costs[n + 1]
    <3>1. edges[e + 1].from = p[1]
      BY <2>5, <2>7, <2>9
    <3>2. <<edges[e + 1].to, p[2] + edges[e + 1].weight>>
            \in Promise!OneMoreEdge(costs[n])
      BY <1>1, <2>7, <2>8, <3>1, OneMoreEdgeFacts
    <3> QED
      BY <2>8, <3>2
  <2>11. total[n + 1] = Weight(u, End(n + 1))
    BY <2>2, <2>3, <2>6
  <2>12. edges[e + 1].to = End(n + 1)
    BY <2>5, <2>7
  <2>13. p[2] + edges[e + 1].weight = total[n + 1]
    BY <2>3, <2>7, <2>9
  <2> QED
    BY <2>10, <2>11, <2>12, <2>13
<1>7. S = Nat
  <2>1. S \in SUBSET Nat
    OBVIOUS
  <2> HIDE DEF S
  <2> QED
    BY <1>5, <1>6, <2>1, SetInduction
<1>8. End(Len(s)) = v
  BY <1>1
<1>9. total[Len(s)] = Weight(u, v) /\ <<v, total[Len(s)]>> \in costs[Len(s)]
  <2>1. Len(s) \in S
    BY <1>1, <1>7
  <2>2. Len(s) <= Len(s)
    BY <1>1
  <2>3. /\ total[Len(s)] = Weight(u, End(Len(s)))
        /\ <<End(Len(s)), total[Len(s)]>> \in costs[Len(s)]
    BY <2>1, <2>2
  <2> HIDE DEF End, S
  <2> QED
    BY <1>8, <2>3
<1>10. costs[Len(s)] \subseteq costs[VertexCount - 1]
  <2> DEFINE d == (VertexCount - 1) - Len(s)
  <2>1. d \in Nat /\ VertexCount - 1 = Len(s) + d
    BY <1>1, RouterAssumption
  <2> HIDE DEF d
  <2>2. costs[Len(s)] \subseteq costs[Len(s) + d]
    BY <1>1, <1>2, <2>1, CostsGrow
  <2> QED
    BY <2>1, <2>2
<1> QED
  BY <1>2, <1>4, <1>9, <1>10

(* It is a walk of the graph.                                              *)
LEMMA WalkIsWalk ==
  ASSUME TypeOK, NEW u, NEW v, NEW s \in Seq(Nat),
         \A i \in 1 .. Len(s) : OnTable(u, s[i]),
         \A i \in 1 .. Len(s) :
           GetEdge(s[i]).from = IF i = 1 THEN u ELSE GetEdge(s[i - 1]).to,
         v = IF s = <<>> THEN u ELSE GetEdge(s[Len(s)]).to
  PROVE  Promise!IsWalk(s, u, v)
<1>1. DOMAIN s = 1 .. Len(s) /\ DOMAIN edges = 1 .. Len(edges) /\ Len(edges) \in Nat
  BY DEF TypeOK
<1>2. \A i \in DOMAIN s : s[i] + 1 \in DOMAIN edges
  BY <1>1 DEF OnTable, EdgeIds
<1>3. \A e : Promise!EdgeOf(e) = GetEdge(e)
  BY DEF Promise!EdgeOf, GetEdge
<1> QED
  BY <1>1, <1>2, <1>3 DEF Promise!IsWalk

-----------------------------------------------------------------------------
(* The replies.                                                            *)

(* A vertex without an entry has no walk to it.                            *)
LEMMA NoEntryNoWalk ==
  ASSUME IInv, Serving, NEW u \in Vertex, NEW v \in Vertex, ~ Known(u, v)
  PROVE  Promise!CostsTo(u, v) = {}
BY WalksAreInTable DEF Promise!CostsTo

(* The entry is the least of the costs it is one of.                       *)
LEMMA EntryIsLeast ==
  ASSUME IInv, Serving, NEW u \in Vertex, NEW v \in Vertex, Known(u, v),
         <<v, Weight(u, v)>> \in Promise!WalkCosts(u)
  PROVE  /\ Promise!CostsTo(u, v) # {}
         /\ Weight(u, v) = Promise!Min(Promise!CostsTo(u, v))
<1> DEFINE C == Promise!CostsTo(u, v)
           w == Weight(u, v)
<1>1. w \in C
  BY DEF Promise!CostsTo
<1>2. \A c \in C : c \in Int /\ w <= c
  BY WalksAreInTable DEF Promise!CostsTo
<1>3. Promise!Min(C) = CHOOSE x \in C : \A y \in C : x <= y
  BY DEF Promise!Min
<1> HIDE DEF C, w
<1>4. Promise!Min(C) = w
  BY <1>1, <1>2, <1>3
<1> QED
  BY <1>1, <1>4 DEF C, w

(* ReturnRoute replies with a cheapest walk.                               *)
LEMMA ReturnReplies ==
  ASSUME IInv, IInv', RankInv, AnswerInv', ReturnRoute
  PROVE  /\ answer' # NoRoute
         /\ Promise!CostsTo(query[1], query[2]) # {}
         /\ Promise!IsShortest(answer', query[1], query[2])
<1> DEFINE u == query[1]
           v == query[2]
           s == answer'.edges
<1>1. /\ pc = "walk" /\ Serving /\ TypeOK /\ u \in Vertex /\ v \in Vertex
      /\ Known(u, v) /\ Len(route) < VertexCount
  BY QueryKnown, DescendingIsSimple DEF ReturnRoute, Serving, IInv, TypeOK,
     WalkIsSimple
<1>2. /\ answer'.weight = Weight(u, v) /\ s = Reversed(route)
      /\ UNCHANGED <<edges, incidence_lists, routes_internal_data, query>>
  BY DEF ReturnRoute, graph_vars
<1>3. Len(s) = Len(route) /\ route \in Seq(Nat) /\ s \in Seq(Nat)
  BY <1>1, <1>2 DEF Reversed, TypeOK
<1>4. answer' \in RouteInfo /\ answer' # NoRoute /\ answer' # NoAnswer
  <2>1. answer' = [weight |-> Weight(u, v), edges |-> s]
    BY <1>2 DEF ReturnRoute
  <2>2. Weight(u, v) \in Nat
    BY <1>1, EntryType
  <2>3. answer' \in RouteInfo
    BY <1>3, <2>1, <2>2 DEF RouteInfo
  <2> QED
    BY <2>3, NoRouteAssumption
<1>5. \A e : /\ GetEdge(e)' = GetEdge(e)
             /\ OnTable(query[1], e)' <=> OnTable(query[1], e)
  BY <1>2 DEF GetEdge, OnTable, EdgeIds, Known, Weight, Entry
<1>6. /\ \A i \in 1 .. Len(s) : OnTable(u, s[i])
      /\ \A i \in 1 .. Len(s) :
           GetEdge(s[i]).from = IF i = 1 THEN u ELSE GetEdge(s[i - 1]).to
      /\ v = IF s = <<>> THEN u ELSE GetEdge(s[Len(s)]).to
  BY <1>2, <1>4, <1>5 DEF AnswerInv, AnswerIsWalk
<1> HIDE DEF u, v, s
<1>7. Promise!IsWalk(s, u, v)
  BY <1>1, <1>3, <1>6, WalkIsWalk
<1>8. /\ Promise!WalkWeight(s) = Weight(u, v)
      /\ <<v, Weight(u, v)>> \in Promise!WalkCosts(u)
  BY <1>1, <1>3, <1>6, WalkIsCounted
<1>9. /\ Promise!CostsTo(u, v) # {}
      /\ Weight(u, v) = Promise!Min(Promise!CostsTo(u, v))
  BY <1>1, <1>8, EntryIsLeast
<1> QED
  BY <1>2, <1>4, <1>7, <1>8, <1>9 DEF Promise!IsShortest, u, v, s

(* Every step of the router is a step of ShortestPath or a stutter.        *)
LEMMA StepSimulates ==
  ASSUME IInv, IInv', RankInv, AnswerInv', [Next]_vars
  PROVE  [Promise!Next]_(Promise!vars)
<1> USE DEF Promise!vars
<1>1. CASE \E from, to \in Vertex, weight \in Weights : AddEdge(from, to, weight)
  <2>1. PICK from \in Vertex, to \in Vertex, weight \in Weights :
          AddEdge(from, to, weight)
    BY <1>1
  <2>2. Promise!Add(from, to, weight)
    BY <2>1 DEF AddEdge, Promise!Add, Phase, InInit, InRelax, call_vars
  <2> QED
    BY <2>2 DEF Promise!Next, Promise!Vertex, Vertex
<1>2. CASE ConstructRouter
  <2>1. Promise!HandOver
    BY <1>2 DEF ConstructRouter, Promise!HandOver, Phase, InInit, InRelax,
       graph_vars, call_vars
  <2> QED
    BY <2>1 DEF Promise!Next
<1>3. CASE InitEdge /\ pc' = "domain_error"
  <2> DEFINE id == incidence_lists[vertex_from][slot]
  <2>1. /\ vertex_from \in Vertex /\ slot \in 1 .. Len(incidence_lists[vertex_from])
        /\ pc = "init_edge"
    BY <1>3, RouterAssumption DEF InitEdge, GetIncidentEdges, IInv, TypeOK,
       LoopsInRange, Vertex
  <2>2. id \in EdgeIds /\ edges \in Seq(Edge)
    BY <2>1 DEF IInv, TypeOK, GraphConsistent
  <2>3. GetEdge(id).weight < 0
    BY <1>3, <2>1 DEF InitEdge, GetIncidentEdges, IsNegative
  <2>4. id + 1 \in DOMAIN edges /\ edges[id + 1].weight < 0
    BY <2>2, <2>3 DEF EdgeIds, GetEdge
  <2>5. Promise!HasNegative
    BY <2>4 DEF Promise!HasNegative
  <2>6. Promise!Prepare
    BY <1>3, <2>1, <2>5 DEF InitEdge, Promise!Prepare, Phase, InInit, InRelax,
       graph_vars, call_vars
  <2> QED
    BY <2>6 DEF Promise!Next
<1>4. CASE \/ InitVertex \/ InitNextVertex \/ InitDone
           \/ InitEdge /\ pc' # "domain_error"
           \/ RelaxFrom \/ RelaxTo \/ RelaxNextFrom \/ RelaxNextThrough
  <2>1. /\ UNCHANGED <<edges, query, answer>>
        /\ pc \in {"init_vertex", "init_edge", "relax_from", "relax_to"}
        /\ pc' \in {"init_vertex", "init_edge", "relax_from", "relax_to"}
    BY <1>4 DEF InitVertex, InitNextVertex, InitDone, InitEdge, RelaxFrom,
       RelaxTo, RelaxNextFrom, RelaxNextThrough, graph_vars, call_vars
  <2>2. Phase = "preparing" /\ Phase' = "preparing"
    BY <2>1 DEF Phase, InInit, InRelax
  <2> QED
    BY <2>1, <2>2
<1>5. CASE RelaxDone
  <2>1. \A i \in DOMAIN edges : i - 1 \in EdgeIds /\ edges[i] = GetEdge(i - 1)
    BY PromiseEdge DEF IInv
  <2>2. \A e \in EdgeIds : GetEdge(e).weight \in Nat
    BY <1>5, EdgeInTable DEF RelaxDone, InTable, InRelax
  <2>3. ~ Promise!HasNegative
    BY <2>1, <2>2 DEF Promise!HasNegative
  <2>4. Promise!Prepare
    BY <1>5, <2>3 DEF RelaxDone, Promise!Prepare, Phase, InInit, InRelax,
       graph_vars, call_vars
  <2> QED
    BY <2>4 DEF Promise!Next
<1>6. CASE \E from, to \in Vertex : CallBuildRoute(from, to)
  <2>1. PICK from \in Vertex, to \in Vertex : CallBuildRoute(from, to)
    BY <1>6
  <2>2. Promise!Ask(from, to)
    BY <2>1 DEF CallBuildRoute, Promise!Ask, Phase, InInit, InRelax, graph_vars
  <2> QED
    BY <2>2 DEF Promise!Next, Promise!Vertex, Vertex
<1>7. CASE RouteMissing
  <2>1. Promise!CostsTo(query[1], query[2]) = {}
    BY <1>7, NoEntryNoWalk DEF RouteMissing, Serving, IInv, TypeOK
  <2>2. Promise!Reply
    BY <1>7, <2>1 DEF RouteMissing, Promise!Reply, Phase, InInit, InRelax,
       graph_vars
  <2> QED
    BY <2>2 DEF Promise!Next
<1>8. CASE RouteFound \/ WalkBack
  <2>1. /\ UNCHANGED <<edges, query, answer>>
        /\ pc \in {"lookup", "walk"} /\ pc' \in {"lookup", "walk"}
    BY <1>8, WalkBackEdge DEF RouteFound, WalkBack, graph_vars
  <2>2. Phase = "asked" /\ Phase' = "asked"
    BY <2>1 DEF Phase, InInit, InRelax
  <2> QED
    BY <2>1, <2>2
<1>9. CASE ReturnRoute
  <2>1. Promise!Reply
    BY <1>9, ReturnReplies DEF ReturnRoute, Promise!Reply, Phase, InInit,
       InRelax, graph_vars
  <2> QED
    BY <2>1 DEF Promise!Next
<1>10. CASE UNCHANGED vars
  BY <1>10 DEF vars, graph_vars, call_vars, Phase, InInit, InRelax
<1> QED
  BY <1>1, <1>2, <1>3, <1>4, <1>5, <1>6, <1>7, <1>8, <1>9, <1>10
  DEF Next, Construct, BuildRoute

(* graph::Router implements ShortestPath: it refuses exactly the graphs    *)
(* with a negative edge and answers every question with a cheapest walk,   *)
(* or with std::nullopt if there is no walk.                               *)
THEOREM Refinement == Spec => ImplementsShortestPath
<1>1. Init => Promise!Init
  BY DEF Init, Promise!Init, Phase, InInit, InRelax
<1>2. IInv /\ IInv' /\ RankInv /\ AnswerInv' /\ [Next]_vars
        => [Promise!Next]_(Promise!vars)
  BY StepSimulates
<1>3. Spec => [](IInv /\ RankInv /\ AnswerInv)
  BY Invariance, RanksHold, AnswersHold, PTL
<1> QED
  BY <1>1, <1>2, <1>3, PTL DEF Spec, ImplementsShortestPath, Promise!Spec
=============================================================================
