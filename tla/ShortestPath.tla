---------------------------- MODULE ShortestPath ----------------------------
(***************************************************************************)
(* What graph::Router promises to its caller, without a table: once a      *)
(* graph is handed over, it is refused if an edge weighs less than         *)
(* nothing, and otherwise each question is answered with some walk of      *)
(* least weight, or with NoRoute if there is none.                         *)
(***************************************************************************)
EXTENDS Integers, Sequences, FiniteSetsExt

CONSTANTS VertexCount, Weights, NoRoute, NoAnswer

Vertex == 0 .. VertexCount - 1

VARIABLES
  edges,    (* the graph's edges in the order they were added *)
  phase,    (* "building", "preparing", "refused", "serving", "asked" *)
  query,
  answer

vars == <<edges, phase, query, answer>>

(* <<x, c>> stands for a walk of cost c to vertex x.                       *)
OneMoreEdge(walks) ==
  walks \cup
    UNION {{<<edges[i].to, p[2] + edges[i].weight>> :
              p \in {q \in walks : q[1] = edges[i].from}} : i \in DOMAIN edges}

(* Every walk of at most VertexCount - 1 edges from u: with weights >= 0 a *)
(* cheapest walk needs no more.                                            *)
WalkCosts(u) ==
  LET costs[n \in Nat] ==
        IF n = 0 THEN {<<u, 0>>} ELSE OneMoreEdge(costs[n - 1])
  IN  costs[VertexCount - 1]

CostsTo(u, v) == {p[2] : p \in {q \in WalkCosts(u) : q[1] = v}}

(* s, a sequence of edge ids (which count from 0), is a walk from u to v.  *)
EdgeOf(e) == edges[e + 1]

IsWalk(s, u, v) ==
  /\ \A i \in DOMAIN s : s[i] + 1 \in DOMAIN edges
  /\ \A i \in DOMAIN s :
       EdgeOf(s[i]).from = IF i = 1 THEN u ELSE EdgeOf(s[i - 1]).to
  /\ v = IF s = <<>> THEN u ELSE EdgeOf(s[Len(s)]).to

WalkWeight(s) ==
  LET total[n \in 0 .. Len(s)] ==
        IF n = 0 THEN 0 ELSE total[n - 1] + EdgeOf(s[n]).weight
  IN  total[Len(s)]

Init ==
  /\ edges = <<>>
  /\ phase = "building"
  /\ query = <<0, 0>>
  /\ answer = NoAnswer

Add(from, to, weight) ==
  /\ phase = "building"
  /\ edges' = Append(edges, [from |-> from, to |-> to, weight |-> weight])
  /\ UNCHANGED <<phase, query, answer>>

HandOver ==
  /\ phase = "building"
  /\ phase' = "preparing"
  /\ UNCHANGED <<edges, query, answer>>

HasNegative == \E i \in DOMAIN edges : edges[i].weight < 0

Prepare ==
  /\ phase = "preparing"
  /\ phase' = IF HasNegative THEN "refused" ELSE "serving"
  /\ UNCHANGED <<edges, query, answer>>

Ask(u, v) ==
  /\ phase = "serving"
  /\ phase' = "asked"
  /\ query' = <<u, v>>
  /\ answer' = NoAnswer
  /\ UNCHANGED edges

IsShortest(a, u, v) ==
  /\ IsWalk(a.edges, u, v)
  /\ a.weight = WalkWeight(a.edges)
  /\ a.weight = Min(CostsTo(u, v))

Reply ==
  /\ phase = "asked"
  /\ phase' = "serving"
  /\ IF CostsTo(query[1], query[2]) = {}
       THEN answer' = NoRoute
       ELSE answer' # NoRoute /\ IsShortest(answer', query[1], query[2])
  /\ UNCHANGED <<edges, query>>

Next ==
  \/ \E from, to \in Vertex, weight \in Weights : Add(from, to, weight)
  \/ HandOver
  \/ Prepare
  \/ \E u, v \in Vertex : Ask(u, v)
  \/ Reply

Spec == Init /\ [][Next]_vars
=============================================================================
