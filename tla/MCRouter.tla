------------------------------ MODULE MCRouter ------------------------------
(* graph::Router on small graphs, checked against ShortestPath.            *)
EXTENDS RouterPromise

MCWeights == {-1, 0, 1}

ZeroOneWeights == {0, 1}

(* Graphs of four vertices, up to the order of AddEdge calls and without   *)
(* loops and parallel edges: the order in which the vertices are relaxed,  *)
(* not the one in which the edges came, is what their run is about.        *)
EdgeRank(edge) == edge.from * VertexCount + edge.to

AddedInOrder ==
  pc = "graph" /\ pc' = "graph" =>
    LET n == Len(edges')
    IN  /\ edges'[n].from # edges'[n].to
        /\ n > 1 => EdgeRank(edges'[n - 1]) < EdgeRank(edges'[n])
=============================================================================
