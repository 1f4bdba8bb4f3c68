--------------------------- MODULE RouterPromise ---------------------------
(***************************************************************************)
(* graph::Router as its caller sees it: an implementation of ShortestPath. *)
(* The refinement mapping keeps the edges, the question and the answer and *)
(* reads the caller's phase off the point of the code that runs next.      *)
(***************************************************************************)
EXTENDS Router

(* The phase of the caller's view; an undefined read maps to no phase.     *)
Phase ==
  CASE pc = "graph"                  -> "building"
    [] InInit \/ InRelax             -> "preparing"
    [] pc = "ready"                  -> "serving"
    [] pc \in {"lookup", "walk"}     -> "asked"
    [] pc = "domain_error"           -> "refused"
    [] OTHER                         -> "undefined"

Promise == INSTANCE ShortestPath WITH phase <- Phase

(* graph::Router is an implementation of ShortestPath: it answers each     *)
(* question with a cheapest walk, or with std::nullopt if there is none,   *)
(* and refuses exactly the graphs with a negative edge.                    *)
ImplementsShortestPath == Promise!Spec
=============================================================================
