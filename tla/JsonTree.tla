------------------------------ MODULE JsonTree ------------------------------
(***************************************************************************)
(* What json::Builder promises a caller who keeps to the grammar of JSON:  *)
(* the calls made so far describe a row of open containers, and the call   *)
(* that closes the outermost one, or a single value, makes the document.   *)
(* A caller who breaks the grammar is promised nothing.                    *)
(***************************************************************************)
EXTENDS Naturals, Sequences

CONSTANTS Keys, Values, Null, NoKey

VARIABLES
  open,   (* the open containers, outermost first: [node, key], where key is *)
          (* the one whose value is still to come                          *)
  root,   (* what Build returns                                            *)
  phase   (* "building", "done", "broken"                                  *)

vars == <<open, root, phase>>

Leaf(value) == [kind |-> "leaf", value |-> value]
EmptyContainer(kind) ==
  IF kind = "array" THEN [kind |-> "array", elements |-> <<>>]
  ELSE [kind |-> "dict", members |-> [k \in {} |-> Null]]

Without(members, key) == [k \in DOMAIN members \ {key} |-> members[k]]

Put(container, node) ==
  IF container.node.kind = "array"
    THEN [node |-> [container.node EXCEPT !.elements = Append(@, node)], key |-> NoKey]
    ELSE [node |-> [container.node EXCEPT !.members =
                      [k \in DOMAIN @ \cup {container.key} |->
                         IF k = container.key THEN node ELSE @[k]]],
          key |-> NoKey]

Front(s) == SubSeq(s, 1, Len(s) - 1)
Top == open[Len(open)]

Init == open = <<>> /\ root = Leaf(Null) /\ phase = "building"

Takes(kind) == open # <<>> /\ Top.node.kind = kind

MayValue == phase = "building" /\
  (open = <<>> \/ Takes("array") \/ (Takes("dict") /\ Top.key # NoKey))
MayKey == phase = "building" /\ Takes("dict") /\ Top.key = NoKey
MayEnd(kind) == phase = "building" /\ Takes(kind) /\ Top.key = NoKey

(* A key that is given twice keeps only the later value.                   *)
Key(key) ==
  /\ MayKey
  /\ open' = Append(Front(open),
                    [node |-> [Top.node EXCEPT !.members = Without(@, key)], key |-> key])
  /\ UNCHANGED <<root, phase>>

Receive(containers, node) ==
  IF containers = <<>>
    THEN open' = <<>> /\ root' = node /\ phase' = "done"
    ELSE /\ open' = Append(Front(containers), Put(containers[Len(containers)], node))
         /\ UNCHANGED <<root, phase>>

Value(value) == MayValue /\ Receive(open, Leaf(value))

Start(kind) ==
  /\ MayValue
  /\ open' = Append(open, [node |-> EmptyContainer(kind), key |-> NoKey])
  /\ UNCHANGED <<root, phase>>

End(kind) == MayEnd(kind) /\ Receive(Front(open), Top.node)

BreakGrammar ==
  /\ phase' = "broken"
  /\ open' = <<>> /\ root' = Leaf(Null)

Next ==
  \/ \E key \in Keys : Key(key)
  \/ \E value \in Values : Value(value)
  \/ \E kind \in {"array", "dict"} : Start(kind) \/ End(kind)
  \/ BreakGrammar

Spec == Init /\ [][Next]_vars
=============================================================================
