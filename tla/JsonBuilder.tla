---------------------------- MODULE JsonBuilder ----------------------------
(***************************************************************************)
(* json::Builder (json_builder.h/.cpp).  The document is built in place:   *)
(* node_stack_ holds raw pointers to the containers that are open, and all *)
(* of them but the first point into the container below them, a            *)
(* std::vector or a std::map that goes on growing.                         *)
(*                                                                         *)
(* Memory is a function from addresses to nodes; addresses are not used    *)
(* again, so that a stale pointer can be told.  The methods of the context *)
(* classes call the same six functions and are not told apart.  The caller *)
(* is arbitrary; phase records whether it has kept to the grammar of JSON. *)
(***************************************************************************)
EXTENDS Naturals, Sequences

CONSTANTS
  Keys,
  Values,
  Null,       (* the value of Node()                                       *)
  EmptyKey,   (* key_ before the first key: the empty string               *)
  NoAddress,  (* root_ptr_ before it is assigned                           *)
  MaxCalls    (* bound on the number of calls                              *)

ASSUME BuilderAssumption ==
  /\ EmptyKey \in Keys
  /\ NoAddress \notin Nat \cup Keys
  /\ MaxCalls \in Nat

VARIABLES
  heap,             (* address -> node                                     *)
  last,             (* the last address that was handed out                *)
  node_stack,       (* node_stack_                                         *)
  key,              (* key_                                                *)
  is_previous_key,  (* is_previous_key_ (nothing in the program reads it)  *)
  root_ptr,         (* root_ptr_                                           *)
  root,             (* root_, the value Build returns                      *)
  status,           (* "ok", "threw", "undefined"                          *)
  phase,            (* "building", "done", "broken"                        *)
  calls

vars == <<heap, last, node_stack, key, is_previous_key, root_ptr, root, status,
          phase, calls>>

Leaf(value) == [kind |-> "leaf", value |-> value]
NewArray == [kind |-> "array", elements |-> <<>>]
NewDict  == [kind |-> "dict", members |-> [k \in {} |-> NoAddress]]

(* What a copy of the node at an address holds.                            *)
Tree(at) ==
  LET tree[a \in DOMAIN heap] ==
        CASE heap[a].kind = "leaf" -> heap[a]
          [] heap[a].kind = "array" ->
               [kind |-> "array",
                elements |-> [k \in DOMAIN heap[a].elements |-> tree[heap[a].elements[k]]]]
          [] OTHER ->
               [kind |-> "dict",
                members |-> [k \in DOMAIN heap[a].members |-> tree[heap[a].members[k]]]]
  IN  tree[at]

Depth == Len(node_stack)
Top == node_stack[Depth]
TopIs(kind) == Depth > 0 /\ heap[Top].kind = kind

-----------------------------------------------------------------------------
(* Memory.                                                                 *)

Store(address, node) ==
  [a \in DOMAIN heap \cup {address} |-> IF a = address THEN node ELSE heap[a]]

Elements == heap[Top].elements
Members  == heap[Top].members

(* The elements of an array may have to move to a larger buffer; they take *)
(* along what they own.                                                    *)
MayMove == IF TopIs("array") /\ Elements # <<>> THEN BOOLEAN ELSE {FALSE}

NewElement == last + Len(Elements) + 1

AfterEmplaceBack(moved) ==
  IF moved THEN [k \in 1 .. Len(Elements) + 1 |-> last + k]
  ELSE Append(Elements, NewElement)

(* array.emplace_back(node)                                                *)
WithElement(node, moved) ==
  LET elements == AfterEmplaceBack(moved)
      gone     == IF moved THEN {Elements[k] : k \in DOMAIN Elements} ELSE {}
  IN  [a \in ((DOMAIN heap) \ gone) \cup {elements[k] : k \in DOMAIN elements} |->
         IF a = Top THEN [kind |-> "array", elements |-> elements]
         ELSE IF a = NewElement THEN node
         ELSE IF a > last THEN heap[Elements[a - last]]
         ELSE heap[a]]

(* dict[k]: a std::map never moves its nodes.                              *)
MemberAddress(k) == IF k \in DOMAIN Members THEN Members[k] ELSE last + 1

InsertedMember(k, node) ==
  [a \in DOMAIN heap \cup {MemberAddress(k)} |->
     IF a = Top
       THEN [kind |-> "dict",
             members |-> [m \in DOMAIN Members \cup {k} |->
                            IF m = k THEN MemberAddress(k) ELSE Members[m]]]
     ELSE IF a = MemberAddress(k) /\ k \notin DOMAIN Members THEN node
     ELSE heap[a]]

(* dict[k] = node                                                          *)
WithMember(k, node) ==
  [a \in DOMAIN heap \cup {MemberAddress(k)} |->
     IF a = Top
       THEN [kind |-> "dict",
             members |-> [m \in DOMAIN Members \cup {k} |->
                            IF m = k THEN MemberAddress(k) ELSE Members[m]]]
     ELSE IF a = MemberAddress(k) THEN node
     ELSE heap[a]]

(* Where a node is put: outside any container, behind the last element of  *)
(* the open array, or at the last key of the open dictionary.              *)
Slot ==
  IF Depth = 0 THEN last + 1
  ELSE IF TopIs("array") THEN NewElement
  ELSE MemberAddress(key)

PlaceNode(node, moved) ==
  /\ heap' = IF Depth = 0 THEN Store(Slot, node)
             ELSE IF TopIs("array") THEN WithElement(node, moved)
             ELSE WithMember(key, node)
  /\ last' = IF TopIs("array") THEN NewElement ELSE last + 1

-----------------------------------------------------------------------------
(* The grammar of JSON, which nothing in the builder enforces.             *)

MayValue == \/ Depth = 0 /\ phase = "building"
            \/ TopIs("array")
            \/ TopIs("dict") /\ is_previous_key
MayKey == TopIs("dict") /\ ~ is_previous_key
MayEnd(kind) == TopIs(kind) /\ ~ is_previous_key

Judge(allowed, completes) ==
  phase' = IF phase = "broken" \/ ~ allowed THEN "broken"
           ELSE IF completes THEN "done" ELSE phase

-----------------------------------------------------------------------------
(* The calls.                                                              *)

Init ==
  /\ heap = [a \in {} |-> Leaf(Null)] /\ last = 0
  /\ node_stack = <<>> /\ key = EmptyKey /\ is_previous_key = FALSE
  /\ root_ptr = NoAddress /\ root = Leaf(Null)
  /\ status = "ok" /\ phase = "building" /\ calls = 0

Call ==
  /\ status = "ok"
  /\ calls < MaxCalls
  /\ calls' = calls + 1

InsertMember(k) == IF k \in DOMAIN Members THEN heap ELSE WithMember(k, Leaf(Null))

(* back() of an empty vector is undefined, std::get<Dict> of an array      *)
(* throws.  insert leaves a key that is already there alone.               *)
KeyLogic(k) ==
  /\ Call
  /\ is_previous_key' = TRUE
  /\ key' = k
  /\ IF TopIs("dict")
       THEN heap' = InsertMember(k) /\ last' = last + 1 /\ UNCHANGED status
       ELSE /\ status' = IF Depth = 0 THEN "undefined" ELSE "threw"
            /\ UNCHANGED <<heap, last>>
  /\ Judge(MayKey, FALSE)
  /\ UNCHANGED <<node_stack, root_ptr, root>>

ValueLogic(value) ==
  /\ Call
  /\ is_previous_key' = FALSE
  /\ \E moved \in MayMove : PlaceNode(Leaf(value), moved)
  /\ IF Depth = 0 THEN root_ptr' = Slot /\ root' = Leaf(value)
     ELSE UNCHANGED <<root_ptr, root>>
  /\ Judge(MayValue, Depth = 0)
  /\ UNCHANGED <<node_stack, key, status>>

BufferOfOld == IF TopIs("array") /\ Elements # <<>> THEN Elements[Len(Elements)] ELSE Slot
Opened == Slot

(* StartArrayLogic and StartDictLogic                                      *)
StartLogic(container) ==
  /\ Call
  /\ is_previous_key' = FALSE
  /\ \E moved \in MayMove : PlaceNode(container, moved)
  /\ node_stack' = Append(node_stack, Opened)
  /\ root_ptr' = IF Depth = 0 THEN Opened ELSE root_ptr
  /\ Judge(MayValue, FALSE)
  /\ UNCHANGED <<key, root, status>>

StartArray == StartLogic(NewArray)
StartDict == StartLogic(NewDict)

PoppedFromNested == IF Depth > 1 THEN SubSeq(node_stack, 1, Depth - 1) ELSE node_stack
Popped == SubSeq(node_stack, 1, Depth - 1)

(* EndArrayLogic and EndDictLogic do the same, whatever is open.           *)
EndLogic(kind) ==
  /\ Call
  /\ IF Depth = 0
       THEN status' = "undefined" /\ UNCHANGED <<node_stack, root>>
       ELSE /\ node_stack' = Popped
            /\ root' = IF Depth = 1 THEN Tree(root_ptr) ELSE root
            /\ UNCHANGED status
  /\ Judge(MayEnd(kind), Depth = 1)
  /\ UNCHANGED <<heap, last, key, is_previous_key, root_ptr>>

EndArray == EndLogic("array")
EndDict == EndLogic("dict")

Next ==
  \/ \E k \in Keys : KeyLogic(k)
  \/ \E value \in Values : ValueLogic(value)
  \/ StartArray \/ StartDict
  \/ EndArray \/ EndDict

Spec == Init /\ [][Next]_vars

-----------------------------------------------------------------------------
(* Type invariant.                                                         *)

IsArray(node) == node.kind = "array" /\ node = [kind |-> "array", elements |-> node.elements]
IsDict(node)  == node.kind = "dict" /\ node = [kind |-> "dict", members |-> node.members]

NodeOK(node, bound) ==
  \/ node.kind = "leaf"
  \/ IsArray(node) /\ node.elements \in Seq(1 .. bound)
  \/ /\ IsDict(node) /\ DOMAIN node.members \subseteq Keys
     /\ node.members \in [DOMAIN node.members -> 1 .. bound]

(* Memory holds leaves, arrays of addresses and dictionaries of addresses, *)
(* none of them beyond the last address handed out.                        *)
TypeOK ==
  /\ last \in Nat /\ calls \in 0 .. MaxCalls
  /\ DOMAIN heap \subseteq 1 .. last
  /\ \A a \in DOMAIN heap : NodeOK(heap[a], last)
  /\ node_stack \in Seq(1 .. last)
  /\ key \in Keys /\ is_previous_key \in BOOLEAN
  /\ root_ptr \in (1 .. last) \cup {NoAddress}
  /\ status \in {"ok", "threw", "undefined"}
  /\ phase \in {"building", "done", "broken"}

-----------------------------------------------------------------------------
(* Safety.                                                                 *)

(* The element or member of one container that another one is.             *)
IsLastElement(child, parent) ==
  heap[parent].kind = "array" /\ Len(heap[parent].elements) > 0
    /\ heap[parent].elements[Len(heap[parent].elements)] = child

IsMember(child, parent) ==
  heap[parent].kind = "dict"
    /\ \E k \in DOMAIN heap[parent].members : heap[parent].members[k] = child

(* No pointer on the stack dangles, although every one of them points into *)
(* a container that has grown before and will grow again: each open        *)
(* container is still where its pointer says, and is still the last        *)
(* element or a member of the container it was opened in; the first one is *)
(* what root_ptr_ points to.  This holds whatever the caller calls.        *)
NoDanglingPointer ==
  /\ \A i \in 1 .. Depth :
       node_stack[i] \in DOMAIN heap /\ heap[node_stack[i]].kind \in {"array", "dict"}
  /\ \A i \in 1 .. Depth - 1 :
       \/ IsLastElement(node_stack[i + 1], node_stack[i])
       \/ IsMember(node_stack[i + 1], node_stack[i])
  /\ Depth > 0 => root_ptr = node_stack[1]

(* The builder checks nothing; a caller who keeps to the grammar never     *)
(* meets an exception or undefined behaviour all the same, and is told the *)
(* end of the document by an empty stack.                                  *)
GrammarIsEnough ==
  phase # "broken" => /\ status = "ok"
                      /\ phase = "done" => Depth = 0
                      /\ is_previous_key => TopIs("dict")

-----------------------------------------------------------------------------
(* The abstract document.                                                  *)

PendingKey(i) ==
  IF heap[node_stack[i]].kind # "dict" THEN {}
  ELSE IF i = Depth THEN IF is_previous_key THEN {key} ELSE {}
  ELSE {k \in DOMAIN heap[node_stack[i]].members :
          heap[node_stack[i]].members[k] = node_stack[i + 1]}

(* An open container without the part that is still being built.           *)
OpenContainer(i) ==
  LET node == Tree(node_stack[i])
  IN  IF node.kind = "array"
        THEN [node |-> IF i = Depth THEN node
                       ELSE [node EXCEPT !.elements = SubSeq(@, 1, Len(@) - 1)],
              key |-> NoAddress]
        ELSE [node |-> [node EXCEPT !.members =
                          [k \in (DOMAIN @) \ PendingKey(i) |-> @[k]]],
              key |-> IF PendingKey(i) = {} THEN NoAddress
                      ELSE CHOOSE k \in PendingKey(i) : TRUE]

Document == INSTANCE JsonTree WITH
  NoKey <- NoAddress,
  open  <- IF phase = "broken" THEN <<>> ELSE [i \in 1 .. Depth |-> OpenContainer(i)],
  root  <- IF phase = "broken" THEN Leaf(Null) ELSE root,
  phase <- phase

(* A caller who keeps to the grammar gets from Build the document that the *)
(* calls describe, values in order and the last one of a repeated key, and *)
(* null before the document is complete.                                   *)
BuildsTheDocument == Document!Spec
=============================================================================
